---------------------------- MODULE RecordFlowProofs ----------------------------
(***************************************************************************)
(* Proofs about RecordFlow, for any batch, rule sets, mappings, overrides  *)
(* and answers of the destination: which records reach it, and what the    *)
(* load records say of them; and what the mappings make of a record: its   *)
(* id, its rate band and its area codes.                                   *)
(***************************************************************************)
EXTENDS RecordFlow, SequenceTheorems, FiniteSetTheorems, WellFoundedInduction, TLAPS

-----------------------------------------------------------------------------
(* Lists                                                                    *)

Sequence(s) == \E S : s \in Seq(S)
ElementsOf(s) == {s[i] : i \in 1 .. Len(s)}

LEMMA FunctionIsSequence ==
    ASSUME NEW g, NEW n \in Nat, g = [i \in 1 .. n |-> g[i]]
    PROVE  Sequence(g) /\ Len(g) = n
<1> DEFINE S == {g[i] : i \in 1 .. n}
<1>1. \A i \in 1 .. n : g[i] \in S
  OBVIOUS
<1>2. g \in [1 .. n -> S]
  <2> HIDE DEF S
  <2> QED
    BY <1>1
<1>3. g \in Seq(S)
  BY <1>2, SeqDef
<1>4. Len(g) \in Nat /\ DOMAIN g = 1 .. Len(g) /\ DOMAIN g = 1 .. n
  BY <1>2, <1>3, LenProperties
<1>5. Len(g) = n
  BY <1>4
<1> QED
  BY <1>3, <1>5 DEF Sequence

LEMMA SequenceLength == \A s : Sequence(s) => Len(s) \in Nat
BY LenProperties DEF Sequence

LEMMA NoEntries == \A s : Sequence(s) /\ Len(s) = 0 => s = <<>>
BY EmptySeq DEF Sequence

LEMMA EmptySequence == Sequence(<<>>) /\ Len(<<>>) = 0 /\ ElementsOf(<<>>) = {}
BY EmptySeq DEF Sequence, ElementsOf

LEMMA Joined ==
    ASSUME NEW s, NEW t, Sequence(s), Sequence(t)
    PROVE  /\ Sequence(s \o t) /\ Len(s \o t) = Len(s) + Len(t)
           /\ ElementsOf(s \o t) = ElementsOf(s) \cup ElementsOf(t)
<1>1. PICK S : s \in Seq(S)
  BY DEF Sequence
<1>2. PICK T : t \in Seq(T)
  BY DEF Sequence
<1>3. s \in Seq(S \cup T) /\ t \in Seq(S \cup T)
  BY <1>1, <1>2, SeqMonotonic
<1>4. /\ s \o t \in Seq(S \cup T) /\ Len(s \o t) = Len(s) + Len(t)
      /\ Len(s) \in Nat /\ Len(t) \in Nat
      /\ \A i \in 1 .. Len(s) + Len(t) : (s \o t)[i] = IF i <= Len(s) THEN s[i] ELSE t[i - Len(s)]
  BY <1>3, ConcatProperties, LenProperties
<1>5. ASSUME NEW i \in 1 .. Len(s) PROVE s[i] \in ElementsOf(s \o t)
  <2>1. i \in 1 .. Len(s \o t) /\ (s \o t)[i] = s[i]
    BY <1>4
  <2> QED
    BY <2>1 DEF ElementsOf
<1>6. ASSUME NEW i \in 1 .. Len(t) PROVE t[i] \in ElementsOf(s \o t)
  <2>1. Len(s) + i \in 1 .. Len(s \o t) /\ (s \o t)[Len(s) + i] = t[i]
    BY <1>4
  <2> QED
    BY <2>1 DEF ElementsOf
<1>7. ASSUME NEW i \in 1 .. Len(s \o t) PROVE (s \o t)[i] \in ElementsOf(s) \cup ElementsOf(t)
  <2>1. \/ i \in 1 .. Len(s) /\ (s \o t)[i] = s[i]
        \/ i - Len(s) \in 1 .. Len(t) /\ (s \o t)[i] = t[i - Len(s)]
    BY <1>4
  <2> QED
    BY <2>1 DEF ElementsOf
<1> QED
  BY <1>4, <1>5, <1>6, <1>7 DEF Sequence, ElementsOf

\* The entries at the places of a mask: these and no other, each once.
LEMMA Ranked ==
    ASSUME NEW n \in Nat, NEW mask \in SUBSET (1 .. n)
    PROVE  /\ Cardinality(mask) \in Nat
           /\ \A i \in mask : Rank(mask, i) \in 1 .. Cardinality(mask)
           /\ \A i, j \in mask : Rank(mask, i) = Rank(mask, j) => i = j
           /\ \A k \in 1 .. Cardinality(mask) : \E i \in mask : Rank(mask, i) = k
<1> DEFINE UpTo(i) == {j \in mask : j <= i}
<1>1. IsFiniteSet(mask) /\ Cardinality(mask) \in Nat
  <2>1. IsFiniteSet(1 .. n)
    BY FS_Interval
  <2> QED
    BY <2>1, FS_Subset, FS_CardinalityType
<1>2. \A i \in mask : IsFiniteSet(UpTo(i)) /\ Cardinality(UpTo(i)) \in Nat
  BY <1>1, FS_Subset, FS_CardinalityType
<1>3. ASSUME NEW i \in mask PROVE Rank(mask, i) \in 1 .. Cardinality(mask)
  <2>1. Cardinality(UpTo(i)) <= Cardinality(mask)
    BY <1>1, FS_Subset
  <2>2. Cardinality(UpTo(i)) # 0
    <3>1. i \in UpTo(i)
      OBVIOUS
    <3> QED
      BY <1>2, <3>1, FS_EmptySet
  <2> QED
    BY <1>1, <1>2, <2>1, <2>2 DEF Rank
<1>4. ASSUME NEW i \in mask, NEW j \in mask, Rank(mask, i) = Rank(mask, j), i < j PROVE FALSE
  <2>1. UpTo(i) \in SUBSET UpTo(j)
    <3>1. mask \subseteq Int
      OBVIOUS
    <3>2. ASSUME NEW k \in mask, k <= i PROVE k <= j
      BY <1>4, <3>1, <3>2
    <3> QED
      BY <3>2
  <2>2. UpTo(i) = UpTo(j)
    BY <1>2, <1>4, <2>1, FS_Subset DEF Rank
  <2>3. j \in UpTo(j) /\ j \notin UpTo(i)
    BY <1>4
  <2> QED
    BY <2>2, <2>3
<1>5. \A i, j \in mask : Rank(mask, i) = Rank(mask, j) => i = j
  <2>1. \A i, j \in mask : i < j \/ j < i \/ i = j
    OBVIOUS
  <2> QED
    BY <1>4, <2>1
<1>6. \A k \in 1 .. Cardinality(mask) : \E i \in mask : Rank(mask, i) = k
  <2> DEFINE places == 1 .. Cardinality(mask)
             f == [i \in mask |-> Rank(mask, i)]
  <2>1. f \in Injection(mask, places)
    BY <1>3, <1>5 DEF Injection, IsInjective
  <2>2. IsFiniteSet(places) /\ Cardinality(places) = Cardinality(mask)
    <3>1. Cardinality(1 .. Cardinality(mask)) = IF 1 > Cardinality(mask) THEN 0
                                                ELSE Cardinality(mask) - 1 + 1
      BY <1>1, FS_Interval
    <3>2. IsFiniteSet(places)
      BY <1>1, FS_Interval
    <3> QED
      BY <1>1, <3>1, <3>2
  <2>3. f \in Surjection(mask, places)
    BY <2>1, <2>2, FS_Injection
  <2> QED
    BY <2>3 DEF Surjection
<1> QED
  BY <1>1, <1>3, <1>5, <1>6

LEMMA MaskSize ==
    ASSUME NEW n \in Nat, NEW mask \in SUBSET (1 .. n)
    PROVE  IsFiniteSet(mask) /\ Cardinality(mask) \in Nat /\ Cardinality(mask) <= n
<1>1. Cardinality(1 .. n) = IF 1 > n THEN 0 ELSE n - 1 + 1
  BY FS_Interval
<1>2. IsFiniteSet(1 .. n) /\ Cardinality(1 .. n) = n
  <2>1. IsFiniteSet(1 .. n)
    BY FS_Interval
  <2> QED
    BY <1>1, <2>1
<1> QED
  BY <1>2, FS_Subset, FS_CardinalityType

LEMMA Complement ==
    ASSUME NEW n \in Nat, NEW mask \in SUBSET (1 .. n)
    PROVE  Cardinality((1 .. n) \ mask) + Cardinality(mask) = n
<1>1. Cardinality(1 .. n) = IF 1 > n THEN 0 ELSE n - 1 + 1
  BY FS_Interval
<1>2. IsFiniteSet(1 .. n) /\ Cardinality(1 .. n) = n
  <2>1. IsFiniteSet(1 .. n)
    BY FS_Interval
  <2> QED
    BY <1>1, <2>1
<1>3. (1 .. n) \cap mask = mask /\ Cardinality(mask) \in Nat
  BY MaskSize
<1>4. Cardinality((1 .. n) \ mask) = Cardinality(1 .. n) - Cardinality((1 .. n) \cap mask)
  BY <1>2, FS_Difference
<1>5. Cardinality((1 .. n) \ mask) = n - Cardinality(mask)
  <2> DEFINE all == 1 .. n
  <2> HIDE DEF all
  <2>1. Cardinality(all \ mask) = Cardinality(all) - Cardinality(all \cap mask) /\ all \cap mask = mask
    BY <1>3, <1>4 DEF all
  <2>2. Cardinality(all \ mask) = Cardinality(all) - Cardinality(mask)
    BY <2>1
  <2> QED
    BY <1>2, <2>2 DEF all
<1> QED
  BY <1>3, <1>5

LEMMA PickedIsOf ==
    ASSUME NEW list, Sequence(list), NEW mask \in SUBSET (1 .. Len(list))
    PROVE  /\ Sequence(Picked(list, mask)) /\ Len(Picked(list, mask)) = Cardinality(mask)
           /\ ElementsOf(Picked(list, mask)) = {list[i] : i \in mask}
<1>1. Len(list) \in Nat
  BY SequenceLength
<1>2. /\ Cardinality(mask) \in Nat
      /\ \A i \in mask : Rank(mask, i) \in 1 .. Cardinality(mask)
      /\ \A i, j \in mask : Rank(mask, i) = Rank(mask, j) => i = j
      /\ \A k \in 1 .. Cardinality(mask) : \E i \in mask : Rank(mask, i) = k
  BY <1>1, Ranked
<1> DEFINE picked == Picked(list, mask)
<1>3. picked = [k \in 1 .. Cardinality(mask) |-> picked[k]]
  BY DEF Picked
<1>4. \A k \in 1 .. Cardinality(mask) : picked[k] = list[CHOOSE i \in mask : Rank(mask, i) = k]
  BY DEF Picked
<1> HIDE DEF picked
<1>5. Sequence(picked) /\ Len(picked) = Cardinality(mask)
  BY <1>2, <1>3, FunctionIsSequence
<1>6. ASSUME NEW i \in mask PROVE list[i] \in ElementsOf(picked)
  <2>1. picked[Rank(mask, i)] = list[i]
    BY <1>2, <1>4
  <2> QED
    BY <1>2, <1>5, <2>1 DEF ElementsOf
<1>7. ASSUME NEW k \in 1 .. Len(picked) PROVE picked[k] \in {list[i] : i \in mask}
  <2>1. (CHOOSE i \in mask : Rank(mask, i) = k) \in mask
    BY <1>2, <1>5
  <2> QED
    BY <1>4, <1>5, <2>1
<1> QED
  BY <1>5, <1>6, <1>7 DEF picked, ElementsOf

-----------------------------------------------------------------------------
(* The batch, and what the stages make of a chunk                           *)

LEMMA ChunksAreLists ==
    /\ Len(Chunks) \in Nat /\ Len(Chunks) # 0
    /\ \A c \in 1 .. Len(Chunks) : Sequence(Chunks[c]) /\ Len(Chunks[c]) \in Nat
<1> DEFINE S == UNION {ToSet(Chunks[c]) : c \in 1 .. Len(Chunks)}
<1> HIDE DEF S
<1>1. Chunks \in Seq(Seq(S)) /\ Chunks # <<>>
  BY RecordAssumption DEF S
<1>2. Len(Chunks) \in Nat /\ Len(Chunks) # 0
  BY <1>1, LenProperties, EmptySeq
<1>3. ASSUME NEW c \in 1 .. Len(Chunks) PROVE Sequence(Chunks[c]) /\ Len(Chunks[c]) \in Nat
  <2>1. Chunks[c] \in Seq(S)
    BY <1>1, ElementOfSeq
  <2> QED
    BY <2>1, LenProperties DEF Sequence
<1> QED
  BY <1>2, <1>3

LEMMA PlacesOfChunks ==
    /\ \A c \in 1 .. Len(Chunks) : \A i \in 1 .. Len(Chunks[c]) :
            <<c, i>> \in Places /\ At(<<c, i>>) = Chunks[c][i]
    /\ \A p \in Places : \E c \in 1 .. Len(Chunks) : \E i \in 1 .. Len(Chunks[c]) :
            p = <<c, i>> /\ At(p) = Chunks[c][i]
BY DEF Places, At

LEMMA Single == \A x : Sequence(<<x>>) /\ Len(<<x>>) = 1 /\ <<x>>[1] = x
<1> TAKE x
<1>1. <<x>> \in Seq({x})
  OBVIOUS
<1> QED
  BY <1>1 DEF Sequence

\* A transform stage maps the records one by one, whatever the mappings are.
LEMMA MappedOneByOne ==
    ASSUME NEW records, Sequence(records), NEW mappings, NEW rules, NEW table
    PROVE  LET out == transform_apply(records, mappings, rules, table)
           IN /\ Sequence(out) /\ Len(out) = Len(records)
              /\ \A i \in 1 .. Len(records) :
                     out[i] = transform_apply(<<records[i]>>, mappings, rules, table)[1]
<1> DEFINE out == transform_apply(records, mappings, rules, table)
<1>1. CASE EnabledMappings(mappings) = <<>>
  BY <1>1, Single DEF transform_apply
<1>2. CASE EnabledMappings(mappings) # <<>>
  <2> DEFINE one(r) == transform_one(r, EnabledMappings(mappings), rules, table)
  <2>1. \A rs : transform_apply(rs, mappings, rules, table) = [i \in 1 .. Len(rs) |-> one(rs[i])]
    BY <1>2 DEF transform_apply
  <2> HIDE DEF one
  <2>2. Len(records) \in Nat
    BY SequenceLength
  <2>3. out = [i \in 1 .. Len(records) |-> out[i]]
    BY <2>1
  <2>4. Sequence(out) /\ Len(out) = Len(records)
    <3> HIDE DEF out
    <3> QED
      BY <2>2, <2>3, FunctionIsSequence
  <2>5. ASSUME NEW i \in 1 .. Len(records)
        PROVE  out[i] = transform_apply(<<records[i]>>, mappings, rules, table)[1]
    <3>1. out[i] = one(records[i])
      BY <2>1
    <3>2. transform_apply(<<records[i]>>, mappings, rules, table)[1] = one(records[i])
      BY <2>1, Single
    <3> QED
      BY <3>1, <3>2
  <2> QED
    BY <2>4, <2>5
<1> QED
  BY <1>1, <1>2

LEMMA ShapedOneByOne ==
    ASSUME NEW records, Sequence(records)
    PROVE  /\ Sequence(Shaped(records)) /\ Len(Shaped(records)) = Len(records)
           /\ \A i \in 1 .. Len(records) : Shaped(records)[i] = Shaped(<<records[i]>>)[1]
<1>1. CASE Adapter # "sap"
  BY <1>1, Single DEF Shaped
<1>2. CASE Adapter = "sap"
  <2>1. \A rs : Shaped(rs) = [i \in 1 .. Len(rs) |-> to_sap_record(rs[i])]
    BY <1>2 DEF Shaped
  <2> DEFINE out == Shaped(records)
  <2>2. out = [i \in 1 .. Len(records) |-> out[i]]
    BY <2>1
  <2> HIDE DEF out
  <2>3. Sequence(out) /\ Len(out) = Len(records)
    BY <2>2, SequenceLength, FunctionIsSequence
  <2>4. \A i \in 1 .. Len(records) : out[i] = Shaped(<<records[i]>>)[1]
    BY <2>1, Single DEF out
  <2> QED
    BY <2>3, <2>4 DEF out
<1> QED
  BY <1>1, <1>2

\* What is sent of each record does not depend on the others of its list.
LEMMA SentOneByOne ==
    ASSUME NEW records, Sequence(records)
    PROVE  /\ Sequence(Transformed(records)) /\ Len(Transformed(records)) = Len(records)
           /\ Sequence(Shaped(Transformed(records)))
           /\ ElementsOf(Shaped(Transformed(records)))
                = {Sent(records[i], ruleset, cfg) : i \in 1 .. Len(records)}
<1> DEFINE Out(rs) == Transformed(rs)
<1>1. \A rs : Sequence(rs) =>
          /\ Sequence(Out(rs)) /\ Len(Out(rs)) = Len(rs)
          /\ \A i \in 1 .. Len(rs) : Out(rs)[i] = Out(<<rs[i]>>)[1]
  BY MappedOneByOne DEF Transformed
<1>2. \A r : Sent(r, ruleset, cfg) = Shaped(Out(<<r>>))[1]
  BY DEF Sent, Transformed
<1> HIDE DEF Out
<1>3. Sequence(Shaped(Out(records))) /\ Len(Shaped(Out(records))) = Len(records)
  BY <1>1, ShapedOneByOne
<1>4. ASSUME NEW i \in 1 .. Len(records)
      PROVE  Shaped(Out(records))[i] = Sent(records[i], ruleset, cfg)
  <2>1. Shaped(Out(records))[i] = Shaped(<<Out(records)[i]>>)[1]
    BY <1>1, ShapedOneByOne
  <2>2. Sequence(Out(<<records[i]>>)) /\ Len(Out(<<records[i]>>)) = 1
    BY <1>1, Single
  <2>3. Shaped(Out(<<records[i]>>))[1] = Shaped(<<Out(<<records[i]>>)[1]>>)[1]
    BY <2>2, ShapedOneByOne
  <2> QED
    BY <1>1, <1>2, <2>1, <2>3
<1>5. ElementsOf(Shaped(Out(records))) = {Sent(records[i], ruleset, cfg) : i \in 1 .. Len(records)}
  BY <1>3, <1>4 DEF ElementsOf
<1> QED
  BY <1>1, <1>3, <1>5 DEF Out

-----------------------------------------------------------------------------
(* Where a record that reaches the destination comes from.  MayLoad are the *)
(* ids a chunk can load: those of its valid records, or of all when none is *)
(* valid or no rule set checks them.                                        *)

MayLoad(c) == IF UnderRules /\ ValidIn(c) # <<>> THEN Ids(ValidIn(c)) ELSE Ids(Chunks[c])
Comes(s, c) ==
    \A x \in ElementsOf(s) : \E i \in 1 .. Len(Chunks[c]) :
        Chunks[c][i].id \in MayLoad(c) /\ x \in Forms(Chunks[c][i])

\* What is sent is what the mappings of the run made of a record of the batch.
Made(x) == \E p \in Places, loaded \in Configs : \E form \in Forms(At(p)) :
               x = Sent(form, ruleset, loaded)
Followed(x) == /\ Made(x)
               /\ KeepsIds => \E c \in 1 .. Len(Chunks) : external_id(x) \in MayLoad(c)
MeetsTarget(x) == Adapter \in {"kraken", "sap"} => PassesTarget(TargetSystem, "account", x)
Loadable(x) == Followed(x) /\ MeetsTarget(x)
Nameable(x) == KeepsIds => external_id(x) \in AllIds \cup {"unknown"}

LEMMA IdsAreOfElements == \A s : Ids(s) = {x.id : x \in ElementsOf(s)}
BY DEF Ids, ElementsOf

LEMMA ValidPlaces ==
    ASSUME NEW c \in 1 .. Len(Chunks)
    PROVE  LET mask == (1 .. Len(Chunks[c])) \ Refused(Chunks[c], EnabledRules(ruleset.validation))
           IN /\ Sequence(ValidIn(c)) /\ Len(ValidIn(c)) <= Len(Chunks[c])
              /\ ElementsOf(ValidIn(c)) = {Chunks[c][i] : i \in mask}
<1> DEFINE mask == (1 .. Len(Chunks[c])) \ Refused(Chunks[c], EnabledRules(ruleset.validation))
<1>1. ValidIn(c) = Picked(Chunks[c], mask)
  BY DEF ValidIn, validation_apply
<1>2. Sequence(Chunks[c]) /\ Len(Chunks[c]) \in Nat /\ mask \in SUBSET (1 .. Len(Chunks[c]))
  BY ChunksAreLists
<1> HIDE DEF mask
<1>3. /\ Sequence(Picked(Chunks[c], mask)) /\ Len(Picked(Chunks[c], mask)) = Cardinality(mask)
      /\ ElementsOf(Picked(Chunks[c], mask)) = {Chunks[c][i] : i \in mask}
  BY <1>2, PickedIsOf
<1>4. Cardinality(mask) <= Len(Chunks[c])
  BY <1>2, MaskSize
<1> QED
  BY <1>1, <1>3, <1>4 DEF mask

LEMMA ChunkIds ==
    ASSUME NEW c \in 1 .. Len(Chunks)
    PROVE  /\ Ids(ValidIn(c)) \subseteq Ids(Chunks[c]) /\ MayLoad(c) \subseteq Ids(Chunks[c])
           /\ Ids(Chunks[c]) \subseteq AllIds
<1>1. ElementsOf(ValidIn(c)) \subseteq ElementsOf(Chunks[c])
  <2>1. PICK mask \in SUBSET (1 .. Len(Chunks[c])) : ElementsOf(ValidIn(c)) = {Chunks[c][i] : i \in mask}
    BY ValidPlaces
  <2> QED
    BY <2>1 DEF ElementsOf
<1>2. Ids(ValidIn(c)) \subseteq Ids(Chunks[c])
  BY <1>1, IdsAreOfElements
<1>3. Ids(Chunks[c]) \subseteq AllIds
  <2> SUFFICES ASSUME NEW i \in 1 .. Len(Chunks[c])
               PROVE  Chunks[c][i].id \in AllIds
    BY DEF Ids
  <2>1. <<c, i>> \in Places /\ At(<<c, i>>) = Chunks[c][i]
    BY PlacesOfChunks
  <2> QED
    BY <2>1 DEF AllIds
<1> QED
  BY <1>2, <1>3 DEF MayLoad

\* The schema check passes a record on as it casts it.
LEMMA SchemaCheck ==
    ASSUME NEW records, Sequence(records)
    PROVE  /\ Sequence(source_validate(records))
           /\ Len(source_validate(records)) = Cardinality(Passing(records))
           /\ \A x \in ElementsOf(source_validate(records)) :
                  \E i \in 1 .. Len(records) : x \in Forms(records[i])
<1> DEFINE passing == Picked(records, Passing(records))
           out == source_validate(records)
<1>1. Passing(records) \in SUBSET (1 .. Len(records))
  BY DEF Passing
<1>2. /\ Sequence(passing) /\ Len(passing) = Cardinality(Passing(records))
      /\ ElementsOf(passing) = {records[i] : i \in Passing(records)}
  BY <1>1, PickedIsOf
<1>3. Len(passing) \in Nat
  BY <1>2, SequenceLength
<1>4. /\ out = [k \in 1 .. Len(passing) |-> out[k]]
      /\ \A k \in 1 .. Len(passing) : out[k] = validate_one(Entity, passing[k]).coerced
  BY DEF source_validate
<1> HIDE DEF out, passing
<1>5. Sequence(out) /\ Len(out) = Len(passing)
  BY <1>3, <1>4, FunctionIsSequence
<1>6. ASSUME NEW k \in 1 .. Len(out) PROVE \E i \in 1 .. Len(records) : out[k] \in Forms(records[i])
  <2>1. passing[k] \in ElementsOf(passing)
    BY <1>5 DEF ElementsOf
  <2>2. PICK i \in Passing(records) : passing[k] = records[i]
    BY <1>2, <2>1
  <2>3. Passes(records[i]) /\ i \in 1 .. Len(records)
    BY DEF Passing
  <2>4. out[k] = validate_one(Entity, records[i]).coerced
    BY <1>4, <1>5, <2>2
  <2> QED
    BY <2>3, <2>4 DEF Forms
<1> QED
  BY <1>2, <1>5, <1>6 DEF out, ElementsOf

LEMMA SchemaComes ==
    ASSUME NEW c \in 1 .. Len(Chunks), ~(UnderRules /\ ValidIn(c) # <<>>)
    PROVE  LET s == source_validate(Chunks[c]) IN Sequence(s) /\ Comes(s, c)
<1>1. Sequence(Chunks[c])
  BY ChunksAreLists
<1>2. MayLoad(c) = Ids(Chunks[c])
  BY DEF MayLoad
<1>3. \A i \in 1 .. Len(Chunks[c]) : Chunks[c][i].id \in MayLoad(c)
  BY <1>2 DEF Ids
<1> QED
  BY <1>1, <1>3, SchemaCheck DEF Comes

-----------------------------------------------------------------------------
(* The inductive invariant: the shape of the state, what the stages have    *)
(* done with the chunk, and what the results and load records are.          *)

MetaFields == {"records", "valid", "invalid", "transformed", "loaded", "failed"}
Shape ==
    /\ ruleset \in RuleSets /\ config \in Configs /\ cfg \in Configs
    /\ editing \in [Editors -> Configs \cup {NotEditing}]
    /\ status \in {"queued", "running", "failed", "completed"} /\ next \in 1 .. Len(Chunks)
    /\ stage \in {"ingest", "validate", "transform", "load"}
    /\ DOMAIN candidates = Places
    /\ DOMAIN meta = MetaFields /\ Len(meta.valid) + Len(meta.invalid) <= Len(meta.records)

Staged ==
    /\ stage # "ingest" => meta.records = Chunks[next]
    /\ stage \in {"transform", "load"} => meta.valid = Validated(Chunks[next]).valid
    /\ stage = "load" => meta.transformed = Transformed(meta.valid)

WellLoaded(load) ==
    /\ load.id = external_id(load.payload)
    /\ \/ load.status = "loaded" /\ Loadable(load.payload)
       \/ load.status = "failed" /\ Nameable(load.payload)
Traced ==
    /\ Sequence(results.loaded) /\ \A x \in ElementsOf(results.loaded) : Loadable(x)
    /\ Sequence(results.failed) /\ \A x \in ElementsOf(results.failed) : Nameable(x)
    /\ Sequence(loads) /\ \A x \in ElementsOf(loads) : WellLoaded(x)

RecordInv == Shape /\ Staged /\ Traced

-----------------------------------------------------------------------------
(* The load stage                                                           *)

LEMMA ValidatedComes ==
    ASSUME Shape
    PROVE  LET s == Validated(Chunks[next]).valid
           IN /\ Sequence(s) /\ (UnderRules /\ ValidIn(next) = <<>> => s = <<>>)
              /\ (~(UnderRules /\ ValidIn(next) = <<>>) => Comes(s, next))
<1>1. next \in 1 .. Len(Chunks) /\ Sequence(Chunks[next])
  BY ChunksAreLists DEF Shape
<1>2. CASE UnderRules
  <2>1. Validated(Chunks[next]).valid = ValidIn(next)
    BY <1>2 DEF Validated, ValidIn, UnderRules
  <2>2. PICK mask \in SUBSET (1 .. Len(Chunks[next])) :
           ElementsOf(ValidIn(next)) = {Chunks[next][i] : i \in mask}
    BY <1>1, ValidPlaces
  <2>3. ASSUME ValidIn(next) # <<>> PROVE Comes(ValidIn(next), next)
    <3>1. MayLoad(next) = {x.id : x \in ElementsOf(ValidIn(next))}
      BY <1>2, <2>3, IdsAreOfElements DEF MayLoad
    <3> SUFFICES ASSUME NEW x \in ElementsOf(ValidIn(next))
                 PROVE  \E i \in 1 .. Len(Chunks[next]) :
                            Chunks[next][i].id \in MayLoad(next) /\ x \in Forms(Chunks[next][i])
      BY DEF Comes
    <3>2. PICK i \in mask : x = Chunks[next][i]
      BY <2>2
    <3> QED
      BY <3>1, <3>2 DEF Forms
  <2>4. Sequence(ValidIn(next))
    BY <1>1, ValidPlaces
  <2> QED
    BY <1>2, <2>1, <2>3, <2>4
<1>3. CASE ~UnderRules
  <2>1. Validated(Chunks[next]).valid = source_validate(Chunks[next])
    BY <1>3 DEF Validated, UnderRules
  <2> QED
    BY <1>1, <1>3, <2>1, SchemaComes
<1> QED
  BY <1>2, <1>3

\* Whatever way a chunk takes, the load stage sends the ids it may load.
LEMMA ToLoadComes ==
    ASSUME RecordInv, stage = "load"
    PROVE  \E s : Sequence(s) /\ Comes(s, next) /\ ToLoad(meta) = Transformed(s)
<1>1. /\ next \in 1 .. Len(Chunks) /\ Sequence(Chunks[next]) /\ meta.records = Chunks[next]
      /\ meta.transformed = Transformed(Validated(Chunks[next]).valid)
  BY ChunksAreLists DEF RecordInv, Shape, Staged
<1> DEFINE s == Validated(Chunks[next]).valid
<1>2. /\ Sequence(s) /\ (UnderRules /\ ValidIn(next) = <<>> => s = <<>>)
      /\ (~(UnderRules /\ ValidIn(next) = <<>>) => Comes(s, next))
  BY ValidatedComes DEF RecordInv
<1> HIDE DEF s
<1>3. CASE meta.transformed # <<>>
  <2>1. Sequence(Transformed(s)) /\ Len(Transformed(s)) = Len(s)
    BY <1>2, SentOneByOne
  <2>2. s # <<>>
    <3> SUFFICES ASSUME s = <<>> PROVE FALSE
      OBVIOUS
    <3>1. Len(Transformed(s)) = 0
      BY <2>1, EmptySequence
    <3>2. Transformed(s) = <<>>
      BY <2>1, <3>1, NoEntries
    <3> QED
      BY <1>1, <1>3, <3>2 DEF s
  <2>3. ToLoad(meta) = Transformed(s)
    BY <1>1, <1>3 DEF ToLoad, s
  <2> QED
    BY <1>2, <2>2, <2>3
<1>4. CASE meta.transformed = <<>>
  <2> DEFINE t == source_validate(Chunks[next])
  <2>1. ToLoad(meta) = Transformed(t)
    BY <1>1, <1>4 DEF ToLoad
  <2>2. ~(UnderRules /\ ValidIn(next) # <<>>)
    <3> SUFFICES ASSUME UnderRules, ValidIn(next) # <<>> PROVE FALSE
      OBVIOUS
    <3>1. s = ValidIn(next)
      BY DEF Validated, ValidIn, UnderRules, s
    <3>2. Len(Transformed(s)) = Len(s)
      BY <1>2, SentOneByOne
    <3>3. Len(s) = 0
      BY <1>1, <1>4, <3>2, EmptySequence DEF s
    <3> QED
      BY <1>2, <3>1, <3>3, NoEntries
  <2>3. Sequence(t) /\ Comes(t, next)
    BY <1>1, <2>2, SchemaComes
  <2> QED
    BY <2>1, <2>3
<1> QED
  BY <1>3, <1>4

LEMMA SentFollowed ==
    ASSUME Shape, NEW s, Sequence(s), Comes(s, next)
    PROVE  \A x \in ElementsOf(Shaped(Transformed(s))) : Followed(x)
<1>1. ElementsOf(Shaped(Transformed(s))) = {Sent(s[i], ruleset, cfg) : i \in 1 .. Len(s)}
  BY SentOneByOne
<1> SUFFICES ASSUME NEW k \in 1 .. Len(s)
             PROVE  /\ Made(Sent(s[k], ruleset, cfg))
                    /\ KeepsIds => external_id(Sent(s[k], ruleset, cfg)) \in MayLoad(next)
  BY <1>1 DEF Followed, Shape
<1>2. PICK i \in 1 .. Len(Chunks[next]) :
         Chunks[next][i].id \in MayLoad(next) /\ s[k] \in Forms(Chunks[next][i])
  BY DEF Comes, ElementsOf
<1>3. next \in 1 .. Len(Chunks) /\ ruleset \in RuleSets /\ cfg \in Configs
  BY DEF Shape
<1>4. <<next, i>> \in Places /\ At(<<next, i>>) = Chunks[next][i]
  BY <1>3, PlacesOfChunks
<1>5. KeepsIds => external_id(Sent(s[k], ruleset, cfg)) = At(<<next, i>>).id
  BY <1>2, <1>3, <1>4 DEF KeepsIds
<1>6. Made(Sent(s[k], ruleset, cfg))
  BY <1>2, <1>3, <1>4 DEF Made
<1> QED
  BY <1>2, <1>4, <1>5, <1>6

LEMMA PreparedOf ==
    ASSUME NEW records, Sequence(records)
    PROVE  /\ Sequence(Prepared(records).valid) /\ Sequence(Prepared(records).invalid)
           /\ \A x \in ElementsOf(Prepared(records).valid) :
                  x \in ElementsOf(Shaped(records)) /\ MeetsTarget(x)
           /\ ElementsOf(Prepared(records).invalid) \subseteq ElementsOf(Shaped(records))
<1>1. CASE Adapter \in {"kraken", "sap"}
  <2> DEFINE shaped == Shaped(records)
             passing == {i \in 1 .. Len(shaped) : PassesTarget(TargetSystem, "account", shaped[i])}
             refused == (1 .. Len(shaped)) \ passing
  <2>1. Sequence(shaped)
    BY ShapedOneByOne
  <2>2. Prepared(records) = [valid |-> Picked(shaped, passing), invalid |-> Picked(shaped, refused)]
    BY <1>1 DEF Prepared, validate_against_target
  <2>3. passing \in SUBSET (1 .. Len(shaped)) /\ refused \in SUBSET (1 .. Len(shaped))
    OBVIOUS
  <2>4. \A i \in passing : MeetsTarget(shaped[i])
    BY DEF MeetsTarget
  <2> HIDE DEF shaped, passing, refused
  <2>5. /\ Sequence(Picked(shaped, passing)) /\ Sequence(Picked(shaped, refused))
        /\ ElementsOf(Picked(shaped, passing)) = {shaped[i] : i \in passing}
        /\ ElementsOf(Picked(shaped, refused)) = {shaped[i] : i \in refused}
    BY <2>1, <2>3, PickedIsOf
  <2>6. \A i \in 1 .. Len(shaped) : shaped[i] \in ElementsOf(shaped)
    BY DEF ElementsOf
  <2>7. /\ \A x \in ElementsOf(Picked(shaped, passing)) : x \in ElementsOf(shaped) /\ MeetsTarget(x)
        /\ ElementsOf(Picked(shaped, refused)) \subseteq ElementsOf(shaped)
    BY <2>3, <2>4, <2>5, <2>6
  <2> QED
    BY <2>2, <2>5, <2>7 DEF shaped
<1>2. CASE Adapter \notin {"kraken", "sap"}
  <2>1. Prepared(records) = [valid |-> records, invalid |-> <<>>] /\ Shaped(records) = records
    BY <1>2 DEF Prepared, Shaped
  <2> QED
    BY <1>2, <2>1, EmptySequence DEF MeetsTarget
<1> QED
  BY <1>1, <1>2

LEMMA PartOf ==
    ASSUME NEW s, Sequence(s), NEW mask \in SUBSET (1 .. Len(s))
    PROVE  Sequence(Picked(s, mask)) /\ ElementsOf(Picked(s, mask)) \subseteq ElementsOf(s)
<1>1. ElementsOf(Picked(s, mask)) = {s[i] : i \in mask}
  BY PickedIsOf
<1>2. \A i \in mask : s[i] \in ElementsOf(s)
  BY DEF ElementsOf
<1> QED
  BY <1>1, <1>2, PickedIsOf

LEMMA PartitionOf ==
    ASSUME NEW records, Sequence(records)
    PROVE  LET split == partition_idempotent(records)
           IN /\ Sequence(split.skipped) /\ ElementsOf(split.skipped) \subseteq ElementsOf(records)
              /\ Sequence(split.to_load) /\ ElementsOf(split.to_load) \subseteq ElementsOf(records)
<1> DEFINE skipped == {i \in 1 .. Len(records) : Skips(records[i])}
<1>1. skipped \in SUBSET (1 .. Len(records)) /\ (1 .. Len(records)) \ skipped \in SUBSET (1 .. Len(records))
  OBVIOUS
<1>2. partition_idempotent(records) = [skipped |-> Picked(records, skipped),
                                       to_load |-> Picked(records, (1 .. Len(records)) \ skipped)]
  BY DEF partition_idempotent
<1> HIDE DEF skipped
<1> QED
  BY <1>1, <1>2, PartOf

\* An answer names records of the request, or fails a record without fields.
LEMMA AnswerOf ==
    ASSUME NEW records, Sequence(records), NEW answer \in Responses(records)
    PROVE  /\ Sequence(answer.loaded) /\ ElementsOf(answer.loaded) \subseteq ElementsOf(records)
           /\ Sequence(answer.failed)
           /\ ElementsOf(answer.failed) \subseteq ElementsOf(records) \cup {<<>>}
<1> DEFINE all == 1 .. Len(records)
<1>1. PICK f \in SUBSET all :
         /\ answer.loaded = Picked(records, all \ f) \/ answer.loaded = records
         /\ \/ answer.failed = Picked(records, f)
            \/ answer.failed = <<>>
            \/ answer.failed = << <<>> >>
  <2> DEFINE Failures == IF Adapter = "kraken" THEN SUBSET all ELSE {{}}
  <2>1. PICK how \in Answers : answer \in
          IF how = "lists"
          THEN {[loaded |-> Picked(records, all \ f), failed |-> Picked(records, f)] : f \in Failures}
          ELSE IF how = "failed_only"
          THEN {[loaded |-> records, failed |-> Picked(records, f)] : f \in Failures}
          ELSE {[loaded |-> Picked(records, all \ f),
                 failed |-> IF f = {} THEN <<>> ELSE << <<>> >>] : f \in Failures}
    BY DEF Responses
  <2>2. Failures \subseteq SUBSET all
    OBVIOUS
  <2> HIDE DEF Failures, all
  <2>3. CASE how = "lists"
    <3>1. PICK f \in Failures : answer = [loaded |-> Picked(records, all \ f), failed |-> Picked(records, f)]
      BY <2>1, <2>3
    <3> QED
      BY <2>2, <3>1
  <2>4. CASE how = "failed_only"
    BY <2>1, <2>2, <2>4
  <2>5. CASE how \notin {"lists", "failed_only"}
    <3>1. PICK f \in Failures : answer = [loaded |-> Picked(records, all \ f),
                                             failed |-> IF f = {} THEN <<>> ELSE << <<>> >>]
      BY <2>1, <2>5
    <3> QED
      BY <2>2, <3>1
  <2> QED
    BY <2>3, <2>4, <2>5
<1>2. /\ Sequence(Picked(records, all \ f)) /\ Sequence(Picked(records, f))
      /\ ElementsOf(Picked(records, all \ f)) \subseteq ElementsOf(records)
      /\ ElementsOf(Picked(records, f)) \subseteq ElementsOf(records)
  BY <1>1, PartOf
<1>3. Sequence(<< <<>> >>) /\ ElementsOf(<< <<>> >>) = {<<>>}
  <2>1. Sequence(<< <<>> >>) /\ Len(<< <<>> >>) = 1 /\ << <<>> >>[1] = <<>>
    BY Single
  <2>2. \A i \in 1 .. 1 : i = 1
    OBVIOUS
  <2> QED
    BY <2>1, <2>2 DEF ElementsOf
<1> QED
  BY <1>1, <1>2, <1>3, EmptySequence

LEMMA FieldlessUnknown == external_id(<<>>) = "unknown"
<1>1. \A k : Get(<<>>, k) = None
  BY DEF Get
<1> QED
  BY <1>1 DEF external_id, FirstIn

\* What a load stage adds to the results, and how it ends.
LEMMA LoadResults ==
    ASSUME RecordInv, stage = "load",
           NEW prepared, prepared = Prepared(ToLoad(meta)),
           NEW split, split = partition_idempotent(prepared.valid),
           NEW answer \in Responses(split.to_load)
    PROVE  /\ Sequence(answer.loaded \o split.skipped)
           /\ \A x \in ElementsOf(answer.loaded \o split.skipped) : Loadable(x)
           /\ Sequence(prepared.invalid \o answer.failed)
           /\ \A x \in ElementsOf(prepared.invalid \o answer.failed) : Nameable(x)
<1>1. PICK s : Sequence(s) /\ Comes(s, next) /\ ToLoad(meta) = Transformed(s)
  BY ToLoadComes
<1> DEFINE E == ElementsOf(Shaped(Transformed(s)))
<1>2. \A x \in E : Followed(x)
  BY <1>1, SentFollowed DEF RecordInv
<1>3. /\ Sequence(prepared.valid) /\ Sequence(prepared.invalid)
      /\ \A x \in ElementsOf(prepared.valid) : x \in E /\ MeetsTarget(x)
      /\ ElementsOf(prepared.invalid) \subseteq E
  BY <1>1, SentOneByOne, PreparedOf
<1>4. /\ Sequence(split.skipped) /\ ElementsOf(split.skipped) \subseteq ElementsOf(prepared.valid)
      /\ Sequence(split.to_load) /\ ElementsOf(split.to_load) \subseteq ElementsOf(prepared.valid)
  BY <1>3, PartitionOf
<1>5. /\ Sequence(answer.loaded) /\ ElementsOf(answer.loaded) \subseteq ElementsOf(split.to_load)
      /\ Sequence(answer.failed)
      /\ ElementsOf(answer.failed) \subseteq ElementsOf(split.to_load) \cup {<<>>}
  BY <1>4, AnswerOf
<1> HIDE DEF E
<1>6. \A x \in E : Nameable(x)
  BY <1>2, ChunkIds DEF Followed, Nameable
<1>7. Nameable(<<>>)
  BY FieldlessUnknown DEF Nameable
<1>8. Sequence(answer.loaded \o split.skipped) /\ Sequence(prepared.invalid \o answer.failed)
  BY <1>3, <1>4, <1>5, Joined
<1>9. /\ ElementsOf(answer.loaded \o split.skipped)
           = ElementsOf(answer.loaded) \cup ElementsOf(split.skipped)
      /\ ElementsOf(prepared.invalid \o answer.failed)
           = ElementsOf(prepared.invalid) \cup ElementsOf(answer.failed)
  BY <1>3, <1>4, <1>5, Joined
<1>10. \A x \in ElementsOf(prepared.valid) : Loadable(x) /\ Nameable(x)
  BY <1>2, <1>3, <1>6 DEF Loadable
<1>11. \A x \in ElementsOf(answer.loaded \o split.skipped) : Loadable(x)
  BY <1>4, <1>5, <1>9, <1>10
<1>12. \A x \in ElementsOf(prepared.invalid \o answer.failed) : Nameable(x)
  BY <1>3, <1>4, <1>5, <1>6, <1>7, <1>9, <1>10
<1> QED
  BY <1>8, <1>11, <1>12

-----------------------------------------------------------------------------
(* The steps                                                                *)

\* The rule set of a run stays, and with it what may be loaded.
LEMMA RulesStay ==
    ASSUME ruleset' = ruleset
    PROVE  /\ \A x : (Loadable(x)' <=> Loadable(x)) /\ (Nameable(x)' <=> Nameable(x))
           /\ \A x : WellLoaded(x)' <=> WellLoaded(x)
<1>1. \A c : MayLoad(c)' = MayLoad(c)
  BY DEF MayLoad, UnderRules, ValidIn
<1>2. \A x : Made(x)' <=> Made(x)
  BY DEF Made
<1>3. \A x : (Loadable(x)' <=> Loadable(x)) /\ (Nameable(x)' <=> Nameable(x))
  BY <1>1, <1>2 DEF Loadable, Followed, MeetsTarget, Nameable
<1> QED
  BY <1>3 DEF WellLoaded

LEMMA TracedStays ==
    ASSUME Traced, UNCHANGED <<ruleset, results, loads>>
    PROVE  Traced'
BY RulesStay DEF Traced

LEMMA StagedStays ==
    ASSUME Staged, UNCHANGED <<ruleset, cfg, next, stage, meta>>
    PROVE  Staged'
<1>1. Validated(Chunks[next])' = Validated(Chunks[next]) /\ Transformed(meta.valid)' = Transformed(meta.valid)
  BY DEF Validated, Transformed
<1> QED
  BY <1>1 DEF Staged

LEMMA ProjectConfigsAre == ProjectConfigs \subseteq Configs
<1> SUFFICES ASSUME NEW c \in ProjectConfigs PROVE c \in Configs
  OBVIOUS
<1>1. c = [overrides |-> c.overrides, tariffs |-> c.tariffs, zones |-> c.zones]
  BY RecordAssumption
<1> QED
  BY <1>1 DEF Configs

LEMMA PatchedIs ==
    ASSUME NEW loaded \in Configs, loaded.overrides = Unset, NEW patch \in Patches
    PROVE  Patched(loaded, patch) \in Configs
<1> DEFINE base == [overrides |-> Unset]
           over == [key \in DOMAIN Unset \cup {patch.key} |->
                       IF key # patch.key THEN Unset[key]
                       ELSE deep_merge(IF key \in DOMAIN Unset THEN Unset[key] ELSE <<>>, patch.rules)]
<1>1. base.overrides = Unset
  OBVIOUS
<1>2. Patched(loaded, patch) = [loaded EXCEPT !.overrides = over]
  BY DEF Patched
<1>3. Patched(base, patch) = [base EXCEPT !.overrides = over]
  BY <1>1 DEF Patched
<1> HIDE DEF over
<1>4. Edited(patch) = over
  BY <1>3 DEF Edited
<1> QED
  BY <1>2, <1>4 DEF Configs

LEMMA EditStep ==
    ASSUME RecordInv,
           \/ \E e \in Editors : LoadProject(e) \/ \E patch \in Patches : update_stw_rule(e, patch)
           \/ update_project \/ reset_stw_transform_rules
    PROVE  RecordInv'
<1>1. UNCHANGED <<ruleset, flow>>
  BY DEF LoadProject, update_stw_rule, update_project, reset_stw_transform_rules
<1>2. Staged' /\ Traced'
  BY <1>1, StagedStays, TracedStays DEF flow, RecordInv
<1>3. config' \in Configs /\ editing' \in [Editors -> Configs \cup {NotEditing}]
  <2>1. ASSUME NEW e \in Editors, LoadProject(e)
        PROVE  config' \in Configs /\ editing' \in [Editors -> Configs \cup {NotEditing}]
    BY <2>1 DEF LoadProject, RecordInv, Shape
  <2>2. ASSUME NEW e \in Editors, NEW patch \in Patches, update_stw_rule(e, patch)
        PROVE  config' \in Configs /\ editing' \in [Editors -> Configs \cup {NotEditing}]
    <3>1. editing[e] \in Configs /\ config \in Configs
      BY <2>2 DEF update_stw_rule, RecordInv, Shape
    <3>2. CASE editing[e].overrides # Unset
      BY <2>2, <3>1, <3>2 DEF update_stw_rule, Stored, RecordInv, Shape
    <3>3. CASE editing[e].overrides = Unset
      <4>1. config' = Patched(editing[e], patch)
        BY <2>2, <3>3 DEF update_stw_rule, Stored
      <4>2. config' \in Configs
        BY <3>1, <3>3, <4>1, PatchedIs
      <4> QED
        BY <2>2, <4>2 DEF update_stw_rule, RecordInv, Shape
    <3> QED
      BY <3>2, <3>3
  <2>3. ASSUME reset_stw_transform_rules
        PROVE  config' \in Configs /\ editing' \in [Editors -> Configs \cup {NotEditing}]
    <3>1. config \in Configs
      BY DEF RecordInv, Shape
    <3>2. config' = [config EXCEPT !.overrides = Unset, !.tariffs = <<>>]
      BY <2>3 DEF reset_stw_transform_rules
    <3>3. config' \in Configs
      BY <3>1, <3>2 DEF Configs
    <3> QED
      BY <2>3, <3>3 DEF reset_stw_transform_rules, RecordInv, Shape
  <2>4. ASSUME update_project
        PROVE  config' \in Configs /\ editing' \in [Editors -> Configs \cup {NotEditing}]
    BY <2>4, ProjectConfigsAre DEF update_project, RecordInv, Shape
  <2> QED
    BY <2>1, <2>2, <2>3, <2>4
<1>4. Shape'
  BY <1>1, <1>3 DEF flow, RecordInv, Shape
<1> QED
  BY <1>2, <1>4 DEF RecordInv

LEMMA FreshIs ==
    /\ DOMAIN Fresh = MetaFields /\ Fresh.records = <<>> /\ Fresh.valid = <<>> /\ Fresh.invalid = <<>>
    /\ NoResults.loaded = <<>> /\ NoResults.failed = <<>>
BY DEF Fresh, MetaFields, NoResults

LEMMA RecordInit == Init => RecordInv
<1> SUFFICES ASSUME Init PROVE RecordInv
  OBVIOUS
<1>1. 1 \in 1 .. Len(Chunks)
  BY ChunksAreLists
<1>2. config \in Configs
  BY ProjectConfigsAre DEF Init
<1>3. Shape
  BY <1>1, <1>2, FreshIs, EmptySequence DEF Init, Shape
<1>4. Staged
  BY DEF Init, Staged
<1>5. Traced
  BY FreshIs, EmptySequence DEF Init, Traced
<1> QED
  BY <1>3, <1>4, <1>5 DEF RecordInv

LEMMA StartStep ==
    ASSUME RecordInv, StartRun \/ Resume
    PROVE  RecordInv'
<1>1. CASE StartRun
  <2>1. Shape'
    BY <1>1, FreshIs, EmptySequence DEF StartRun, RecordInv, Shape
  <2>2. Staged'
    BY <1>1 DEF StartRun, Staged
  <2>3. Traced'
    <3>1. \A x : WellLoaded(x)' <=> WellLoaded(x)
      BY <1>1, RulesStay DEF StartRun
    <3> QED
      BY <1>1, <3>1, FreshIs, EmptySequence DEF StartRun, RecordInv, Traced
  <2> QED
    BY <2>1, <2>2, <2>3 DEF RecordInv
<1>2. CASE Resume
  <2>1. Shape'
    BY <1>2 DEF Resume, RecordInv, Shape
  <2> QED
    BY <1>2, <2>1, StagedStays, TracedStays DEF Resume, RecordInv
<1> QED
  BY <1>1, <1>2

LEMMA LoadRecordsOf ==
    ASSUME NEW all,
           Sequence(all.loaded), \A x \in ElementsOf(all.loaded) : Loadable(x),
           Sequence(all.failed), \A x \in ElementsOf(all.failed) : Nameable(x)
    PROVE  Sequence(build_mappings(all)) /\ \A x \in ElementsOf(build_mappings(all)) : WellLoaded(x)
<1> DEFINE good == [i \in 1 .. Len(all.loaded) |-> LoadRecord(all.loaded[i], "loaded")]
           bad == [i \in 1 .. Len(all.failed) |-> LoadRecord(all.failed[i], "failed")]
<1>1. good = [i \in 1 .. Len(all.loaded) |-> good[i]] /\ bad = [i \in 1 .. Len(all.failed) |-> bad[i]]
  OBVIOUS
<1>2. \A i \in 1 .. Len(all.loaded) : WellLoaded(good[i])
  BY DEF LoadRecord, WellLoaded, ElementsOf
<1>3. \A i \in 1 .. Len(all.failed) : WellLoaded(bad[i])
  BY DEF LoadRecord, WellLoaded, ElementsOf
<1>4. build_mappings(all) = good \o bad
  BY DEF build_mappings
<1> HIDE DEF good, bad
<1>5. Sequence(good) /\ Len(good) = Len(all.loaded) /\ Sequence(bad) /\ Len(bad) = Len(all.failed)
  BY <1>1, SequenceLength, FunctionIsSequence
<1>6. Sequence(good \o bad) /\ ElementsOf(good \o bad) = ElementsOf(good) \cup ElementsOf(bad)
  BY <1>5, Joined
<1>7. \A x \in ElementsOf(good) \cup ElementsOf(bad) : WellLoaded(x)
  BY <1>2, <1>3, <1>5 DEF ElementsOf
<1> QED
  BY <1>4, <1>6, <1>7

\* However a batch ends, its results are recorded as they are.
LEMMA FinishKeeps ==
    ASSUME Shape, Traced, NEW all, NEW success \in BOOLEAN, FinishBatch(all, success),
           UNCHANGED Environment, UNCHANGED next,
           DOMAIN meta' = MetaFields, Len(meta'.valid) + Len(meta'.invalid) <= Len(meta'.records),
           Sequence(all.loaded), \A x \in ElementsOf(all.loaded) : Loadable(x),
           Sequence(all.failed), \A x \in ElementsOf(all.failed) : Nameable(x)
    PROVE  RecordInv'
<1>1. /\ UNCHANGED <<config, editing, ruleset, cfg>>
      /\ status' \in {"completed", "failed"} /\ stage' = "ingest" /\ results' = all
      /\ loads' = loads \o build_mappings(all)
      /\ DOMAIN candidates' = DOMAIN candidates
  BY DEF FinishBatch, Environment
<1>2. Shape'
  BY <1>1 DEF Shape
<1>3. Staged'
  BY <1>1 DEF Staged
<1>4. Traced'
  <2>1. /\ Sequence(build_mappings(all))
        /\ \A x \in ElementsOf(build_mappings(all)) : WellLoaded(x)
    BY LoadRecordsOf
  <2>2. Sequence(loads') /\ ElementsOf(loads') = ElementsOf(loads) \cup ElementsOf(build_mappings(all))
    BY <1>1, <2>1, Joined DEF Traced
  <2>3. /\ \A x : WellLoaded(x)' <=> WellLoaded(x)
        /\ \A x : (Loadable(x)' <=> Loadable(x)) /\ (Nameable(x)' <=> Nameable(x))
    BY <1>1, RulesStay
  <2>4. \A x \in ElementsOf(loads)' : WellLoaded(x)
    <3>1. ElementsOf(loads)' = ElementsOf(loads')
      BY DEF ElementsOf
    <3> QED
      BY <2>1, <2>2, <3>1 DEF Traced
  <2>5. /\ Sequence(results.loaded)' /\ \A x \in ElementsOf(results.loaded)' : Loadable(x)
        /\ Sequence(results.failed)' /\ \A x \in ElementsOf(results.failed)' : Nameable(x)
    BY <1>1 DEF Sequence, ElementsOf
  <2>6. Sequence(loads)'
    BY <2>2 DEF Sequence
  <2> QED
    BY <2>3, <2>4, <2>5, <2>6 DEF Traced
<1> QED
  BY <1>2, <1>3, <1>4 DEF RecordInv

LEMMA FailStep ==
    ASSUME RecordInv, FailBatch, UNCHANGED Environment
    PROVE  RecordInv'
BY FinishKeeps DEF FailBatch, RecordInv, Shape, Traced

LEMMA IngestStep ==
    ASSUME RecordInv, run_ingest
    PROVE  RecordInv'
<1>1. UNCHANGED <<config, editing, ruleset, cfg, status, next, results, loads, candidates>>
      /\ stage' = "validate" /\ meta' = [Fresh EXCEPT !.records = Chunks[next]]
  BY DEF run_ingest, Environment
<1>2. /\ DOMAIN meta' = MetaFields /\ meta'.records = Chunks[next]
      /\ meta'.valid = <<>> /\ meta'.invalid = <<>>
  <2> HIDE DEF Fresh
  <2> QED
    BY <1>1, FreshIs DEF MetaFields
<1>3. next \in 1 .. Len(Chunks) /\ Len(Chunks[next]) \in Nat
  BY ChunksAreLists DEF RecordInv, Shape
<1>4. Shape'
  <2>1. Len(meta'.valid) + Len(meta'.invalid) <= Len(meta'.records)
    <3>1. Len(meta'.valid) = 0 /\ Len(meta'.invalid) = 0 /\ Len(meta'.records) \in Nat
      BY <1>2, <1>3, EmptySequence
    <3> QED
      BY <3>1
  <2> QED
    BY <1>1, <1>2, <2>1 DEF RecordInv, Shape
<1>5. Staged'
  BY <1>1, <1>2 DEF Staged
<1> QED
  BY <1>1, <1>4, <1>5, TracedStays DEF RecordInv

LEMMA ValidatedSizes ==
    ASSUME NEW c \in 1 .. Len(Chunks)
    PROVE  Len(Validated(Chunks[c]).valid) + Len(Validated(Chunks[c]).invalid) <= Len(Chunks[c])
<1>1. Sequence(Chunks[c]) /\ Len(Chunks[c]) \in Nat
  BY ChunksAreLists
<1> DEFINE all == 1 .. Len(Chunks[c])
<1>2. ASSUME NEW mask \in SUBSET all PROVE Cardinality(all \ mask) + Cardinality(mask) = Len(Chunks[c])
  BY <1>1, Complement
<1>3. CASE UnderRules
  <2> DEFINE rules == EnabledRules(ruleset.validation)
             refused == Refused(Chunks[c], rules)
  <2>1. refused \in SUBSET all /\ all \ refused \in SUBSET all
    BY DEF Refused
  <2>2. Validated(Chunks[c]) = [valid |-> Picked(Chunks[c], all \ refused),
                                invalid |-> Picked(Chunks[c], refused)]
    BY <1>3 DEF Validated, UnderRules, validation_apply
  <2> HIDE DEF refused, all
  <2>3. /\ Len(Picked(Chunks[c], all \ refused)) = Cardinality(all \ refused)
        /\ Len(Picked(Chunks[c], refused)) = Cardinality(refused)
    BY <1>1, <2>1, PickedIsOf DEF all
  <2> QED
    BY <1>1, <1>2, <2>1, <2>2, <2>3
<1>4. CASE ~UnderRules
  <2> DEFINE passing == Passing(Chunks[c])
  <2>1. passing \in SUBSET all /\ all \ passing \in SUBSET all
    BY DEF Passing
  <2>2. Validated(Chunks[c]) = [valid |-> source_validate(Chunks[c]),
                                invalid |-> Picked(Chunks[c], all \ passing)]
    BY <1>4 DEF Validated, UnderRules
  <2> HIDE DEF passing, all
  <2>3. /\ Len(source_validate(Chunks[c])) = Cardinality(passing)
        /\ Len(Picked(Chunks[c], all \ passing)) = Cardinality(all \ passing)
    BY <1>1, <2>1, PickedIsOf, SchemaCheck DEF all, passing
  <2>4. Cardinality(passing) \in Nat /\ Cardinality(all \ passing) \in Nat
    BY <1>1, <2>1, MaskSize DEF all
  <2> QED
    BY <1>1, <1>2, <2>1, <2>2, <2>3, <2>4
<1> QED
  BY <1>3, <1>4

LEMMA ValidateStep ==
    ASSUME RecordInv, run_validate
    PROVE  RecordInv'
<1> DEFINE checked == Validated(meta.records)
<1>1. stage = "validate" /\ meta.records = Chunks[next] /\ next \in 1 .. Len(Chunks)
  BY DEF run_validate, InStage, RecordInv, Shape, Staged
<1>2. CASE FailBatch
  BY <1>2, FailStep DEF run_validate
<1>3. CASE /\ meta' = [meta EXCEPT !.valid = checked.valid, !.invalid = checked.invalid]
           /\ stage' = "transform"
           /\ UNCHANGED <<status, next, results, loads, candidates>>
  <2>1. /\ UNCHANGED <<config, editing, ruleset, cfg, status, next, results, loads, candidates>>
        /\ stage' = "transform"
    BY <1>3 DEF run_validate, Environment
  <2>2. checked = Validated(Chunks[next])
    BY <1>1
  <2> HIDE DEF checked
  <2>3. /\ DOMAIN meta' = MetaFields /\ meta'.records = Chunks[next]
        /\ meta'.valid = checked.valid /\ meta'.invalid = checked.invalid
    BY <1>1, <1>3 DEF RecordInv, Shape, MetaFields
  <2>4. Len(meta'.valid) + Len(meta'.invalid) <= Len(meta'.records)
    BY <1>1, <2>2, <2>3, ValidatedSizes
  <2>5. Shape'
    BY <2>1, <2>3, <2>4 DEF RecordInv, Shape
  <2>6. Validated(Chunks[next])' = Validated(Chunks[next])
    BY <2>1 DEF Validated
  <2>7. Staged'
    BY <2>1, <2>2, <2>3, <2>6 DEF Staged
  <2> QED
    BY <2>1, <2>5, <2>7, TracedStays DEF RecordInv
<1> QED
  BY <1>2, <1>3 DEF run_validate

LEMMA TransformStep ==
    ASSUME RecordInv, run_transform
    PROVE  RecordInv'
<1>1. CASE FailBatch
  BY <1>1, FailStep DEF run_transform
<1>2. CASE /\ meta' = [meta EXCEPT !.transformed = Transformed(meta.valid)]
           /\ stage' = "load"
           /\ UNCHANGED <<status, next, results, loads, candidates>>
  <2>1. /\ UNCHANGED <<config, editing, ruleset, cfg, status, next, results, loads, candidates>>
        /\ stage' = "load" /\ stage = "transform"
    BY <1>2 DEF run_transform, InStage, Environment
  <2>2. /\ DOMAIN meta' = MetaFields /\ meta'.records = meta.records
        /\ meta'.valid = meta.valid /\ meta'.invalid = meta.invalid
        /\ meta'.transformed = Transformed(meta.valid)
    BY <1>2 DEF RecordInv, Shape, MetaFields
  <2>3. Shape'
    BY <2>1, <2>2 DEF RecordInv, Shape
  <2>4. Validated(Chunks[next])' = Validated(Chunks[next])
    BY <2>1 DEF Validated
  <2>5. Transformed(meta.valid)' = Transformed(meta.valid)
    BY <2>1, <2>2 DEF Transformed
  <2>6. Staged'
    BY <2>1, <2>2, <2>4, <2>5 DEF RecordInv, Staged
  <2> QED
    BY <2>1, <2>3, <2>6, TracedStays DEF RecordInv
<1> QED
  BY <1>1, <1>2 DEF run_transform

LEMMA LoadStep ==
    ASSUME RecordInv, run_load
    PROVE  RecordInv'
<1>1. stage = "load" /\ UNCHANGED Environment
  BY DEF run_load, InStage
<1>2. CASE FailBatch
  BY <1>1, <1>2, FailStep
<1>3. ASSUME NEW loaded, Sequence(loaded), \A x \in ElementsOf(loaded) : Loadable(x),
             NEW failed, Sequence(failed), \A x \in ElementsOf(failed) : Nameable(x),
             EndChunk(loaded, failed)
      PROVE  RecordInv'
  <2> DEFINE all == [loaded |-> results.loaded \o loaded, failed |-> results.failed \o failed]
  <2>1. /\ meta' = [meta EXCEPT !.loaded = loaded, !.failed = failed]
        /\ IF failed = <<>> /\ next < Len(Chunks)
           THEN /\ next' = next + 1 /\ stage' = "ingest" /\ results' = all
                /\ UNCHANGED <<status, loads, candidates>>
           ELSE FinishBatch(all, failed = <<>>) /\ UNCHANGED next
    BY <1>3 DEF EndChunk
  <2>0. all.loaded = results.loaded \o loaded /\ all.failed = results.failed \o failed
    OBVIOUS
  <2> HIDE DEF all
  <2>2. /\ Sequence(all.loaded) /\ ElementsOf(all.loaded) = ElementsOf(results.loaded) \cup ElementsOf(loaded)
        /\ Sequence(all.failed) /\ ElementsOf(all.failed) = ElementsOf(results.failed) \cup ElementsOf(failed)
    BY <1>3, <2>0, Joined DEF RecordInv, Traced
  <2>3. /\ \A x \in ElementsOf(all.loaded) : Loadable(x)
        /\ \A x \in ElementsOf(all.failed) : Nameable(x)
    BY <1>3, <2>2 DEF RecordInv, Traced
  <2>4. /\ DOMAIN meta' = MetaFields /\ meta'.records = meta.records
        /\ meta'.valid = meta.valid /\ meta'.invalid = meta.invalid
    BY <2>1 DEF RecordInv, Shape, MetaFields
  <2>5. Len(meta'.valid) + Len(meta'.invalid) <= Len(meta'.records)
    BY <2>4 DEF RecordInv, Shape
  <2>6. CASE failed = <<>> /\ next < Len(Chunks)
    <3>1. /\ UNCHANGED <<config, editing, ruleset, cfg, status, loads, candidates>>
          /\ next' = next + 1 /\ stage' = "ingest" /\ results' = all
      BY <1>1, <2>1, <2>6 DEF Environment
    <3>2. next' \in 1 .. Len(Chunks)
      BY <2>6, <3>1, ChunksAreLists DEF RecordInv, Shape
    <3>3. Shape'
      BY <2>4, <2>5, <3>1, <3>2 DEF RecordInv, Shape
    <3>4. Staged'
      BY <3>1 DEF Staged
    <3>5. /\ \A x : WellLoaded(x)' <=> WellLoaded(x)
          /\ \A x : (Loadable(x)' <=> Loadable(x)) /\ (Nameable(x)' <=> Nameable(x))
      BY <3>1, RulesStay
    <3>6. /\ Sequence(results.loaded)' /\ \A x \in ElementsOf(results.loaded)' : Loadable(x)
          /\ Sequence(results.failed)' /\ \A x \in ElementsOf(results.failed)' : Nameable(x)
      BY <2>2, <2>3, <3>1 DEF Sequence, ElementsOf
    <3>7. Sequence(loads)' /\ \A x \in ElementsOf(loads)' : WellLoaded(x)
      BY <3>1 DEF RecordInv, Traced, Sequence, ElementsOf
    <3>8. Traced'
      BY <3>5, <3>6, <3>7 DEF Traced
    <3> QED
      BY <3>3, <3>4, <3>8 DEF RecordInv
  <2>7. CASE ~(failed = <<>> /\ next < Len(Chunks))
    <3>1. FinishBatch(all, failed = <<>>) /\ UNCHANGED next /\ (failed = <<>>) \in BOOLEAN
      BY <2>1, <2>7
    <3> QED
      BY <1>1, <2>2, <2>3, <2>4, <2>5, <3>1, FinishKeeps DEF RecordInv
  <2> QED
    BY <2>6, <2>7
<1>4. CASE ~FailBatch
  <2>1. PICK prepared \in {Prepared(ToLoad(meta))} :
           \E split \in {partition_idempotent(prepared.valid)} : \E answer \in Responses(split.to_load) :
               EndChunk(answer.loaded \o split.skipped, prepared.invalid \o answer.failed)
    BY <1>4 DEF run_load
  <2>2. PICK split \in {partition_idempotent(prepared.valid)} : \E answer \in Responses(split.to_load) :
           EndChunk(answer.loaded \o split.skipped, prepared.invalid \o answer.failed)
    BY <2>1
  <2>3. PICK answer \in Responses(split.to_load) :
           EndChunk(answer.loaded \o split.skipped, prepared.invalid \o answer.failed)
    BY <2>2
  <2> QED
    BY <1>1, <1>3, <2>3, LoadResults
<1> QED
  BY <1>2, <1>4

LEMMA StutterStep ==
    ASSUME RecordInv, UNCHANGED vars
    PROVE  RecordInv'
<1>1. UNCHANGED <<config, editing, ruleset, status, cfg, next, stage, meta, results, loads, candidates>>
  BY DEF vars, flow
<1>2. Shape'
  BY <1>1 DEF RecordInv, Shape
<1> QED
  BY <1>1, <1>2, StagedStays, TracedStays DEF RecordInv

LEMMA RecordNext == RecordInv /\ [Next]_vars => RecordInv'
<1> SUFFICES ASSUME RecordInv, [Next]_vars PROVE RecordInv'
  OBVIOUS
<1>1. CASE UNCHANGED vars
  BY <1>1, StutterStep
<1>2. CASE \/ \E e \in Editors : LoadProject(e) \/ \E patch \in Patches : update_stw_rule(e, patch)
           \/ update_project \/ reset_stw_transform_rules
  BY <1>2, EditStep
<1>3. CASE StartRun \/ Resume
  BY <1>3, StartStep
<1>4. CASE run_ingest
  BY <1>4, IngestStep
<1>5. CASE run_validate
  BY <1>5, ValidateStep
<1>6. CASE run_transform
  BY <1>6, TransformStep
<1>7. CASE run_load
  BY <1>7, LoadStep
<1> QED
  BY <1>1, <1>2, <1>3, <1>4, <1>5, <1>6, <1>7 DEF Next

LEMMA RecordsTraced == Spec => []RecordInv
BY RecordInit, RecordNext, PTL DEF Spec

-----------------------------------------------------------------------------
(* What follows for every load record                                       *)

\* Whatever path a record took to the destination, it has the fields the
\* target system requires: each adapter validates what it is given, also
\* what comes round the transform stage (connectors/target_validation.py).
THEOREM NothingIncompleteLoaded == Spec => []LoadedMeetsTarget
<1>1. RecordInv => LoadedMeetsTarget
  <2> SUFFICES ASSUME RecordInv, Adapter \in {"kraken", "sap"}, NEW load \in LoadedPayloads
               PROVE  PassesTarget(TargetSystem, "account", load.payload)
    BY DEF LoadedMeetsTarget
  <2>1. PICK i \in 1 .. Len(loads) : load = loads[i] /\ load.status = "loaded"
    BY DEF LoadedPayloads
  <2>2. WellLoaded(load)
    BY <2>1 DEF RecordInv, Traced, ElementsOf
  <2> QED
    BY <2>1, <2>2 DEF WellLoaded, Loadable, MeetsTarget
<1> QED
  BY <1>1, RecordsTraced, PTL

LEMMA LoadedFollowed ==
    ASSUME RecordInv, KeepsIds, NEW id \in LoadedIds
    PROVE  \E c \in 1 .. Len(Chunks) : id \in MayLoad(c)
<1>1. PICK i \in 1 .. Len(loads) : id = loads[i].id /\ loads[i].status = "loaded"
  BY DEF LoadedIds
<1>2. WellLoaded(loads[i])
  BY DEF RecordInv, Traced, ElementsOf
<1> QED
  BY <1>1, <1>2 DEF WellLoaded, Loadable, Followed

LEMMA RecordedNameable ==
    ASSUME RecordInv, KeepsIds, NEW i \in 1 .. Len(loads)
    PROVE  loads[i].id \in AllIds \cup {"unknown"} /\ loads[i].status \in {"loaded", "failed"}
<1>1. WellLoaded(loads[i])
  BY DEF RecordInv, Traced, ElementsOf
<1>2. \A x : Loadable(x) => Nameable(x)
  BY ChunkIds DEF Loadable, Followed, Nameable
<1> QED
  BY <1>1, <1>2 DEF WellLoaded, Nameable

\* The run goes through its stages as execute_run does, and its load records
\* bear the ids of records of the batch.
THEOREM RecordTypes == ASSUME KeepsIds PROVE Spec => []RecordTypeOK
<1>1. RecordInv => RecordTypeOK
  <2> SUFFICES ASSUME RecordInv PROVE RecordTypeOK
    OBVIOUS
  <2>2. \A i \in 1 .. Len(loads) : loads[i].id \in AllIds \cup {"unknown"}
    BY RecordedNameable
  <2> QED
    BY <2>2 DEF RecordTypeOK, RecordInv, Shape
<1> QED
  BY <1>1, RecordsTraced, PTL

-----------------------------------------------------------------------------
(* Which records of a chunk are loaded                                      *)

LEMMA OneChunkOfId ==
    ASSUME IdsDiffer, NEW c \in 1 .. Len(Chunks), NEW d \in 1 .. Len(Chunks),
           NEW i \in 1 .. Len(Chunks[c]), NEW j \in 1 .. Len(Chunks[d]),
           Chunks[c][i].id = Chunks[d][j].id
    PROVE  c = d /\ i = j
<1>1. /\ <<c, i>> \in Places /\ At(<<c, i>>) = Chunks[c][i]
      /\ <<d, j>> \in Places /\ At(<<d, j>>) = Chunks[d][j]
  BY PlacesOfChunks
<1>2. <<c, i>> = <<d, j>>
  BY <1>1 DEF IdsDiffer
<1> QED
  BY <1>2

LEMMA LoadedOfItsChunk ==
    ASSUME RecordInv, KeepsIds, IdsDiffer, NEW c \in 1 .. Len(Chunks), ValidIn(c) # <<>>, UnderRules,
           NEW id \in LoadedIds \cap Ids(Chunks[c])
    PROVE  id \in Ids(ValidIn(c))
<1>1. PICK d \in 1 .. Len(Chunks) : id \in MayLoad(d)
  BY LoadedFollowed
<1>2. id \in Ids(Chunks[d]) /\ id \in Ids(Chunks[c])
  BY <1>1, ChunkIds
<1>3. d = c
  BY <1>2, OneChunkOfId DEF Ids
<1> QED
  BY <1>1, <1>3 DEF MayLoad

\* A record the rule set refuses is loaded only when it refuses the whole
\* chunk, and the load stage takes the empty result of the transform stage
\* for a missing one (rules/pipeline_hooks.py).
THEOREM RefusedStaysOut ==
    ASSUME KeepsIds, IdsDiffer PROVE Spec => []RefusedOnlyWithWholeChunk
<1>1. RecordInv => RefusedOnlyWithWholeChunk
  BY LoadedOfItsChunk DEF RefusedOnlyWithWholeChunk
<1> QED
  BY <1>1, RecordsTraced, PTL

\* Of two valid records of a chunk none shares the value of a unique rule.
LEMMA ValidUnique ==
    ASSUME NEW c \in 1 .. Len(Chunks), NEW n \in 1 .. Len(ruleset.validation),
           ruleset \in RuleSets, NEW rule, rule = ruleset.validation[n],
           rule.type = "unique", rule.enabled,
           NEW i \in 1 .. Len(Chunks[c]), NEW j \in 1 .. Len(Chunks[c]), i < j,
           Get(Chunks[c][i], rule.field) = Get(Chunks[c][j], rule.field),
           ~IsEmpty(Get(Chunks[c][j], rule.field))
    PROVE  j \in Refused(Chunks[c], EnabledRules(ruleset.validation))
<1> DEFINE rules == EnabledRules(ruleset.validation)
           enabled == {m \in 1 .. Len(ruleset.validation) : ruleset.validation[m].enabled}
<1>1. Sequence(ruleset.validation)
  BY RecordAssumption DEF Sequence
<1>2. enabled \in SUBSET (1 .. Len(ruleset.validation)) /\ n \in enabled
  OBVIOUS
<1>3. rules = Picked(ruleset.validation, enabled)
  BY DEF EnabledRules
<1> HIDE DEF rules, enabled
<1>4. ElementsOf(rules) = {ruleset.validation[m] : m \in enabled}
  BY <1>1, <1>2, <1>3, PickedIsOf
<1>5. PICK m \in 1 .. Len(rules) : rules[m] = rule
  BY <1>2, <1>4 DEF ElementsOf
<1>6. i \in 1 .. j /\ SameUnique(rules, m, m)
  BY <1>5 DEF SameUnique
<1>7. Met(Chunks[c], rules, j, m)
  BY <1>5, <1>6 DEF Met
<1>8. Violates(Chunks[c], rules, j, m)
  BY <1>5, <1>7 DEF Violates
<1> QED
  BY <1>5, <1>8 DEF Refused, rules

\* A unique rule holds within a chunk, whatever the mappings and the answers.
THEOREM UniqueInItsChunk ==
    ASSUME KeepsIds, IdsDiffer PROVE Spec => []UniqueWithinChunk
<1>1. RecordInv => UniqueWithinChunk
  <2> SUFFICES ASSUME RecordInv, NEW n \in 1 .. Len(ruleset.validation), NEW c \in 1 .. Len(Chunks),
                      NEW rule, rule = ruleset.validation[n],
                      rule.type = "unique", rule.enabled, ValidIn(c) # <<>>,
                      NEW r \in ToSet(Chunks[c]), NEW q \in ToSet(Chunks[c]),
                      Get(r, rule.field) = Get(q, rule.field), ~IsEmpty(Get(r, rule.field)),
                      r.id \in LoadedIds, q.id \in LoadedIds
               PROVE  r.id = q.id
    BY DEF UniqueWithinChunk
  <2>1. Sequence(Chunks[c]) /\ DOMAIN Chunks[c] = 1 .. Len(Chunks[c])
    BY ChunksAreLists, LenProperties DEF Sequence
  <2>2. PICK i \in 1 .. Len(Chunks[c]) : r = Chunks[c][i]
    BY <2>1 DEF ToSet
  <2>3. PICK j \in 1 .. Len(Chunks[c]) : q = Chunks[c][j]
    BY <2>1 DEF ToSet
  <2>4. UnderRules /\ ruleset \in RuleSets
    BY EmptySequence DEF UnderRules, RecordInv, Shape
  <2>5. ASSUME NEW k \in 1 .. Len(Chunks[c]), Chunks[c][k].id \in LoadedIds
        PROVE  k \notin Refused(Chunks[c], EnabledRules(ruleset.validation))
    <3>1. Chunks[c][k].id \in Ids(ValidIn(c))
      BY <2>4, <2>5, LoadedOfItsChunk DEF Ids
    <3>2. PICK x \in ElementsOf(ValidIn(c)) : x.id = Chunks[c][k].id
      BY <3>1, IdsAreOfElements
    <3>3. PICK l \in (1 .. Len(Chunks[c])) \ Refused(Chunks[c], EnabledRules(ruleset.validation)) :
             x = Chunks[c][l]
      BY ValidPlaces
    <3>4. l = k
      BY <3>2, <3>3, OneChunkOfId
    <3> QED
      BY <3>3, <3>4
  <2>6. ~(i < j) /\ ~(j < i)
    BY <2>2, <2>3, <2>4, <2>5, ValidUnique
  <2> QED
    BY <2>1, <2>2, <2>3, <2>6
<1> QED
  BY <1>1, RecordsTraced, PTL

-----------------------------------------------------------------------------
(* What the reconciliation report counts                                    *)

LEMMA Interval == \A n \in Nat : IsFiniteSet(1 .. n) /\ Cardinality(1 .. n) = n
<1> TAKE n \in Nat
<1>1. Cardinality(1 .. n) = IF 1 > n THEN 0 ELSE n - 1 + 1
  BY FS_Interval
<1>2. IsFiniteSet(1 .. n)
  BY FS_Interval
<1> QED
  BY <1>1, <1>2

LEMMA PlacesFinite == IsFiniteSet(Places)
<1> DEFINE rows == [c \in 1 .. Len(Chunks) |-> {c} \X (1 .. Len(Chunks[c]))]
           all == {{c} \X (1 .. Len(Chunks[c])) : c \in 1 .. Len(Chunks)}
<1>1. rows \in Surjection(1 .. Len(Chunks), all)
  BY DEF Surjection
<1>2. IsFiniteSet(1 .. Len(Chunks))
  BY ChunksAreLists, Interval
<1>3. IsFiniteSet(all)
  <2> HIDE DEF rows, all
  <2> QED
    BY <1>1, <1>2, FS_Surjection
<1>4. \A T \in all : IsFiniteSet(T)
  <2> SUFFICES ASSUME NEW c \in 1 .. Len(Chunks) PROVE IsFiniteSet({c} \X (1 .. Len(Chunks[c])))
    OBVIOUS
  <2>1. IsFiniteSet({c}) /\ IsFiniteSet(1 .. Len(Chunks[c]))
    BY ChunksAreLists, Interval, FS_Singleton
  <2> QED
    BY <2>1, FS_Product
<1> HIDE DEF all
<1>5. IsFiniteSet(UNION all)
  BY <1>3, <1>4, FS_UNION
<1> QED
  BY <1>5 DEF Places, all

LEMMA FewerIds ==
    /\ IsFiniteSet(AllIds) /\ Cardinality(AllIds) \in Nat
    /\ Cardinality(Places) \in Nat /\ Cardinality(AllIds) <= Cardinality(Places)
<1> DEFINE f == [p \in Places |-> At(p).id]
<1>1. f \in Surjection(Places, AllIds)
  BY DEF Surjection, AllIds
<1> HIDE DEF f
<1> QED
  BY <1>1, PlacesFinite, FS_Surjection, FS_CardinalityType

\* Every load record counts as loaded or as failed.
LEMMA LoadsCounted ==
    ASSUME RecordInv
    PROVE  CountLoads("loaded") + CountLoads("failed") = Len(loads)
<1> DEFINE all == 1 .. Len(loads)
           of(outcome) == {i \in all : loads[i].status = outcome}
<1>1. Len(loads) \in Nat
  BY SequenceLength DEF RecordInv, Traced
<1>2. \A i \in all : loads[i].status = "loaded" \/ loads[i].status = "failed"
  BY DEF RecordInv, Traced, ElementsOf, WellLoaded
<1>3. of("failed") \in SUBSET all /\ of("loaded") = all \ of("failed")
  BY <1>2
<1>4. /\ CountLoads("loaded") = Cardinality(of("loaded"))
      /\ CountLoads("failed") = Cardinality(of("failed"))
  BY DEF CountLoads
<1> HIDE DEF of
<1>5. Cardinality(all \ of("failed")) + Cardinality(of("failed")) = Len(loads)
  BY <1>1, <1>3, Complement
<1> QED
  BY <1>3, <1>4, <1>5

LEMMA LoadCounts == RecordInv => CountLoads("loaded") \in Nat /\ CountLoads("failed") \in Nat
<1> SUFFICES ASSUME RecordInv, NEW outcome
             PROVE  Cardinality({i \in 1 .. Len(loads) : loads[i].status = outcome}) \in Nat
  BY DEF CountLoads
<1>1. Len(loads) \in Nat
  BY SequenceLength DEF RecordInv, Traced
<1> QED
  BY <1>1, MaskSize

LEMMA BalancedCount ==
    ASSUME RecordInv, Balanced
    PROVE  Len(loads) = Cardinality(Places)
<1> DEFINE s == Cardinality(DOMAIN candidates)
           l == CountLoads("loaded")
           f == CountLoads("failed")
<1>1. reconciliation_status(s, l, f) = "balanced"
  BY DEF Balanced, run_report
<1>2. s = Cardinality(Places)
  BY DEF RecordInv, Shape
<1>3. l \in Nat /\ f \in Nat /\ l + f = Len(loads)
  BY LoadCounts, LoadsCounted
<1>4. s \in Nat
  BY <1>2, FewerIds
<1> HIDE DEF s, l, f
<1>5. s - l - f = 0
  BY <1>1 DEF reconciliation_status
<1> QED
  BY <1>2, <1>3, <1>4, <1>5

\* A balanced report leaves no more accounts out than it counts answers in
\* error, unless an account was recorded twice (reconciliation/service.py).
THEOREM BalancedCountsAll == ASSUME KeepsIds PROVE Spec => []BalancedAccountsForAll
<1>1. RecordInv => BalancedAccountsForAll
  <2> SUFFICES ASSUME RecordInv, Balanced, ~RecordedTwice
               PROVE  LET recorded == {loads[i].id : i \in 1 .. Len(loads)}
                      IN Cardinality(AllIds \ recorded) <= Cardinality(recorded \cap {"unknown"})
    BY DEF BalancedAccountsForAll
  <2> DEFINE n == Len(loads)
             recorded == {loads[i].id : i \in 1 .. n}
             f == [i \in 1 .. n |-> loads[i].id]
  <2>1. n \in Nat /\ n = Cardinality(Places)
    BY SequenceLength, BalancedCount DEF RecordInv, Traced
  <2>2. f \in Surjection(1 .. n, recorded)
    BY DEF Surjection
  <2>3. f \in Injection(1 .. n, recorded)
    BY DEF Injection, IsInjective, RecordedTwice
  <2>4. recorded \subseteq AllIds \cup {"unknown"}
    BY RecordedNameable
  <2> HIDE DEF n, f, recorded
  <2>5. IsFiniteSet(recorded) /\ Cardinality(recorded) = n
    <3>1. IsFiniteSet(1 .. n) /\ Cardinality(1 .. n) = n
      BY <2>1, Interval
    <3> QED
      BY <2>2, <2>3, <3>1, FS_Surjection
  <2>6. /\ Cardinality(AllIds \ recorded) = Cardinality(AllIds) - Cardinality(AllIds \cap recorded)
        /\ Cardinality(recorded \ AllIds) = Cardinality(recorded) - Cardinality(recorded \cap AllIds)
    BY <2>5, FewerIds, FS_Difference
  <2>7. AllIds \cap recorded = recorded \cap AllIds /\ Cardinality(recorded \cap AllIds) \in Nat
    BY <2>5, FS_Intersection, FS_CardinalityType
  <2>8. /\ Cardinality(recorded \ AllIds) <= Cardinality(recorded \cap {"unknown"})
        /\ Cardinality(recorded \cap {"unknown"}) \in Nat
    <3>1. recorded \ AllIds \in SUBSET (recorded \cap {"unknown"})
      BY <2>4
    <3>2. IsFiniteSet(recorded \cap {"unknown"})
      BY <2>5, FS_Intersection
    <3> QED
      BY <3>1, <3>2, FS_Subset, FS_CardinalityType
  <2> DEFINE a == Cardinality(AllIds)
             b == Cardinality(recorded \cap AllIds)
             m == Cardinality(Places)
             u == Cardinality(recorded \cap {"unknown"})
             left == Cardinality(AllIds \ recorded)
             extra == Cardinality(recorded \ AllIds)
  <2>9. /\ a \in Nat /\ b \in Nat /\ m \in Nat /\ u \in Nat /\ a <= m
        /\ left = a - b /\ extra = m - b /\ extra <= u
    BY <2>1, <2>5, <2>6, <2>7, <2>8, FewerIds
  <2> HIDE DEF a, b, m, u, left, extra
  <2>10. left <= u
    BY <2>9
  <2> QED
    BY <2>10 DEF left, u, recorded, n
<1> QED
  BY <1>1, RecordsTraced, PTL

-----------------------------------------------------------------------------
(* The tariff row of a record                                               *)

LEMMA Least ==
    ASSUME NEW T \in SUBSET Nat, T # {}
    PROVE  \E x \in T : \A y \in T : x <= y
<1>1. PICK R : IsWellFoundedOn(R, Nat) /\ \A x, y \in Nat : <<x, y>> \in R <=> x < y
  <2>1. IsWellFoundedOn(OpToRel(<, Nat), Nat)
    BY NatLessThanWellFounded
  <2>2. \A x, y \in Nat : <<x, y>> \in OpToRel(<, Nat) <=> x < y
    BY DEF OpToRel
  <2> QED
    BY <2>1, <2>2, Zenon
<1>2. PICK x \in T : \A y \in T : ~ (<<y, x>> \in R)
  <2> HIDE <1>1
  <2>1. IsWellFoundedOn(R, Nat) /\ T \subseteq Nat
    BY <1>1
  <2> QED
    BY <2>1, WFMin, Zenon
<1>3. ASSUME NEW y \in T PROVE x <= y
  <2>1. x \in Nat /\ y \in Nat /\ ~ (y < x)
    BY <1>1, <1>2
  <2> QED
    BY <2>1
<1> QED
  BY <1>3

LEMMA RowsFound ==
    ASSUME NEW list, Sequence(list), NEW key
    PROVE  LET rows == lookup_rows(list, key)
           IN /\ Sequence(rows)
              /\ \A x : x \in ElementsOf(rows) <=> x \in ElementsOf(list) /\ Agrees(x, key)
              /\ rows # <<>> <=> \E x \in ElementsOf(list) : Agrees(x, key)
              /\ rows # <<>> => rows[1] \in ElementsOf(rows)
<1> DEFINE mask == {i \in 1 .. Len(list) : Agrees(list[i], key)}
           rows == lookup_rows(list, key)
<1>1. rows = Picked(list, mask) /\ mask \in SUBSET (1 .. Len(list))
  BY DEF lookup_rows
<1>2. /\ (\E i \in mask : TRUE) <=> \E x \in ElementsOf(list) : Agrees(x, key)
      /\ \A x : (\E i \in mask : x = list[i]) <=> x \in ElementsOf(list) /\ Agrees(x, key)
  BY DEF ElementsOf
<1> HIDE DEF rows, mask
<1>3. Sequence(rows) /\ ElementsOf(rows) = {list[i] : i \in mask}
  BY <1>1, PickedIsOf
<1>4. rows # <<>> => Len(rows) \in Nat /\ Len(rows) # 0
  BY <1>3, NoEntries, SequenceLength
<1>5. rows # <<>> => rows[1] \in ElementsOf(rows)
  BY <1>4 DEF ElementsOf
<1>6. rows # <<>> <=> \E i \in mask : TRUE
  BY <1>3, <1>5, EmptySequence
<1> QED
  BY <1>2, <1>3, <1>5, <1>6 DEF rows, mask

\* The row of a rate band agrees with the record on the keys of the first
\* profile that matches it and finds any, and on the narrowing keys too when
\* there is such a row (transforms/stw/rateband.py).
THEOREM TariffRowAgrees ==
    ASSUME NEW record, NEW rules, NEW tariffs,
           NEW table, table = TableOf(rules, tariffs), Sequence(table),
           Len(rules.lookup_profiles) \in Nat,
           NEW row, row = transform_rateband(record, rules, tariffs), row # [none |-> None]
    PROVE  \E n \in 1 .. Len(rules.lookup_profiles) :
              LET profile == rules.lookup_profiles[n]
                  Own(x, p) == Agrees(x, row_key(record, p.keys))
                  Close(x) == Agrees(x, row_key(record, profile.fallback_keys))
              IN /\ match_profile(record, profile) /\ row \in ElementsOf(table) /\ Own(row, profile)
                 /\ \A m \in 1 .. n - 1 : match_profile(record, rules.lookup_profiles[m]) =>
                        \A x \in ElementsOf(table) : ~Own(x, rules.lookup_profiles[m])
                 /\ profile.fallback_keys # {}
                        /\ (\E x \in ElementsOf(table) : Own(x, profile) /\ Close(x))
                      => Close(row)
<1> DEFINE profiles == rules.lookup_profiles
           Rows(p) == lookup_rows(table, row_key(record, p.keys))
           finding == {n \in 1 .. Len(profiles) : match_profile(record, profiles[n])
                                                  /\ Rows(profiles[n]) # <<>>}
           n == CHOOSE n \in finding : \A m \in finding : n <= m
           profile == profiles[n]
           matches == Rows(profile)
           narrowed == lookup_rows(matches, row_key(record, profile.fallback_keys))
<1>1. finding # {} /\ row = FirstRow(matches, record, profile)
  BY DEF transform_rateband
<1>2. n \in finding /\ \A m \in finding : n <= m
  <2>1. finding \in SUBSET Nat
    OBVIOUS
  <2> HIDE DEF finding
  <2> QED
    BY <1>1, <2>1, Least
<1>3. /\ n \in 1 .. Len(profiles) /\ match_profile(record, profile) /\ matches # <<>>
      /\ \A m \in 1 .. n - 1 : match_profile(record, profiles[m]) => Rows(profiles[m]) = <<>>
  <2>1. n \in 1 .. Len(profiles) /\ match_profile(record, profile) /\ matches # <<>>
    BY <1>2
  <2> HIDE DEF n
  <2>2. ASSUME NEW m \in 1 .. n - 1, match_profile(record, profiles[m]), Rows(profiles[m]) # <<>>
        PROVE  FALSE
    BY <1>2, <2>1, <2>2
  <2> QED
    BY <2>1, <2>2
<1>4. row = IF Len(matches) > 1 /\ profile.fallback_keys # {} /\ narrowed # <<>>
            THEN narrowed[1] ELSE matches[1]
  BY <1>1 DEF FirstRow
<1> HIDE DEF n
<1> DEFINE key(p) == row_key(record, p.keys)
           close == row_key(record, profile.fallback_keys)
<1>5. /\ Sequence(matches) /\ matches[1] \in ElementsOf(matches)
      /\ \A x : x \in ElementsOf(matches) <=> x \in ElementsOf(table) /\ Agrees(x, key(profile))
  BY <1>3, RowsFound
<1>6. \A m \in 1 .. n - 1 : match_profile(record, profiles[m]) =>
          \A x \in ElementsOf(table) : ~Agrees(x, key(profiles[m]))
  BY <1>3, RowsFound
<1> HIDE DEF matches, profiles, key, close
<1>7. /\ narrowed # <<>> <=> \E x \in ElementsOf(matches) : Agrees(x, close)
      /\ narrowed # <<>> => narrowed[1] \in ElementsOf(matches) /\ Agrees(narrowed[1], close)
  <2>1. narrowed = lookup_rows(matches, close)
    BY DEF close
  <2> QED
    BY <1>5, <2>1, RowsFound
<1>8. row \in ElementsOf(matches)
  BY <1>4, <1>5, <1>7
<1>9. profile.fallback_keys # {} /\ narrowed # <<>> => Agrees(row, close)
  <2>1. CASE Len(matches) > 1
    BY <1>4, <1>7, <2>1
  <2>2. CASE ~(Len(matches) > 1)
    <3>1. Len(matches) \in Nat
      BY <1>5, SequenceLength
    <3>2. \A x \in ElementsOf(matches) : x = matches[1]
      BY <2>2, <3>1 DEF ElementsOf
    <3> QED
      BY <1>7, <1>8, <3>2
  <2> QED
    BY <2>1, <2>2
<1> QED
  BY <1>3, <1>5, <1>6, <1>7, <1>8, <1>9 DEF key, close, profiles

-----------------------------------------------------------------------------
(* The mappings are applied one after the other                             *)

LEMMA Induct ==
    ASSUME NEW T, 0 \in T, \A n \in Nat : n \in T => n + 1 \in T
    PROVE  Nat \subseteq T
<1> SUFFICES ASSUME NEW b \in Nat, b \notin T PROVE FALSE
  OBVIOUS
<1> DEFINE Outside == {n \in Nat : n \notin T}
<1>1. PICK m \in Outside : \A y \in Outside : m <= y
  BY Least
<1>2. m - 1 \in Nat /\ m - 1 \notin Outside
  BY <1>1
<1> QED
  BY <1>1, <1>2

\* What a record has become after k mappings: the loop has one state after each.
Loops(after, record, mappings, rules, table, n) ==
    /\ DOMAIN after = 0 .. n
    /\ after[0] = [out |-> <<>>, working |-> record]
    /\ \A k \in 1 .. n : after[k] = map_field(after[k - 1], mappings[k], rules, table)

LEMMA LoopExists ==
    ASSUME NEW record, NEW mappings, NEW rules, NEW table, NEW n \in Nat
    PROVE  \E after : Loops(after, record, mappings, rules, table, n)
<1> DEFINE Base == [out |-> <<>>, working |-> record]
           Step(state, k) == map_field(state, mappings[k], rules, table)
           Good == {m \in Nat : \E after : /\ DOMAIN after = 0 .. m /\ after[0] = Base
                                           /\ \A k \in 1 .. m : after[k] = Step(after[k - 1], k)}
<1> HIDE DEF Base, Step
<1>1. 0 \in Good
  <2> DEFINE after == [k \in 0 .. 0 |-> Base]
  <2>1. DOMAIN after = 0 .. 0 /\ after[0] = Base
    OBVIOUS
  <2> HIDE DEF after
  <2> QED
    BY <2>1
<1>2. ASSUME NEW m \in Nat, m \in Good PROVE m + 1 \in Good
  <2>1. PICK before : /\ DOMAIN before = 0 .. m /\ before[0] = Base
                      /\ \A k \in 1 .. m : before[k] = Step(before[k - 1], k)
    BY <1>2
  <2> DEFINE after == [k \in 0 .. m + 1 |-> IF k = m + 1 THEN Step(before[m], m + 1) ELSE before[k]]
  <2>2. DOMAIN after = 0 .. m + 1 /\ after[0] = Base
    BY <2>1
  <2>3. ASSUME NEW k \in 1 .. m + 1 PROVE after[k] = Step(after[k - 1], k)
    <3>1. CASE k = m + 1
      <4>1. after[k] = Step(before[m], m + 1) /\ after[k - 1] = before[m]
        BY <3>1
      <4> QED
        BY <3>1, <4>1
    <3>2. CASE k # m + 1
      <4>1. k \in 1 .. m /\ after[k] = before[k] /\ after[k - 1] = before[k - 1]
        BY <3>2
      <4> QED
        BY <2>1, <4>1
    <3> QED
      BY <3>1, <3>2
  <2> HIDE DEF after
  <2> QED
    BY <2>2, <2>3
<1>3. n \in Good
  <2> HIDE DEF Good
  <2> QED
    BY <1>1, <1>2, Induct
<1> QED
  BY <1>3 DEF Loops, Base, Step

LEMMA LoopIsIt ==
    ASSUME NEW record, NEW mappings, Len(mappings) \in Nat, NEW rules, NEW table
    PROVE  \E after : /\ Loops(after, record, mappings, rules, table, Len(mappings))
                      /\ transform_one(record, mappings, rules, table) = after[Len(mappings)].out
<1> DEFINE n == Len(mappings)
           F(g) == [k \in 0 .. n |-> IF k = 0 THEN [out |-> <<>>, working |-> record]
                                     ELSE map_field(g[k - 1], mappings[k], rules, table)]
           after == CHOOSE g : g = F(g)
<1>1. PICK g : Loops(g, record, mappings, rules, table, n)
  BY LoopExists
<1>2. after = F(after)
  <2>1. [k \in 0 .. n |-> g[k]] = F([k \in 0 .. n |-> g[k]])
    BY <1>1 DEF Loops
  <2> HIDE DEF F
  <2> QED
    BY <2>1
<1>3. transform_one(record, mappings, rules, table) = after[n].out
  BY DEF transform_one
<1> HIDE DEF after
<1>4. Loops(after, record, mappings, rules, table, n)
  BY <1>2 DEF Loops
<1> QED
  BY <1>3, <1>4

\* Enabled mappings take turns: one after the other, those of lower order first.
LEMMA Turns ==
    ASSUME NEW mappings, NEW n \in Nat, NEW enabled \in SUBSET (1 .. n),
           \A i \in enabled : mappings[i].sort_order \in Int
    PROVE  LET turn(i) == Turn(mappings, enabled, i)
           IN /\ Cardinality(enabled) \in Nat
              /\ \A i \in enabled : turn(i) \in 1 .. Cardinality(enabled)
              /\ \A i, j \in enabled : turn(i) = turn(j) => i = j
              /\ \A k \in 1 .. Cardinality(enabled) : \E i \in enabled : turn(i) = k
              /\ \A i, j \in enabled : turn(i) < turn(j) => NotAfter(mappings, i, j)
<1> DEFINE turn(i) == Turn(mappings, enabled, i)
           UpTo(i) == {j \in enabled : NotAfter(mappings, j, i)}
<1>1. IsFiniteSet(enabled) /\ Cardinality(enabled) \in Nat
  BY MaskSize
<1>2. \A i \in enabled : /\ IsFiniteSet(UpTo(i)) /\ Cardinality(UpTo(i)) \in Nat
                         /\ turn(i) = Cardinality(UpTo(i))
  BY <1>1, FS_Subset, FS_CardinalityType DEF Turn
<1>3. /\ \A i \in enabled : NotAfter(mappings, i, i)
      /\ \A i, j \in enabled : NotAfter(mappings, i, j) \/ NotAfter(mappings, j, i)
      /\ \A i, j \in enabled : NotAfter(mappings, i, j) /\ NotAfter(mappings, j, i) => i = j
      /\ \A i, j, k \in enabled : NotAfter(mappings, i, j) /\ NotAfter(mappings, j, k) =>
             NotAfter(mappings, i, k)
  <2> DEFINE order(i) == mappings[i].sort_order
  <2>1. \A i \in enabled : order(i) \in Int /\ i \in Int
    OBVIOUS
  <2>2. \A i, j \in enabled : NotAfter(mappings, i, j) <=>
            order(i) < order(j) \/ (order(i) = order(j) /\ i <= j)
    BY DEF NotAfter
  <2> HIDE DEF order
  <2> QED
    BY <2>1, <2>2
<1>4. ASSUME NEW i \in enabled PROVE turn(i) \in 1 .. Cardinality(enabled)
  <2>1. Cardinality(UpTo(i)) <= Cardinality(enabled)
    BY <1>1, FS_Subset
  <2>2. Cardinality(UpTo(i)) # 0
    <3>1. i \in UpTo(i)
      BY <1>3
    <3> QED
      BY <1>2, <3>1, FS_EmptySet
  <2> QED
    BY <1>1, <1>2, <2>1, <2>2
<1>5. ASSUME NEW i \in enabled, NEW j \in enabled, NotAfter(mappings, i, j), i # j
      PROVE  turn(i) < turn(j)
  <2>1. UpTo(i) \in SUBSET UpTo(j)
    BY <1>3, <1>5
  <2>2. j \in UpTo(j) /\ j \notin UpTo(i)
    BY <1>3, <1>5
  <2>3. Cardinality(UpTo(i)) <= Cardinality(UpTo(j))
    BY <1>2, <2>1, FS_Subset
  <2>4. Cardinality(UpTo(i)) # Cardinality(UpTo(j))
    BY <1>2, <2>1, <2>2, FS_Subset
  <2> QED
    BY <1>2, <2>3, <2>4
<1>6. \A i, j \in enabled : turn(i) = turn(j) => i = j
  <2>1. \A i \in enabled : turn(i) \in Nat
    BY <1>2
  <2> HIDE DEF turn
  <2> QED
    BY <1>3, <1>5, <2>1
<1>7. \A i, j \in enabled : turn(i) < turn(j) => NotAfter(mappings, i, j)
  <2>1. \A i \in enabled : turn(i) \in Nat
    BY <1>2
  <2> HIDE DEF turn
  <2> QED
    BY <1>3, <1>5, <2>1
<1>8. \A k \in 1 .. Cardinality(enabled) : \E i \in enabled : turn(i) = k
  <2> DEFINE places == 1 .. Cardinality(enabled)
             f == [i \in enabled |-> turn(i)]
  <2>1. f \in Injection(enabled, places)
    BY <1>4, <1>6 DEF Injection, IsInjective
  <2>2. IsFiniteSet(places) /\ Cardinality(places) = Cardinality(enabled)
    BY <1>1, Interval
  <2>3. f \in Surjection(enabled, places)
    BY <1>1, <2>1, <2>2, FS_Injection
  <2> QED
    BY <2>3 DEF Surjection
<1> QED
  BY <1>1, <1>4, <1>6, <1>7, <1>8

LEMMA InOrder ==
    ASSUME NEW mappings, Sequence(mappings),
           \A i \in 1 .. Len(mappings) : mappings[i].sort_order \in Int
    PROVE  LET ms == EnabledMappings(mappings)
               enabled == {i \in 1 .. Len(mappings) : mappings[i].enabled}
           IN /\ Sequence(ms) /\ Len(ms) \in Nat
              /\ \E at \in [1 .. Len(ms) -> enabled] :
                    /\ \A k \in 1 .. Len(ms) : ms[k] = mappings[at[k]]
                    /\ \A i \in enabled : \E k \in 1 .. Len(ms) : at[k] = i
                    /\ \A k, l \in 1 .. Len(ms) :
                          k < l => at[k] # at[l] /\ NotAfter(mappings, at[k], at[l])
<1> DEFINE ms == EnabledMappings(mappings)
           enabled == {i \in 1 .. Len(mappings) : mappings[i].enabled}
           size == Cardinality(enabled)
           at == [k \in 1 .. size |-> CHOOSE i \in enabled : Turn(mappings, enabled, i) = k]
<1>1. Len(mappings) \in Nat /\ enabled \in SUBSET (1 .. Len(mappings))
  BY SequenceLength
<1>2. /\ size \in Nat
      /\ \A i \in enabled : Turn(mappings, enabled, i) \in 1 .. size
      /\ \A i, j \in enabled : Turn(mappings, enabled, i) = Turn(mappings, enabled, j) => i = j
      /\ \A k \in 1 .. size : \E i \in enabled : Turn(mappings, enabled, i) = k
      /\ \A i, j \in enabled : Turn(mappings, enabled, i) < Turn(mappings, enabled, j) =>
             NotAfter(mappings, i, j)
  <2> HIDE DEF enabled
  <2>1. \A i \in enabled : mappings[i].sort_order \in Int
    BY DEF enabled
  <2> QED
    BY <1>1, <2>1, Turns
<1>3. ms = [k \in 1 .. size |-> mappings[at[k]]]
  BY DEF EnabledMappings
<1> HIDE DEF enabled, size
<1>4. \A k \in 1 .. size : at[k] \in enabled /\ Turn(mappings, enabled, at[k]) = k
  BY <1>2
<1>5. at = [k \in 1 .. size |-> at[k]]
  OBVIOUS
<1> HIDE DEF at, ms
<1>6. Sequence(ms) /\ Len(ms) = size
  <2>1. ms = [k \in 1 .. size |-> ms[k]]
    BY <1>3
  <2> QED
    BY <1>2, <2>1, FunctionIsSequence
<1>7. at \in [1 .. size -> enabled] /\ \A k \in 1 .. size : ms[k] = mappings[at[k]]
  BY <1>3, <1>4, <1>5
<1>8. \A i \in enabled : \E k \in 1 .. size : at[k] = i
  BY <1>2, <1>4
<1>9. \A k, l \in 1 .. size : k < l => at[k] # at[l] /\ NotAfter(mappings, at[k], at[l])
  BY <1>2, <1>4
<1> QED
  BY <1>2, <1>6, <1>7, <1>8, <1>9 DEF ms, enabled

\* The mappings of a rule set in the order they are applied: all that are enabled, each once.
LEMMA SetInOrder ==
    ASSUME NEW set \in RuleSets
    PROVE  LET ms == EnabledMappings(set.mappings)
           IN /\ Len(ms) \in Nat
              /\ \A k \in 1 .. Len(ms) : ms[k] \in EnabledOf(set) /\ ms[k].sort_order \in Int
              /\ \A mapping \in EnabledOf(set) : \E k \in 1 .. Len(ms) : ms[k] = mapping
              /\ \A k, l \in 1 .. Len(ms) : k < l => ms[k].sort_order <= ms[l].sort_order
              /\ \E at \in [1 .. Len(ms) -> 1 .. Len(set.mappings)] :
                    /\ \A k, l \in 1 .. Len(ms) :
                        /\ ms[k] = set.mappings[at[k]] /\ set.mappings[at[k]].enabled
                        /\ at[k] = at[l] => k = l
                        /\ k < l => NotAfter(set.mappings, at[k], at[l])
                    /\ \A i \in 1 .. Len(set.mappings) : set.mappings[i].enabled =>
                          \E k \in 1 .. Len(ms) : at[k] = i
<1> DEFINE all == set.mappings
           ms == EnabledMappings(all)
           enabled == {i \in 1 .. Len(all) : all[i].enabled}
<1>1. all \in Seq(ToSet(all)) /\ \A mapping \in ToSet(all) : mapping.sort_order \in Int
  BY RecordAssumption
<1>2. /\ Sequence(all) /\ Len(all) \in Nat /\ ToSet(all) = {all[i] : i \in 1 .. Len(all)}
  <2>1. Sequence(all)
    BY <1>1 DEF Sequence
  <2>2. Len(all) \in Nat /\ DOMAIN all = 1 .. Len(all)
    BY <1>1, LenProperties
  <2> QED
    BY <2>1, <2>2 DEF ToSet
<1>3. EnabledOf(set) = {all[i] : i \in enabled}
  BY <1>2 DEF EnabledOf
<1>4. \A i \in 1 .. Len(all) : all[i].sort_order \in Int
  BY <1>1, <1>2
<1> HIDE DEF all
<1>5. PICK at \in [1 .. Len(ms) -> enabled] :
          /\ \A k \in 1 .. Len(ms) : ms[k] = all[at[k]]
          /\ \A i \in enabled : \E k \in 1 .. Len(ms) : at[k] = i
          /\ \A k, l \in 1 .. Len(ms) : k < l => at[k] # at[l] /\ NotAfter(all, at[k], at[l])
  BY <1>2, <1>4, InOrder
<1>6. Len(ms) \in Nat
  BY <1>2, <1>4, InOrder
<1> HIDE DEF ms
<1>7. \A k \in 1 .. Len(ms) : ms[k] \in EnabledOf(set) /\ ms[k].sort_order \in Int
  BY <1>3, <1>4, <1>5
<1>8. \A mapping \in EnabledOf(set) : \E k \in 1 .. Len(ms) : ms[k] = mapping
  BY <1>3, <1>5
<1>9. ASSUME NEW k \in 1 .. Len(ms), NEW l \in 1 .. Len(ms), k < l
      PROVE  ms[k].sort_order <= ms[l].sort_order
  <2>1. NotAfter(all, at[k], at[l])
    BY <1>5, <1>9
  <2>2. ms[k] = all[at[k]] /\ ms[l] = all[at[l]]
    BY <1>5
  <2>3. ms[k].sort_order \in Int /\ ms[l].sort_order \in Int
    BY <1>7
  <2> QED
    BY <2>1, <2>2, <2>3 DEF NotAfter
<1>10. /\ at \in [1 .. Len(ms) -> 1 .. Len(all)]
       /\ \A k, l \in 1 .. Len(ms) :
              /\ ms[k] = all[at[k]] /\ all[at[k]].enabled
              /\ at[k] = at[l] => k = l
              /\ k < l => NotAfter(all, at[k], at[l])
       /\ \A i \in 1 .. Len(all) : all[i].enabled => \E k \in 1 .. Len(ms) : at[k] = i
  <2>1. \A k, l \in 1 .. Len(ms) : k < l \/ l < k \/ k = l
    BY <1>6
  <2> QED
    BY <1>5, <2>1
<1> QED
  BY <1>6, <1>7, <1>8, <1>9, <1>10 DEF ms, all

\* One mapping: what it writes, and what it leaves as it was.
LEMMA WithGet ==
    \A r, f, v, g : Get(With(r, f, v), g) = IF g = f THEN v ELSE Get(r, g)
BY DEF Get, With

LEMMA FieldStep ==
    ASSUME NEW state, NEW mapping, NEW rules, NEW table
    PROVE  LET after == map_field(state, mapping, rules, table)
               value == apply_mapping(state.working, mapping, rules, table)
               laid == AfterMapping(state.working, mapping, rules, table)
           IN /\ \A f : Get(after.out, f) = IF f = mapping.target THEN value ELSE Get(state.out, f)
              /\ \A f : Get(after.working, f) = IF f = mapping.target /\ value # None THEN value
                                                ELSE Get(laid, f)
              /\ \A f : f \notin Siblings \/ mapping.type # "stw_area_code" =>
                            Get(laid, f) = Get(state.working, f)
<1> DEFINE value == apply_mapping(state.working, mapping, rules, table)
           laid == AfterMapping(state.working, mapping, rules, table)
           after == map_field(state, mapping, rules, table)
<1>1. /\ after.out = With(state.out, mapping.target, value)
      /\ after.working = IF value = None THEN laid ELSE With(laid, mapping.target, value)
  BY DEF map_field, Assign
<1>2. \A f : f \notin Siblings \/ mapping.type # "stw_area_code" =>
                 Get(laid, f) = Get(state.working, f)
  <2>1. CASE mapping.type # "stw_area_code"
    BY <2>1 DEF AfterMapping
  <2>2. CASE mapping.type = "stw_area_code"
    <3>1. \A record, area, category, zone :
             LET filled == Propagated(record, area, category, zone)
             IN \/ filled = record
                \/ \E f \in Siblings : filled = With(record, f, zone)
      BY DEF Propagated, Siblings
    <3>2. \A f : f \notin Siblings =>
             \A record, area, category, zone :
                 Get(Propagated(record, area, category, zone), f) = Get(record, f)
      BY <3>1, WithGet
    <3>3. \/ laid = state.working
          \/ \E area, category, zone : laid = Propagated(state.working, area, category, zone)
      BY <2>2 DEF AfterMapping, transform_area_code
    <3> QED
      BY <2>2, <3>2, <3>3
  <2> QED
    BY <2>1, <2>2
<1> HIDE DEF value, laid, after
<1>3. \A f : Get(after.out, f) = IF f = mapping.target THEN value ELSE Get(state.out, f)
  BY <1>1, WithGet
<1>4. \A f : Get(after.working, f) = IF f = mapping.target /\ value # None THEN value ELSE Get(laid, f)
  BY <1>1, WithGet
<1> QED
  BY <1>2, <1>3, <1>4 DEF value, laid, after

-----------------------------------------------------------------------------
(* The id is passed on                                                      *)

LEMMA IdPassesOn ==
    ASSUME IdsMapped, NEW set \in RuleSets, NEW record, ~IsEmpty(Get(record, "id")),
           NEW rules, NEW table
    PROVE  LET ms == EnabledMappings(set.mappings)
               made == transform_one(record, ms, rules, table)
           IN /\ ms # <<>> /\ Get(made, "accountId") = Get(record, "id")
              /\ Adapter = "sap" => Get(made, "KUNNR") = None
<1> DEFINE ms == EnabledMappings(set.mappings)
           n == Len(ms)
           id == Get(record, "id")
<1>1. n \in Nat /\ \A k \in 1 .. n : ms[k] \in EnabledOf(set)
  BY SetInOrder
<1>2. PICK j \in 1 .. n : ms[j].target = "accountId"
  BY SetInOrder DEF IdsMapped
<1>3. \A k \in 1 .. n : /\ ms[k].target # "id" /\ (Adapter = "sap" => ms[k].target # "KUNNR")
                        /\ ms[k].target = "accountId" => ms[k].type = "copy" /\ ms[k].source = "id"
  BY <1>1 DEF IdsMapped
<1> HIDE DEF ms
<1>4. PICK after : /\ Loops(after, record, ms, rules, table, n)
                   /\ transform_one(record, ms, rules, table) = after[n].out
  BY <1>1, LoopIsIt
<1> HIDE DEF n, id
<1> DEFINE Passed(k) == /\ Get(after[k].working, "id") = id
                        /\ j <= k => Get(after[k].out, "accountId") = id
                        /\ Adapter = "sap" => Get(after[k].out, "KUNNR") = None
           Good == {k \in Nat : k <= n => Passed(k)}
<1>5. Passed(0)
  <2>1. after[0].working = record /\ after[0].out = <<>>
    BY <1>4 DEF Loops
  <2>2. Get(<<>>, "KUNNR") = None
    BY DEF Get
  <2> QED
    BY <1>1, <2>1, <2>2 DEF id
<1>6. ASSUME NEW k \in 1 .. n, Passed(k - 1) PROVE Passed(k)
  <2> DEFINE value == apply_mapping(after[k - 1].working, ms[k], rules, table)
             laid == AfterMapping(after[k - 1].working, ms[k], rules, table)
  <2>1. after[k] = map_field(after[k - 1], ms[k], rules, table)
    BY <1>4 DEF Loops
  <2>2. /\ \A f : Get(after[k].out, f) = IF f = ms[k].target THEN value ELSE Get(after[k - 1].out, f)
        /\ \A f : Get(after[k].working, f) = IF f = ms[k].target /\ value # None THEN value
                                             ELSE Get(laid, f)
        /\ \A f : f \notin Siblings => Get(laid, f) = Get(after[k - 1].working, f)
    BY <2>1, FieldStep
  <2>3. ms[k].target = "accountId" => value = id
    <3> SUFFICES ASSUME ms[k].type = "copy", ms[k].source = "id" PROVE value = id
      BY <1>3
    <3>1. "id" # None /\ Get(after[k - 1].working, "id") = id
      BY <1>6 DEF None
    <3> QED
      BY <3>1 DEF apply_mapping
  <2> HIDE DEF value, laid
  <2>4. Get(after[k].working, "id") = id
    BY <1>3, <1>6, <2>2 DEF Siblings
  <2>5. j <= k => Get(after[k].out, "accountId") = id
    <3>1. j = k => ms[k].target = "accountId"
      BY <1>2
    <3>2. j <= k => j = k \/ j <= k - 1
      BY <1>1
    <3> QED
      BY <1>6, <2>2, <2>3, <3>1, <3>2
  <2>6. Adapter = "sap" => Get(after[k].out, "KUNNR") = None
    BY <1>3, <1>6, <2>2
  <2> QED
    BY <2>4, <2>5, <2>6
<1>7. 0 \in Good
  BY <1>5
<1>8. ASSUME NEW k \in Nat, k \in Good PROVE k + 1 \in Good
  <2> SUFFICES ASSUME k + 1 <= n PROVE Passed(k + 1)
    OBVIOUS
  <2>1. k + 1 \in 1 .. n /\ (k + 1) - 1 = k /\ Passed(k)
    BY <1>1, <1>8
  <2> HIDE DEF Passed
  <2> QED
    BY <1>6, <2>1
<1>9. Passed(n)
  <2> HIDE DEF Passed
  <2>1. n \in Good
    <3> HIDE DEF Good
    <3> QED
      BY <1>1, <1>7, <1>8, Induct
  <2> QED
    BY <1>1, <2>1
<1>10. ms # <<>>
  BY <1>2, EmptySequence DEF n
<1> QED
  BY <1>1, <1>2, <1>4, <1>9, <1>10 DEF id, ms

\* A record reaches the mappings with the fields it was staged with, but for empty ones.
Alike(a, b, f) == Get(a, f) = Get(b, f) \/ (IsEmpty(Get(a, f)) /\ IsEmpty(Get(b, f)))
LEMMA FormsAlike ==
    ASSUME NEW raw, NEW form \in Forms(raw)
    PROVE  \A f : f \in FieldsOf(Entity) \/ DOMAIN raw \subseteq FieldsOf(Entity) => Alike(form, raw, f)
<1>1. CASE form = raw
  BY <1>1 DEF Alike
<1>2. CASE form = validate_one(Entity, raw).coerced
  <2>1. form = [f \in FieldsOf(Entity) |-> IF IsEmpty(Get(raw, f)) THEN None ELSE raw[f]]
    BY <1>2 DEF validate_one
  <2>2. \A f \in FieldsOf(Entity) : Get(form, f) = IF IsEmpty(Get(raw, f)) THEN None ELSE Get(raw, f)
    BY <2>1 DEF Get, IsEmpty
  <2>3. \A f : f \notin FieldsOf(Entity) => Get(form, f) = None
    BY <2>1 DEF Get
  <2>4. \A f : f \notin DOMAIN raw => Get(raw, f) = None
    BY DEF Get
  <2> QED
    BY <2>2, <2>3, <2>4 DEF Alike, IsEmpty
<1> QED
  BY <1>1, <1>2 DEF Forms

LEMMA IdFirst ==
    /\ \A record : Get(record, "accountId") # None => external_id(record) = Get(record, "accountId")
    /\ \A record : DOMAIN record = {"KUNNR", "NAME1", "STATUS"} /\ record.KUNNR # None =>
           external_id(record) = record.KUNNR
<1> DEFINE keys == <<"accountId", "id", "KUNNR", "krakenAccountId", "sapCustomerNumber", "external_id">>
           hits(record) == {i \in 1 .. Len(keys) : Get(record, keys[i]) # None}
           first(record) == CHOOSE i \in hits(record) : \A j \in hits(record) : i <= j
<1>1. Len(keys) = 6 /\ keys[1] = "accountId" /\ keys[2] = "id" /\ keys[3] = "KUNNR"
  OBVIOUS
<1>2. \A record : external_id(record) =
          LET key == IF hits(record) = {} THEN None ELSE keys[first(record)]
          IN IF key = None THEN "unknown" ELSE record[key]
  BY DEF external_id, FirstIn
<1> HIDE DEF keys
<1>3. ASSUME NEW record, Get(record, "accountId") # None
      PROVE  external_id(record) = Get(record, "accountId")
  <2>1. 1 \in hits(record) /\ \A j \in hits(record) : 1 <= j /\ j \in Nat
    BY <1>1, <1>3
  <2>2. first(record) = 1
    <3> HIDE DEF hits
    <3> QED
      BY <2>1
  <2>3. external_id(record) = record["accountId"]
    <3> HIDE DEF hits, first
    <3> QED
      BY <1>1, <1>2, <2>1, <2>2 DEF None
  <2> QED
    BY <1>3, <2>3 DEF Get
<1>4. ASSUME NEW record, DOMAIN record = {"KUNNR", "NAME1", "STATUS"}, record.KUNNR # None
      PROVE  external_id(record) = record.KUNNR
  <2>1. /\ Get(record, "accountId") = None /\ Get(record, "id") = None
        /\ Get(record, "KUNNR") = record.KUNNR
    BY <1>4 DEF Get
  <2>2. 3 \in hits(record) /\ \A j \in hits(record) : 3 <= j /\ j \in Nat
    <3>1. 1 \notin hits(record) /\ 2 \notin hits(record) /\ 3 \in hits(record)
      BY <1>1, <1>4, <2>1
    <3>2. \A j \in hits(record) : j \in Nat /\ 1 <= j
      OBVIOUS
    <3> HIDE DEF hits
    <3>3. \A j \in hits(record) : j # 1 /\ j # 2
      BY <3>1
    <3> QED
      BY <3>1, <3>2, <3>3
  <2>3. first(record) = 3
    <3> HIDE DEF hits
    <3> QED
      BY <2>2
  <2> HIDE DEF hits, first
  <2> QED
    BY <1>1, <1>2, <2>2, <2>3 DEF None
<1> QED
  BY <1>3, <1>4

\* What is sent of one record: what the mappings make of it, if there are any, for the adapter.
LEMMA SentIs ==
    ASSUME NEW form, NEW set, NEW loaded
    PROVE  LET ms == EnabledMappings(set.mappings)
               made == IF ms = <<>> THEN form
                       ELSE transform_one(form, ms, get_stw_rules(loaded.overrides), loaded)
           IN Sent(form, set, loaded) = IF Adapter = "sap" THEN to_sap_record(made) ELSE made
<1> DEFINE ms == EnabledMappings(set.mappings)
           rules == get_stw_rules(loaded.overrides)
           made == IF ms = <<>> THEN form ELSE transform_one(form, ms, rules, loaded)
           list == transform_apply(<<form>>, set.mappings, rules, loaded)
<1>1. Len(<<form>>) = 1 /\ <<form>>[1] = form
  BY Single
<1>2. Len(list) = 1 /\ list[1] = made
  <2>1. CASE ms = <<>>
    BY <1>1, <2>1 DEF transform_apply
  <2>2. CASE ms # <<>>
    <3>1. list = [i \in 1 .. 1 |-> transform_one(<<form>>[i], ms, rules, loaded)]
      BY <1>1, <2>2 DEF transform_apply
    <3>2. list = [i \in 1 .. 1 |-> list[i]] /\ list[1] = made
      BY <1>1, <2>2, <3>1
    <3> HIDE DEF list
    <3> QED
      BY <3>2, FunctionIsSequence
  <2> QED
    BY <2>1, <2>2
<1>3. Sent(form, set, loaded) = Shaped(list)[1]
  BY DEF Sent
<1> HIDE DEF list, made
<1>4. Sent(form, set, loaded) = IF Adapter = "sap" THEN to_sap_record(made) ELSE made
  BY <1>2, <1>3 DEF Shaped
<1> QED
  BY <1>4 DEF made

\* Where the mappings copy the id to the field the load records are kept under, every
\* account can be followed by its id, under any overrides: what the theorems above on
\* refused, repeated and missing accounts assume (rules/engine.py, services/load_records.py).
THEOREM MappedIdsAreKept == ASSUME IdsMapped PROVE KeepsIds
<1> SUFFICES ASSUME NEW p \in Places, NEW set \in RuleSets, NEW loaded \in Configs,
                    NEW form \in Forms(At(p))
             PROVE  external_id(Sent(form, set, loaded)) = At(p).id
  BY DEF KeepsIds
<1> DEFINE ms == EnabledMappings(set.mappings)
           rules == get_stw_rules(loaded.overrides)
           made == transform_one(form, ms, rules, loaded)
<1>1. Get(form, "id") = Get(At(p), "id") /\ ~IsEmpty(Get(form, "id")) /\ Get(At(p), "id") = At(p).id
  <2>1. Alike(form, At(p), "id") /\ ~IsEmpty(Get(At(p), "id"))
    BY FormsAlike DEF IdsMapped
  <2> QED
    BY <2>1 DEF Alike, IsEmpty, Get
<1>2. /\ ms # <<>> /\ Get(made, "accountId") = Get(form, "id")
      /\ Adapter = "sap" => Get(made, "KUNNR") = None
  BY <1>1, IdPassesOn
<1>3. Sent(form, set, loaded) = IF Adapter = "sap" THEN to_sap_record(made) ELSE made
  BY <1>2, SentIs
<1> HIDE DEF made
<1>4. CASE Adapter # "sap"
  <2>1. Get(made, "accountId") # None
    BY <1>1, <1>2 DEF IsEmpty
  <2> QED
    BY <1>1, <1>2, <1>3, <1>4, <2>1, IdFirst
<1>5. CASE Adapter = "sap"
  <2> DEFINE sap == to_sap_record(made)
             names == <<"KUNNR", "accountId", "id">>
             full == {i \in 1 .. Len(names) : ~IsEmpty(Get(made, names[i]))}
  <2>1. Len(names) = 3 /\ names[1] = "KUNNR" /\ names[2] = "accountId"
    OBVIOUS
  <2>2. DOMAIN sap = {"KUNNR", "NAME1", "STATUS"} /\ sap.KUNNR = FirstOf(made, names)
    BY DEF to_sap_record
  <2>3. FirstOf(made, names) = IF full = {} THEN None
                               ELSE made[names[CHOOSE i \in full : \A j \in full : i <= j]]
    BY DEF FirstOf
  <2> HIDE DEF names, sap
  <2>4. 2 \in full /\ \A j \in full : 2 <= j /\ j \in Nat
    <3>1. 1 \notin full /\ 2 \in full
      <4>1. IsEmpty(Get(made, names[1])) /\ ~IsEmpty(Get(made, names[2]))
        BY <1>1, <1>2, <1>5, <2>1 DEF IsEmpty
      <4> QED
        BY <2>1, <4>1
    <3>2. \A j \in full : j \in Nat /\ 1 <= j
      BY <2>1
    <3> HIDE DEF full
    <3>3. \A j \in full : j # 1
      BY <3>1
    <3> QED
      BY <3>1, <3>2, <3>3
  <2>5. FirstOf(made, names) = made["accountId"]
    <3> HIDE DEF full
    <3>1. (CHOOSE i \in full : \A j \in full : i <= j) = 2
      BY <2>4
    <3> QED
      BY <2>1, <2>3, <2>4, <3>1
  <2>6. made["accountId"] = Get(made, "accountId")
    BY <1>1, <1>2 DEF Get, IsEmpty
  <2>7. sap.KUNNR = Get(form, "id") /\ sap.KUNNR # None
    BY <1>1, <1>2, <2>2, <2>5, <2>6 DEF IsEmpty
  <2> QED
    BY <1>1, <1>3, <1>5, <2>2, <2>7, IdFirst DEF sap
<1> QED
  BY <1>4, <1>5

-----------------------------------------------------------------------------
(* The rate band of an account                                              *)

\* The first of some fields that has a value is the same for records that are alike in them.
LEMMA FirstOfAlike ==
    ASSUME NEW a, NEW b, NEW names, Len(names) \in Nat,
           \A i \in 1 .. Len(names) : Alike(a, b, names[i])
    PROVE  FirstOf(a, names) = FirstOf(b, names)
<1> DEFINE full(r) == {i \in 1 .. Len(names) : ~IsEmpty(Get(r, names[i]))}
           first(r) == CHOOSE i \in full(r) : \A j \in full(r) : i <= j
<1>1. \A r : FirstOf(r, names) = IF full(r) = {} THEN None ELSE r[names[first(r)]]
  BY DEF FirstOf
<1>2. full(a) = full(b)
  BY DEF Alike
<1>3. ASSUME full(a) # {} PROVE a[names[first(a)]] = b[names[first(b)]]
  <2>1. first(a) \in full(a)
    <3>1. full(a) \in SUBSET Nat
      OBVIOUS
    <3> HIDE DEF full
    <3> QED
      BY <1>3, <3>1, Least
  <2>2. first(b) = first(a)
    <3> HIDE DEF full
    <3> QED
      BY <1>2
  <2>3. \A i \in full(a) : a[names[i]] = b[names[i]]
    BY DEF Alike, Get, IsEmpty
  <2> HIDE DEF first, full
  <2> QED
    BY <2>1, <2>2, <2>3
<1> HIDE DEF full, first
<1> QED
  BY <1>1, <1>2, <1>3

LEMMA ProfilesKeyed ==
    /\ Len(RatebandProfiles) = 11
    /\ \A n \in 1 .. 11 :
          /\ Key3 \subseteq RatebandProfiles[n].keys
          /\ RatebandProfiles[n].keys \subseteq Key3 \cup {"area_code", "kraken_product_code"}
<1>1. Len(RatebandProfiles) = 11
  BY DEF RatebandProfiles
<1>2. ASSUME NEW n \in 1 .. 11
      PROVE  \E extra \in SUBSET {"area_code", "kraken_product_code"} :
                RatebandProfiles[n].keys = Key3 \cup extra
  <2>1. /\ RatebandProfiles[1].keys = Key3 /\ RatebandProfiles[2].keys = Key3
        /\ RatebandProfiles[3].keys = Key3 /\ RatebandProfiles[4].keys = Key3
        /\ RatebandProfiles[5].keys = Key3 /\ RatebandProfiles[6].keys = Key3 \cup {"area_code"}
        /\ RatebandProfiles[7].keys = Key3 /\ RatebandProfiles[8].keys = Key3 \cup {"area_code"}
        /\ RatebandProfiles[9].keys = Key3
        /\ RatebandProfiles[10].keys = Key3 \cup {"kraken_product_code"}
        /\ RatebandProfiles[11].keys = Key3 \cup {"area_code", "kraken_product_code"}
    BY DEF RatebandProfiles, Profile
  <2>2. n = 1 \/ n = 2 \/ n = 3 \/ n = 4 \/ n = 5 \/ n = 6 \/ n = 7 \/ n = 8 \/ n = 9 \/ n = 10 \/ n = 11
    OBVIOUS
  <2>3. Key3 = Key3 \cup {}
    OBVIOUS
  <2> QED
    BY <2>1, <2>2, <2>3
<1> QED
  BY <1>1, <1>2

\* What a profile looks at, and the key of a row, are the same for such records.
LEMMA SameProfiles ==
    ASSUME NEW a, NEW b, \A f \in BandFields : Alike(a, b, f)
    PROVE  /\ row_key(a, Key3) = row_key(b, Key3)
           /\ \A profile : match_profile(a, profile) <=> match_profile(b, profile)
<1>1. row_key(a, Key3) = row_key(b, Key3)
  <2>1. \A k \in Key3 : SourceField(k) \in BandFields
    BY DEF Key3, SourceField, BandFields
  <2>2. ASSUME NEW k \in Key3
        PROVE  \/ KeyValue(a, k) = KeyValue(b, k)
               \/ IsEmpty(KeyValue(a, k)) /\ IsEmpty(KeyValue(b, k))
    <3>1. Alike(a, b, SourceField(k))
      BY <2>1
    <3> QED
      BY <3>1 DEF KeyValue, Alike
  <2> QED
    BY <2>2 DEF row_key
<1>2. FirstOf(a, <<"target_product_code">>) = FirstOf(b, <<"target_product_code">>)
  <2> DEFINE names == <<"target_product_code">>
  <2>1. Len(names) = 1 /\ \A i \in 1 .. 1 : names[i] \in BandFields
    BY DEF BandFields
  <2> HIDE DEF names
  <2>2. FirstOf(a, names) = FirstOf(b, names)
    BY <2>1, FirstOfAlike
  <2> QED
    BY <2>2 DEF names
<1>3. Category(a, <<>>) = Category(b, <<>>)
  <2> DEFINE names == <<"account_category", "category">>
  <2>1. Len(names) = 2 /\ \A i \in 1 .. 2 : names[i] \in BandFields
    BY DEF BandFields
  <2> HIDE DEF names
  <2>2. FirstOf(a, names) = FirstOf(b, names)
    BY <2>1, FirstOfAlike
  <2> QED
    BY <2>2 DEF names, Category
<1>4. RatebandMetered(a) = RatebandMetered(b)
  <2> DEFINE yes == {"true", "1", "yes", "y", "metered"}
             tag(r) == FirstOf(r, <<>>) # None /\ Get(r, "should_be_ignored") \notin {"true", "1", "yes"}
  <2>1. \A r : ~tag(r)
    BY DEF FirstOf
  <2>2. \A r : RatebandMetered(r) = IF Get(r, "metered") # None THEN Get(r, "metered") \in yes ELSE tag(r)
    BY DEF RatebandMetered, is_metered
  <2>3. "" \notin yes
    OBVIOUS
  <2>4. Get(a, "metered") = Get(b, "metered")
        \/ (Get(a, "metered") \in {None, ""} /\ Get(b, "metered") \in {None, ""})
    BY DEF Alike, IsEmpty, BandFields
  <2> HIDE DEF yes, tag
  <2>5. \A r : RatebandMetered(r) = TRUE \/ RatebandMetered(r) = FALSE
    BY DEF RatebandMetered, is_metered
  <2>6. \A r : RatebandMetered(r) <=> (Get(r, "metered") # None /\ Get(r, "metered") \in yes)
    BY <2>1, <2>2
  <2>7. RatebandMetered(a) <=> RatebandMetered(b)
    BY <2>3, <2>4, <2>6
  <2> QED
    BY <2>5, <2>7
<1> QED
  BY <1>1, <1>2, <1>3, <1>4 DEF match_profile

\* A row of the table that a rate band may be taken from for an account of this property type.
Fits(row, raw, type, band, table) ==
    LET own == {x \in ElementsOf(table) : Agrees(x, row_key(raw, Key3))}
    IN /\ row \in own /\ Band(row) = band
       /\ LooksForType(raw) /\ ~IsEmpty(type) /\ Get(row, "property_type") # type =>
             ~\E other \in own : SameZone(other, row) /\ Get(other, "property_type") = type

LEMMA BandOfRow ==
    ASSUME NEW raw, NEW working, \A f \in BandFields : Alike(working, raw, f),
           NEW rules, rules.lookup_profiles = RatebandProfiles, NEW tariffs,
           NEW table, table = TableOf(rules, tariffs), Sequence(table),
           NEW band, band # None,
           band = Or(FirstOf(transform_rateband(working, rules, tariffs),
                             <<"kraken_rate_band", "rate_band">>), None)
    PROVE  \E row : Fits(row, raw, Get(working, "property_type"), band, table)
<1> DEFINE row == transform_rateband(working, rules, tariffs)
           type == Get(working, "property_type")
           own == {x \in ElementsOf(table) : Agrees(x, row_key(raw, Key3))}
           names == <<"kraken_rate_band", "rate_band">>
<1>1. band = Band(row)
  BY DEF Or, Band
<1>2. row # [none |-> None]
  <2> SUFFICES ASSUME row = [none |-> None] PROVE FALSE
    OBVIOUS
  <2> HIDE DEF row, names
  <2>2. \A f : Get(row, f) = None
    BY DEF Get
  <2>3. FirstOf(row, names) = None
    BY <2>2 DEF FirstOf, IsEmpty
  <2> QED
    BY <1>1, <2>3 DEF Band, names
<1> HIDE DEF row
<1>3. PICK n \in 1 .. Len(RatebandProfiles) :
         LET profile == RatebandProfiles[n]
             Own(x, p) == Agrees(x, row_key(working, p.keys))
             Close(x) == Agrees(x, row_key(working, profile.fallback_keys))
         IN /\ match_profile(working, profile) /\ row \in ElementsOf(table) /\ Own(row, profile)
            /\ profile.fallback_keys # {}
                   /\ (\E x \in ElementsOf(table) : Own(x, profile) /\ Close(x))
                 => Close(row)
  <2>1. Len(rules.lookup_profiles) \in Nat
    BY ProfilesKeyed
  <2>2. row = transform_rateband(working, rules, tariffs)
    BY DEF row
  <2> QED
    BY <1>2, <2>1, <2>2, TariffRowAgrees
<1> DEFINE profile == RatebandProfiles[n]
<1>4. /\ Key3 \subseteq profile.keys
      /\ profile.keys \subseteq Key3 \cup {"area_code", "kraken_product_code"}
  BY ProfilesKeyed
<1>5. row_key(working, Key3) = row_key(raw, Key3) /\ match_profile(raw, profile)
  BY <1>3, SameProfiles
<1> HIDE DEF profile
<1>6. \A x, keys : Agrees(x, row_key(working, keys)) <=>
          \A k \in keys : ~IsEmpty(KeyValue(working, k)) => Get(x, k) = KeyValue(working, k)
  BY DEF Agrees, row_key
<1>7. row \in own
  <2>1. Agrees(row, row_key(working, Key3))
    BY <1>3, <1>4, <1>6 DEF profile
  <2> QED
    BY <1>3, <1>5, <2>1
<1>8. ASSUME LooksForType(raw), ~IsEmpty(type), Get(row, "property_type") # type,
             NEW other \in own, SameZone(other, row), Get(other, "property_type") = type
      PROVE  FALSE
  <2>1. profile.fallback_keys = {"property_type"}
    BY <1>5, <1>8 DEF LooksForType, profile
  <2>2. KeyValue(working, "property_type") = type
    BY DEF KeyValue, SourceField
  <2>3. \A x : Agrees(x, row_key(working, {"property_type"})) <=> Get(x, "property_type") = type
    BY <1>6, <1>8, <2>2
  <2>4. Agrees(other, row_key(working, profile.keys))
    <3>1. \A k \in Key3 : ~IsEmpty(KeyValue(working, k)) => Get(other, k) = KeyValue(working, k)
      BY <1>5, <1>6
    <3>2. \A k \in profile.keys : ~IsEmpty(KeyValue(working, k)) => Get(row, k) = KeyValue(working, k)
      BY <1>3, <1>6 DEF profile
    <3>3. \A k \in {"area_code", "kraken_product_code"} : Get(other, k) = Get(row, k)
      BY <1>8 DEF SameZone
    <3> QED
      BY <1>4, <1>6, <3>1, <3>2, <3>3
  <2>5. Agrees(row, row_key(working, {"property_type"}))
    BY <1>3, <1>8, <2>1, <2>3, <2>4 DEF profile
  <2> QED
    BY <1>8, <2>3, <2>5
<1> QED
  BY <1>1, <1>7, <1>8 DEF Fits

\* The band of what the mappings make of a record is that of a row for its property type.
LEMMA BandPassesOn ==
    ASSUME BandsMapped, NEW set \in RuleSets, NEW raw,
           NEW record, \A f \in BandFields : Alike(record, raw, f),
           NEW rules, rules.rateband.lookup_profiles = RatebandProfiles, NEW context,
           NEW table, table = TableOf(rules.rateband, context.tariffs), Sequence(table)
    PROVE  LET made == transform_one(record, EnabledMappings(set.mappings), rules, context)
           IN Get(made, "rate_band") # None =>
                  \E row : Fits(row, raw, Get(made, "property_type"), Get(made, "rate_band"), table)
<1> DEFINE ms == EnabledMappings(set.mappings)
           n == Len(ms)
<1>1. n \in Nat /\ \A k \in 1 .. n : ms[k] \in EnabledOf(set) /\ ms[k].sort_order \in Int
  BY SetInOrder
<1>2. \A j, k \in 1 .. n : j < k => ms[j].sort_order <= ms[k].sort_order
  BY SetInOrder
<1>3. \A k \in 1 .. n :
         /\ ms[k].target \notin BandFields
         /\ ms[k].target = "rate_band" =>
               /\ ms[k].type = "stw_rateband_lookup"
               /\ ms[k].source = "kraken_rate_band" /\ ms[k].value = None
               /\ \A j \in 1 .. n : ms[j].target = "property_type" => ms[j].sort_order < ms[k].sort_order
  BY <1>1 DEF BandsMapped
<1> HIDE DEF ms
<1>4. PICK after : /\ Loops(after, record, ms, rules, context, n)
                   /\ transform_one(record, ms, rules, context) = after[n].out
  BY <1>1, LoopIsIt
<1> HIDE DEF n
<1> DEFINE Typed(k) == Get(after[k].out, "property_type")
           Banded(k) == Get(after[k].out, "rate_band")
           Passed(k) ==
               /\ \A f \in BandFields : Alike(after[k].working, raw, f)
               /\ Typed(k) # None => Get(after[k].working, "property_type") = Typed(k)
               /\ Banded(k) # None => /\ \E row : Fits(row, raw, Typed(k), Banded(k), table)
                                      /\ \E j \in 1 .. k : ms[j].target = "rate_band"
           Good == {k \in Nat : k <= n => Passed(k)}
<1>5. Passed(0)
  <2>1. after[0].working = record /\ after[0].out = <<>>
    BY <1>4 DEF Loops
  <2>2. \A f : Get(<<>>, f) = None
    BY DEF Get
  <2> QED
    BY <2>1, <2>2
<1>6. ASSUME NEW k \in 1 .. n, Passed(k - 1) PROVE Passed(k)
  <2> DEFINE before == after[k - 1].working
             value == apply_mapping(before, ms[k], rules, context)
             laid == AfterMapping(before, ms[k], rules, context)
  <2>1. after[k] = map_field(after[k - 1], ms[k], rules, context)
    BY <1>4 DEF Loops
  <2>2. /\ \A f : Get(after[k].out, f) = IF f = ms[k].target THEN value ELSE Get(after[k - 1].out, f)
        /\ \A f : Get(after[k].working, f) = IF f = ms[k].target /\ value # None THEN value
                                             ELSE Get(laid, f)
        /\ \A f : f \notin Siblings => Get(laid, f) = Get(before, f)
    BY <2>1, FieldStep
  <2>3. ASSUME ms[k].target = "rate_band", value # None
        PROVE  \E row : Fits(row, raw, Get(before, "property_type"), value, table)
    <3>1. /\ ms[k].type = "stw_rateband_lookup" /\ ms[k].source = "kraken_rate_band"
          /\ ms[k].value = None
      BY <1>3, <2>3
    <3>2. value = Or(FirstOf(transform_rateband(before, rules.rateband, context.tariffs),
                             <<"kraken_rate_band", "rate_band">>), None)
      BY <3>1 DEF apply_mapping
    <3> HIDE DEF value, before
    <3>4. \A f \in BandFields : Alike(before, raw, f)
      BY <1>6 DEF before
    <3> QED
      BY <2>3, <3>2, <3>4, BandOfRow
  <2> HIDE DEF value, laid
  <2>4. ASSUME NEW f \in BandFields PROVE Alike(after[k].working, raw, f)
    <3>1. f # ms[k].target /\ f \notin Siblings
      BY <1>3 DEF BandFields, Siblings
    <3>2. Get(after[k].working, f) = Get(before, f)
      BY <2>2, <3>1
    <3> QED
      BY <1>6, <3>2 DEF Alike
  <2>5. Typed(k) # None => Get(after[k].working, "property_type") = Typed(k)
    BY <1>6, <2>2 DEF Siblings
  <2>6. ASSUME Banded(k) # None
        PROVE  /\ \E row : Fits(row, raw, Typed(k), Banded(k), table)
               /\ \E j \in 1 .. k : ms[j].target = "rate_band"
    <3>1. CASE ms[k].target = "rate_band"
      <4>1. Banded(k) = value /\ Typed(k) = Typed(k - 1)
        BY <2>2, <3>1
      <4>2. PICK row : Fits(row, raw, Get(before, "property_type"), value, table)
        BY <2>3, <2>6, <3>1, <4>1
      <4>3. Typed(k) = None \/ Typed(k) = Get(before, "property_type")
        BY <1>6, <4>1
      <4>4. Fits(row, raw, Typed(k), value, table)
        BY <4>2, <4>3 DEF Fits, IsEmpty
      <4> QED
        BY <1>1, <3>1, <4>1, <4>4
    <3>2. CASE ms[k].target # "rate_band"
      <4>1. Banded(k) = Banded(k - 1)
        BY <2>2, <3>2
      <4>2. PICK j \in 1 .. k - 1 : ms[j].target = "rate_band"
        BY <1>6, <2>6, <4>1
      <4>3. j \in 1 .. k /\ j \in 1 .. n /\ j < k
        BY <1>1
      <4>4. ms[k].target # "property_type"
        <5>1. ms[j].sort_order <= ms[k].sort_order
          BY <1>2, <4>3
        <5>2. ms[k].target = "property_type" => ms[k].sort_order < ms[j].sort_order
          BY <1>3, <4>2, <4>3
        <5> QED
          BY <1>1, <4>3, <5>1, <5>2
      <4>5. Typed(k) = Typed(k - 1)
        BY <2>2, <4>4
      <4> QED
        BY <1>6, <2>6, <4>1, <4>2, <4>3, <4>5
    <3> QED
      BY <3>1, <3>2
  <2> QED
    BY <2>4, <2>5, <2>6
<1>7. 0 \in Good
  BY <1>5
<1>8. ASSUME NEW k \in Nat, k \in Good PROVE k + 1 \in Good
  <2> SUFFICES ASSUME k + 1 <= n PROVE Passed(k + 1)
    OBVIOUS
  <2>1. k + 1 \in 1 .. n /\ (k + 1) - 1 = k /\ Passed(k)
    BY <1>1, <1>8
  <2> HIDE DEF Passed
  <2> QED
    BY <1>6, <2>1
<1>9. Passed(n)
  <2> HIDE DEF Passed
  <2>1. n \in Good
    <3> HIDE DEF Good
    <3> QED
      BY <1>1, <1>7, <1>8, Induct
  <2> QED
    BY <1>1, <2>1
<1> QED
  BY <1>4, <1>9 DEF ms

\* A loaded record is what the mappings made of the record of the batch that has its id.
LEMMA LoadedMade ==
    ASSUME RecordInv, KeepsIds, IdsDiffer, NEW load \in LoadedPayloads
    PROVE  \E p \in Places, loaded \in Configs : \E form \in Forms(At(p)) :
              Raw(load.id) = At(p) /\ load.payload = Sent(form, ruleset, loaded)
<1>1. PICK i \in 1 .. Len(loads) : load = loads[i] /\ load.status = "loaded"
  BY DEF LoadedPayloads
<1>2. WellLoaded(load)
  BY <1>1 DEF RecordInv, Traced, ElementsOf
<1>3. load.id = external_id(load.payload) /\ Made(load.payload)
  BY <1>1, <1>2 DEF WellLoaded, Loadable, Followed
<1>4. PICK p \in Places, loaded \in Configs : \E form \in Forms(At(p)) :
          load.payload = Sent(form, ruleset, loaded)
  BY <1>3 DEF Made
<1>5. load.id = At(p).id
  BY <1>3, <1>4 DEF KeepsIds, RecordInv, Shape
<1>6. Raw(load.id) = At(p)
  <2> DEFINE q == CHOOSE q \in Places : At(q).id = load.id
  <2>1. q \in Places /\ At(q).id = load.id
    BY <1>5
  <2>2. q = p
    <3> HIDE DEF q
    <3> QED
      BY <1>5, <2>1 DEF IdsDiffer
  <2> QED
    BY <2>2 DEF Raw
<1> QED
  BY <1>4, <1>6

\* The rate band an account is loaded with is one of the tariff rows of its own
\* product, band and year, for its property type where its profiles look for one:
\* what the transforms were given for the account is not changed on the way, by
\* mappings, edits or a resumed attempt (transforms/stw/rateband.py, rules/engine.py).
THEOREM RateBandAgrees ==
    ASSUME KeepsIds, IdsDiffer, BandsMapped
    PROVE  Spec => []RateBandOfItsTariff
<1>1. RecordInv => RateBandOfItsTariff
  <2> SUFFICES ASSUME RecordInv, NEW load \in LoadedPayloads, Get(load.payload, "rate_band") # None
               PROVE  \E loaded \in Configs :
                         LET raw == Raw(load.id)
                             type == Get(load.payload, "property_type")
                             own == {row \in ToSet(BandTable(loaded)) : Agrees(row, row_key(raw, Key3))}
                         IN \E row \in own :
                            /\ Band(row) = load.payload.rate_band
                            /\ LooksForType(raw) /\ ~IsEmpty(type) /\ Get(row, "property_type") # type =>
                                  ~\E other \in own :
                                      SameZone(other, row) /\ Get(other, "property_type") = type
    BY DEF RateBandOfItsTariff
  <2> DEFINE raw == Raw(load.id)
             x == load.payload
             ms == EnabledMappings(ruleset.mappings)
  <2>1. PICK p \in Places, loaded \in Configs, form \in Forms(raw) :
            raw = At(p) /\ x = Sent(form, ruleset, loaded)
    BY LoadedMade
  <2>2. ruleset \in RuleSets
    BY DEF RecordInv, Shape
  <2> HIDE DEF raw, x
  <2> DEFINE rules == get_stw_rules(loaded.overrides)
             made == transform_one(form, ms, rules, loaded)
             table == BandTable(loaded)
  <2>3. ms # <<>>
    <3>1. PICK mapping \in EnabledOf(ruleset) : TRUE
      BY <2>2 DEF BandsMapped
    <3>2. PICK k \in 1 .. Len(ms) : ms[k] = mapping
      BY <2>2, <3>1, SetInOrder
    <3> HIDE DEF ms
    <3> QED
      BY <3>2, EmptySequence
  <2>4. x = made
    <3>1. x = IF Adapter = "sap" THEN to_sap_record(made) ELSE made
      BY <2>1, <2>3, SentIs
    <3>2. Get(to_sap_record(made), "rate_band") = None
      BY DEF to_sap_record, Get
    <3>3. Get(x, "rate_band") # None
      BY DEF x
    <3> QED
      BY <3>1, <3>2, <3>3
  <2>5. \A f \in BandFields : Alike(form, raw, f)
    <3>1. DOMAIN raw \subseteq FieldsOf(Entity)
      BY <2>1 DEF BandsMapped, StagedFields
    <3> QED
      BY <2>1, <3>1, FormsAlike
  <2>6. rules.rateband.lookup_profiles = RatebandProfiles /\ table \in Seq(ToSet(table))
    BY <2>1 DEF BandsMapped
  <2>7. table = TableOf(rules.rateband, loaded.tariffs)
    BY DEF BandTable
  <2> HIDE DEF rules, table
  <2>8. Sequence(table) /\ ElementsOf(table) = ToSet(table)
    <3>1. DOMAIN table = 1 .. Len(table)
      BY <2>6, LenProperties
    <3> QED
      BY <2>6, <3>1 DEF Sequence, ElementsOf, ToSet
  <2>9. Get(made, "rate_band") # None =>
            \E row : Fits(row, raw, Get(made, "property_type"), Get(made, "rate_band"), table)
    BY <2>2, <2>5, <2>6, <2>7, <2>8, BandPassesOn
  <2> HIDE DEF made
  <2>10. PICK row : Fits(row, raw, Get(x, "property_type"), Get(x, "rate_band"), table)
    BY <2>4, <2>9 DEF x
  <2>11. Get(x, "rate_band") = x.rate_band
    BY DEF x, Get
  <2> QED
    BY <2>1, <2>8, <2>10, <2>11 DEF Fits, x, raw, table
<1> QED
  BY <1>1, RecordsTraced, PTL

-----------------------------------------------------------------------------
(* The area codes of an account                                             *)

\* What the area code mapping gives, and what it writes for the other service.
LEMMA AreaStep ==
    ASSUME NEW working, NEW mapping, mapping.type = "stw_area_code", NEW rules, NEW table,
           NEW f \in Siblings
    PROVE  LET laid == AfterMapping(working, mapping, rules, table)
           IN \/ Get(laid, f) = Get(working, f)
              \/ Get(laid, f) = apply_mapping(working, mapping, rules, table)
<1> DEFINE area == transform_area_code(working, rules.area_code, table)
<1>1. /\ AfterMapping(working, mapping, rules, table) = area.record
      /\ apply_mapping(working, mapping, rules, table) = area.value
  BY DEF AfterMapping, apply_mapping
<1>2. \/ area.record = working
      \/ \E category : area.record = Propagated(working, rules.area_code, category, area.value)
  BY DEF transform_area_code
<1> HIDE DEF area
<1>3. \/ area.record = working
      \/ \E g : area.record = With(working, g, area.value)
  BY <1>2 DEF Propagated
<1> QED
  BY <1>1, <1>3, WithGet

\* A set maps the area code once.
LEMMA OneArea ==
    ASSUME AreasMapped, NEW set \in RuleSets,
           NEW k \in 1 .. Len(set.mappings), NEW l \in 1 .. Len(set.mappings),
           set.mappings[k].enabled, set.mappings[k].target = "area_code",
           set.mappings[l].enabled, set.mappings[l].target = "area_code"
    PROVE  k = l
BY Zenon DEF AreasMapped

\* A sibling code that is not there to begin with stays away or is that of the account.
LEMMA AreaPassesOn ==
    ASSUME AreasMapped, NEW set \in RuleSets, NEW f \in Siblings,
           NEW record, IsEmpty(Get(record, f)), NEW rules, NEW table
    PROVE  LET made == transform_one(record, EnabledMappings(set.mappings), rules, table)
           IN ~IsEmpty(Get(made, f)) => Get(made, f) = Get(made, "area_code")
<1> DEFINE ms == EnabledMappings(set.mappings)
           n == Len(ms)
<1>1. n \in Nat /\ \A k \in 1 .. n : ms[k] \in EnabledOf(set)
  BY SetInOrder
<1>2. \A k \in 1 .. n :
         /\ ms[k].target = "area_code" <=> ms[k].type = "stw_area_code"
         /\ ms[k].target = f => ms[k].type = "copy" /\ ms[k].source = f
  BY <1>1 DEF AreasMapped
<1>3. \A j, k \in 1 .. n : ms[j].target = "area_code" /\ ms[k].target = "area_code" => j = k
  <2>1. PICK at \in [1 .. n -> 1 .. Len(set.mappings)] :
           /\ \A k, l \in 1 .. n : /\ ms[k] = set.mappings[at[k]] /\ set.mappings[at[k]].enabled
                                   /\ at[k] = at[l] => k = l
                                   /\ k < l => NotAfter(set.mappings, at[k], at[l])
           /\ \A k \in 1 .. Len(set.mappings) : set.mappings[k].enabled =>
                 \E l \in 1 .. n : at[l] = k
    BY SetInOrder
  <2> HIDE DEF ms
  <2> SUFFICES ASSUME NEW j \in 1 .. n, NEW k \in 1 .. n,
                      ms[j].target = "area_code", ms[k].target = "area_code"
               PROVE  j = k
    OBVIOUS
  <2>2. /\ at[j] \in 1 .. Len(set.mappings) /\ at[k] \in 1 .. Len(set.mappings)
        /\ set.mappings[at[j]].enabled /\ set.mappings[at[j]].target = "area_code"
        /\ set.mappings[at[k]].enabled /\ set.mappings[at[k]].target = "area_code"
    BY <2>1
  <2>3. at[j] = at[k]
    BY <2>2, OneArea
  <2> QED
    BY <2>1, <2>3
<1> HIDE DEF ms
<1>4. PICK after : /\ Loops(after, record, ms, rules, table, n)
                   /\ transform_one(record, ms, rules, table) = after[n].out
  BY <1>1, LoopIsIt
<1> HIDE DEF n
<1> DEFINE Area(k) == Get(after[k].out, "area_code")
           Seen(k) == \E j \in 1 .. k : ms[j].target = "area_code"
           Own(value, k) == IsEmpty(value) \/ (Seen(k) /\ value = Area(k))
           Passed(k) == Own(Get(after[k].working, f), k) /\ Own(Get(after[k].out, f), k)
           Good == {k \in Nat : k <= n => Passed(k)}
<1>5. Passed(0)
  <2>1. after[0].working = record /\ after[0].out = <<>>
    BY <1>4 DEF Loops
  <2>2. Get(<<>>, f) = None
    BY DEF Get
  <2> QED
    BY <2>1, <2>2 DEF IsEmpty
<1>6. ASSUME NEW k \in 1 .. n, Passed(k - 1) PROVE Passed(k)
  <2> DEFINE before == after[k - 1].working
             value == apply_mapping(before, ms[k], rules, table)
             laid == AfterMapping(before, ms[k], rules, table)
  <2>1. after[k] = map_field(after[k - 1], ms[k], rules, table)
    BY <1>4 DEF Loops
  <2>2. /\ \A g : Get(after[k].out, g) = IF g = ms[k].target THEN value ELSE Get(after[k - 1].out, g)
        /\ \A g : Get(after[k].working, g) = IF g = ms[k].target /\ value # None THEN value
                                             ELSE Get(laid, g)
        /\ \A g : ms[k].type # "stw_area_code" => Get(laid, g) = Get(before, g)
    BY <2>1, FieldStep
  <2>3. f # "area_code"
    BY DEF Siblings
  <2>4. CASE ms[k].target = "area_code"
    <3>1. Get(laid, f) = Get(before, f) \/ Get(laid, f) = value
      BY <1>2, <2>4, AreaStep
    <3>2. ~Seen(k - 1)
      <4> SUFFICES ASSUME NEW j \in 1 .. k - 1, ms[j].target = "area_code" PROVE FALSE
        OBVIOUS
      <4>1. j \in 1 .. n /\ j # k
        BY <1>1
      <4> QED
        BY <1>3, <2>4, <4>1
    <3> HIDE DEF value, laid
    <3>3. Area(k) = value /\ Seen(k)
      BY <1>1, <2>2, <2>4
    <3>4. Get(after[k].working, f) = Get(laid, f) /\ Get(after[k].out, f) = Get(after[k - 1].out, f)
      BY <2>2, <2>3, <2>4
    <3> HIDE DEF Seen
    <3> QED
      BY <1>6, <3>1, <3>2, <3>3, <3>4
  <2>5. CASE ms[k].target # "area_code"
    <3>1. \A g : Get(laid, g) = Get(before, g)
      BY <1>2, <2>2, <2>5
    <3>2. ms[k].target = f => value = Get(before, f)
      <4> SUFFICES ASSUME ms[k].type = "copy", ms[k].source = f PROVE value = Get(before, f)
        BY <1>2
      <4>1. f # None
        BY DEF Siblings, None
      <4> QED
        BY <4>1 DEF apply_mapping
    <3> HIDE DEF value, laid
    <3>3. Area(k) = Area(k - 1)
      BY <2>2, <2>5
    <3>4. Seen(k - 1) => Seen(k)
      BY <1>1
    <3>5. Get(after[k].working, f) = Get(before, f)
      BY <2>2, <3>1, <3>2
    <3>6. Get(after[k].out, f) \in {Get(before, f), Get(after[k - 1].out, f)}
      BY <2>2, <3>2
    <3> HIDE DEF Seen
    <3> QED
      BY <1>6, <3>3, <3>4, <3>5, <3>6
  <2> QED
    BY <2>4, <2>5
<1>7. 0 \in Good
  BY <1>5
<1>8. ASSUME NEW k \in Nat, k \in Good PROVE k + 1 \in Good
  <2> SUFFICES ASSUME k + 1 <= n PROVE Passed(k + 1)
    OBVIOUS
  <2>1. k + 1 \in 1 .. n /\ (k + 1) - 1 = k /\ Passed(k)
    BY <1>1, <1>8
  <2> HIDE DEF Passed
  <2> QED
    BY <1>6, <2>1
<1>9. Passed(n)
  <2> HIDE DEF Passed
  <2>1. n \in Good
    <3> HIDE DEF Good
    <3> QED
      BY <1>1, <1>7, <1>8, Induct
  <2> QED
    BY <1>1, <2>1
<1> QED
  BY <1>4, <1>9 DEF ms

\* What a category is told by.
LEMMA SameCategory ==
    ASSUME NEW a, NEW b, Alike(a, b, "account_category"), Alike(a, b, "category"), NEW aliases
    PROVE  Category(a, aliases) = Category(b, aliases)
<1> DEFINE names == <<"account_category", "category">>
<1>1. Len(names) = 2 /\ \A i \in 1 .. 2 : names[i] \in {"account_category", "category"}
  OBVIOUS
<1> HIDE DEF names
<1>2. \A i \in 1 .. Len(names) : Alike(a, b, names[i])
  BY <1>1
<1>3. FirstOf(a, names) = FirstOf(b, names)
  BY <1>1, <1>2, FirstOfAlike
<1> QED
  BY <1>3 DEF names, Category

\* The area code mapping writes the code of the account for the service that has none.
LEMMA AreaCopies ==
    ASSUME NEW working, NEW mapping, mapping.type = "stw_area_code", NEW rules, NEW context,
           rules.area_code.propagate_area_code_except_owc,
           Category(working, rules.area_code.category_aliases) \notin {"owc", "assessed"},
           NEW f \in Siblings, NEW g \in Siblings, f # g,
           IsEmpty(Get(working, f)), ~IsEmpty(Get(working, g))
    PROVE  Get(AfterMapping(working, mapping, rules, context), f)
             = apply_mapping(working, mapping, rules, context)
<1> DEFINE area == transform_area_code(working, rules.area_code, context)
           category == Category(working, rules.area_code.category_aliases)
<1>1. /\ AfterMapping(working, mapping, rules, context) = area.record
      /\ apply_mapping(working, mapping, rules, context) = area.value
  BY DEF AfterMapping, apply_mapping
<1>2. area.record = Propagated(working, rules.area_code, category, area.value)
  BY DEF transform_area_code
<1> HIDE DEF area, category
<1>3. \/ f = "fresh_area_code" /\ g = "waste_area_code"
      \/ f = "waste_area_code" /\ g = "fresh_area_code"
  BY DEF Siblings
<1>4. category # "owc"
  BY DEF category
<1>5. Propagated(working, rules.area_code, category, area.value) = With(working, f, area.value)
  BY <1>3, <1>4 DEF Propagated
<1> QED
  BY <1>1, <1>2, <1>5, WithGet

\* So a sibling that is mapped after the area code gets the code of the account.
AfterArea(set, f) ==
    \E m, n \in 1 .. Len(set.mappings) :
        /\ set.mappings[m].enabled /\ set.mappings[m].target = "area_code"
        /\ set.mappings[n].enabled /\ set.mappings[n].target = f
        /\ ~NotAfter(set.mappings, n, m)

LEMMA CopyPassesOn ==
    ASSUME AreasMapped, NEW set \in RuleSets, NEW f \in Siblings, NEW record,
           IsEmpty(Get(record, f)), HasOther(record, f), AfterArea(set, f),
           Category(record, CategoryAliases) \notin {"owc", "assessed"},
           NEW rules, NEW context,
           rules.area_code.propagate_area_code_except_owc,
           rules.area_code.category_aliases = CategoryAliases
    PROVE  LET made == transform_one(record, EnabledMappings(set.mappings), rules, context)
           IN Get(made, f) = Get(made, "area_code")
<1>a. PICK g \in Siblings : f # g /\ ~IsEmpty(Get(record, g))
  BY DEF HasOther
<1>b. PICK m \in 1 .. Len(set.mappings), n \in 1 .. Len(set.mappings) :
         /\ set.mappings[m].enabled /\ set.mappings[m].target = "area_code"
         /\ set.mappings[n].enabled /\ set.mappings[n].target = f
         /\ ~NotAfter(set.mappings, n, m)
  BY DEF AfterArea
<1> DEFINE ms == EnabledMappings(set.mappings)
           size == Len(ms)
<1>0. f # "area_code" /\ g # "area_code"
  BY DEF Siblings
<1>1. size \in Nat /\ \A k \in 1 .. size : ms[k] \in EnabledOf(set)
  BY SetInOrder
<1>2. \A k \in 1 .. size :
         /\ ms[k].target = "area_code" <=> ms[k].type = "stw_area_code"
         /\ ms[k].target \notin {"account_category", "category"}
         /\ ms[k].target \in Siblings => ms[k].type = "copy" /\ ms[k].source = ms[k].target
  BY <1>1 DEF AreasMapped
<1>3. PICK i \in 1 .. size, j \in 1 .. size :
         /\ ms[i].target = "area_code" /\ ms[j].target = f /\ i < j
         /\ \A k \in 1 .. size : ms[k].target = "area_code" => k = i
  <2>1. PICK at \in [1 .. size -> 1 .. Len(set.mappings)] :
           /\ \A k, l \in 1 .. size : /\ ms[k] = set.mappings[at[k]] /\ set.mappings[at[k]].enabled
                                      /\ at[k] = at[l] => k = l
                                      /\ k < l => NotAfter(set.mappings, at[k], at[l])
           /\ \A k \in 1 .. Len(set.mappings) : set.mappings[k].enabled =>
                 \E l \in 1 .. size : at[l] = k
    BY SetInOrder
  <2>2. ASSUME NEW k \in 1 .. Len(set.mappings), NEW l \in 1 .. Len(set.mappings),
               set.mappings[k].enabled, set.mappings[k].target = "area_code",
               set.mappings[l].enabled, set.mappings[l].target = "area_code"
        PROVE  k = l
    BY <2>2, OneArea
  <2> HIDE DEF ms, size
  <2>3. PICK i \in 1 .. size, j \in 1 .. size : at[i] = m /\ at[j] = n
    BY <1>b, <2>1
  <2>4. ms[i].target = "area_code" /\ ms[j].target = f
    BY <1>b, <2>1, <2>3
  <2>5. ~(j < i) /\ i # j
    BY <1>0, <1>b, <2>1, <2>3, <2>4
  <2>6. i < j
    BY <1>1, <2>5
  <2>7. ASSUME NEW k \in 1 .. size, ms[k].target = "area_code" PROVE k = i
    <3>1. /\ at[i] \in 1 .. Len(set.mappings) /\ at[k] \in 1 .. Len(set.mappings)
          /\ set.mappings[at[i]].enabled /\ set.mappings[at[i]].target = "area_code"
          /\ set.mappings[at[k]].enabled /\ set.mappings[at[k]].target = "area_code"
      BY <2>1, <2>4, <2>7
    <3>2. at[k] = at[i]
      BY <2>2, <3>1
    <3> QED
      BY <2>1, <3>2
  <2> QED
    BY <2>4, <2>6, <2>7
<1> HIDE DEF ms
<1>4. PICK after : /\ Loops(after, record, ms, rules, context, size)
                   /\ transform_one(record, ms, rules, context) = after[size].out
  BY <1>1, LoopIsIt
<1> HIDE DEF size
<1> DEFINE Area(k) == Get(after[k].out, "area_code")
           Before(k) == /\ IsEmpty(Get(after[k].working, f)) /\ ~IsEmpty(Get(after[k].working, g))
                        /\ \A h \in {"account_category", "category"} : Alike(after[k].working, record, h)
           Later(k) == \E l \in i + 1 .. k : ms[l].target = f
           After(k) == /\ Get(after[k].working, f) = Area(k)
                       /\ Later(k) => Get(after[k].out, f) = Area(k)
           Passed(k) == IF k < i THEN Before(k) ELSE After(k)
           Good == {k \in Nat : k <= size => Passed(k)}
<1>5. Passed(0)
  <2>1. after[0].working = record
    BY <1>4 DEF Loops
  <2>2. 0 < i
    BY <1>1
  <2> QED
    BY <1>a, <2>1, <2>2 DEF Alike
<1>6. ASSUME NEW k \in 1 .. size, Passed(k - 1) PROVE Passed(k)
  <2> DEFINE before == after[k - 1].working
             value == apply_mapping(before, ms[k], rules, context)
             laid == AfterMapping(before, ms[k], rules, context)
  <2>1. after[k] = map_field(after[k - 1], ms[k], rules, context)
    BY <1>4 DEF Loops
  <2>2. /\ \A h : Get(after[k].out, h) = IF h = ms[k].target THEN value ELSE Get(after[k - 1].out, h)
        /\ \A h : Get(after[k].working, h) = IF h = ms[k].target /\ value # None THEN value
                                             ELSE Get(laid, h)
        /\ \A h : ms[k].type # "stw_area_code" => Get(laid, h) = Get(before, h)
    <3> HIDE DEF Good, Passed, Before, After, Later, Area
    <3>1. ms[k].type # "stw_area_code" => laid = before
      BY DEF AfterMapping
    <3> DEFINE moved == map_field(after[k - 1], ms[k], rules, context)
    <3>2. \A h : Get(moved.out, h) = IF h = ms[k].target THEN value ELSE Get(after[k - 1].out, h)
      BY FieldStep
    <3>3. \A h : Get(moved.working, h) = IF h = ms[k].target /\ value # None THEN value
                                        ELSE Get(laid, h)
      BY FieldStep
    <3> HIDE DEF value, laid, moved
    <3>4. after[k] = moved
      BY <2>1 DEF moved
    <3> QED
      BY <3>1, <3>2, <3>3, <3>4
  <2>3. ASSUME NEW h \in Siblings, ms[k].target = h PROVE value = Get(before, h)
    <3>1. ms[k].type = "copy" /\ ms[k].source = h
      BY <1>2, <2>3
    <3>2. h # None
      BY DEF Siblings, None
    <3> QED
      BY <3>1, <3>2 DEF apply_mapping
  <2>4. CASE k = i
    <3>1. ms[k].type = "stw_area_code" /\ ms[k].target = "area_code"
      BY <1>2, <1>3, <2>4
    <3>2. k - 1 < i /\ Before(k - 1)
      BY <1>1, <1>6, <2>4
    <3> HIDE DEF value, laid
    <3>3. Category(before, CategoryAliases) = Category(record, CategoryAliases)
      BY <3>2, SameCategory
    <3>4. Get(laid, f) = value
      BY <1>a, <3>1, <3>2, <3>3, AreaCopies DEF laid, value
    <3>5. Get(after[k].working, f) = Area(k)
      BY <1>0, <2>2, <3>1, <3>4
    <3>6. ~Later(k)
      BY <1>1, <2>4
    <3> HIDE DEF Later, Area
    <3> QED
      BY <1>1, <2>4, <3>5, <3>6
  <2>5. CASE k < i
    <3>1. ms[k].target # "area_code" /\ ms[k].type # "stw_area_code"
      BY <1>1, <1>2, <1>3, <2>5
    <3>2. Before(k - 1)
      BY <1>1, <1>6, <2>5
    <3> HIDE DEF value, laid
    <3>3. \A h \in Siblings : Get(after[k].working, h) = Get(before, h)
      BY <2>2, <2>3, <3>1
    <3>4. \A h \in {"account_category", "category"} : Get(after[k].working, h) = Get(before, h)
      BY <1>2, <2>2, <3>1
    <3>5. Before(k)
      BY <3>2, <3>3, <3>4 DEF Alike
    <3> HIDE DEF Before
    <3> QED
      BY <2>5, <3>5
  <2>6. CASE k > i
    <3>1. ms[k].target # "area_code" /\ ms[k].type # "stw_area_code"
      BY <1>2, <1>3, <2>6
    <3>2. ~(k - 1 < i) /\ After(k - 1)
      BY <1>1, <1>6, <2>6
    <3> HIDE DEF value, laid
    <3>3. Area(k) = Area(k - 1) /\ Get(after[k].working, f) = Get(before, f)
      BY <2>2, <2>3, <3>1
    <3>4. Later(k) => Later(k - 1) \/ ms[k].target = f
      <4> SUFFICES ASSUME NEW l \in i + 1 .. k, ms[l].target = f
                   PROVE  Later(k - 1) \/ ms[k].target = f
        OBVIOUS
      <4>1. l = k \/ l \in i + 1 .. k - 1
        BY <1>1
      <4> QED
        BY <4>1
    <3> HIDE DEF Later
    <3>5. Later(k) => Get(after[k].out, f) = Area(k)
      BY <2>2, <2>3, <3>2, <3>3, <3>4
    <3>6. After(k)
      BY <3>2, <3>3, <3>5
    <3> HIDE DEF After
    <3> QED
      BY <1>1, <2>6, <3>6
  <2> QED
    BY <1>1, <2>4, <2>5, <2>6
<1>7. 0 \in Good
  BY <1>5
<1>8. ASSUME NEW k \in Nat, k \in Good PROVE k + 1 \in Good
  <2> SUFFICES ASSUME k + 1 <= size PROVE Passed(k + 1)
    OBVIOUS
  <2>1. k + 1 \in 1 .. size /\ (k + 1) - 1 = k /\ Passed(k)
    BY <1>1, <1>8
  <2> HIDE DEF Passed
  <2> QED
    BY <1>6, <2>1
<1>9. Passed(size)
  <2> HIDE DEF Passed
  <2>1. size \in Good
    <3> HIDE DEF Good
    <3> QED
      BY <1>1, <1>7, <1>8, Induct
  <2> QED
    BY <1>1, <2>1
<1>10. After(size) /\ Later(size)
  <2>1. ~(size < i) /\ j \in i + 1 .. size
    BY <1>1, <1>3
  <2> QED
    BY <1>3, <1>9, <2>1
<1> QED
  BY <1>4, <1>10 DEF ms

\* An account that was staged with the area code of one service only is loaded with its
\* own area code for the other where that is mapped after the area code, but for OWC and
\* assessed accounts, and else without one or with that code: the copy that is made on
\* the side reaches the target only through a later mapping
\* (transforms/stw/area_code.py, rules/engine.py).
THEOREM SiblingsFollow ==
    ASSUME KeepsIds, IdsDiffer, AreasMapped
    PROVE  Spec => []SiblingGetsOwnArea
<1>1. RecordInv => SiblingGetsOwnArea
  <2> SUFFICES ASSUME RecordInv, NEW load \in LoadedPayloads, NEW f \in Siblings,
                      IsEmpty(Get(Raw(load.id), f)),
                      CopiesArea(Raw(load.id), f) \/ ~IsEmpty(Get(load.payload, f))
               PROVE  Get(load.payload, f) = Get(load.payload, "area_code")
    BY DEF SiblingGetsOwnArea
  <2> DEFINE raw == Raw(load.id)
             x == load.payload
             ms == EnabledMappings(ruleset.mappings)
  <2>1. PICK p \in Places, loaded \in Configs, form \in Forms(raw) :
            raw = At(p) /\ x = Sent(form, ruleset, loaded)
    BY LoadedMade
  <2>2. ruleset \in RuleSets
    BY DEF RecordInv, Shape
  <2>3. IsEmpty(Get(raw, f)) /\ (CopiesArea(raw, f) \/ ~IsEmpty(Get(x, f)))
    OBVIOUS
  <2> HIDE DEF raw, x
  <2> DEFINE rules == get_stw_rules(loaded.overrides)
             all == transform_one(form, ms, rules, loaded)
             made == IF ms = <<>> THEN form ELSE all
  <2>4. \A h : Alike(form, raw, h)
    <3>1. DOMAIN raw \subseteq FieldsOf(Entity)
      BY <2>1 DEF AreasMapped, StagedFields
    <3> QED
      BY <2>1, <3>1, FormsAlike
  <2>5. IsEmpty(Get(form, f))
    BY <2>3, <2>4 DEF Alike
  <2>6. ~IsEmpty(Get(all, f)) => Get(all, f) = Get(all, "area_code")
    BY <2>2, <2>5, AreaPassesOn
  <2>7. CopiesArea(raw, f) => Get(all, f) = Get(all, "area_code") /\ ms # <<>>
    <3> SUFFICES ASSUME CopiesArea(raw, f) PROVE Get(all, f) = Get(all, "area_code") /\ ms # <<>>
      OBVIOUS
    <3>1. PICK g \in Siblings : g # f /\ ~IsEmpty(Get(raw, g))
      BY DEF CopiesArea, HasOther
    <3>2. AfterArea(ruleset, f)
      BY DEF CopiesArea, MappedAfterArea, Mapped, AfterArea
    <3>3. HasOther(form, f)
      <4>1. Alike(form, raw, g)
        BY <2>4
      <4> QED
        BY <3>1, <4>1 DEF Alike, HasOther
    <3>4. Category(form, CategoryAliases) \notin {"owc", "assessed"}
      <4>1. Category(form, CategoryAliases) = Category(raw, CategoryAliases)
        BY <2>4, SameCategory
      <4> QED
        BY <4>1 DEF CopiesArea
    <3>5. /\ rules.area_code.propagate_area_code_except_owc
          /\ rules.area_code.category_aliases = CategoryAliases
      BY <2>1 DEF AreasMapped
    <3>6. Get(all, f) = Get(all, "area_code")
      <4> HIDE DEF rules
      <4> QED
        BY <2>2, <2>5, <3>2, <3>3, <3>4, <3>5, CopyPassesOn
    <3>7. ms # <<>>
      <4>1. PICK at \in [1 .. Len(ms) -> 1 .. Len(ruleset.mappings)] :
               \A k \in 1 .. Len(ruleset.mappings) : ruleset.mappings[k].enabled =>
                   \E l \in 1 .. Len(ms) : at[l] = k
        BY <2>2, SetInOrder
      <4> HIDE DEF ms
      <4>2. \E l \in 1 .. Len(ms) : TRUE
        BY <3>2, <4>1 DEF AfterArea
      <4> QED
        BY <4>2, EmptySequence
    <3> QED
      BY <3>6, <3>7
  <2>8. CASE Adapter = "sap"
    <3>1. x = to_sap_record(made)
      BY <2>1, <2>8, SentIs
    <3> HIDE DEF made
    <3>2. Get(x, f) = None /\ Get(x, "area_code") = None
      BY <3>1 DEF to_sap_record, Get, Siblings
    <3> QED
      BY <3>2 DEF x
  <2>9. CASE Adapter # "sap"
    <3>1. x = made
      BY <2>1, <2>9, SentIs
    <3> HIDE DEF all
    <3>2. ms # <<>> => x = all
      BY <3>1
    <3>3. ms = <<>> => IsEmpty(Get(x, f))
      BY <2>5, <3>1
    <3>4. Get(x, f) = Get(x, "area_code")
      BY <2>3, <2>6, <2>7, <3>2, <3>3
    <3> QED
      BY <3>4 DEF x
  <2> QED
    BY <2>8, <2>9
<1> QED
  BY <1>1, RecordsTraced, PTL
=============================================================================
