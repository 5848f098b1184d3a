----------------------- MODULE SchemaEvolutionProofs -----------------------
(***************************************************************************)
(* That rows keep their meaning, for any requests in any order.             *)
(*                                                                         *)
(* The schema only grows, at its end, within one life of the agent.  So the *)
(* names a row came under, and the columns a file has, are always a         *)
(* beginning of the schema's: that is SchemaInv.  IndexInv follows the tag  *)
(* index through it.  Formed says what batches and rows are made of.  Then  *)
(* ReadInv: while clients keep to one layout, the schema follows it, and    *)
(* every row in the buffer or captured suits the schema.                    *)
(***************************************************************************)
EXTENDS SchemaEvolution, TLAPS

INSTANCE WellFoundedInduction
INSTANCE FiniteSetTheorems
INSTANCE SequenceTheorems

IsSeq(s) == s \in Seq(Items(s))

(* The beginnings of a schema: what rows came under, and what files have. *)
Covers(sch, r) ==
    IsPrefix(r.under.tags, sch.tags) /\ IsPrefix(r.under.fields, FieldNamesOf(sch))

AllCovered(sch, rows) == \A r \in Items(rows) : Covers(sch, r)

Extends(old, new) == IsPrefix(old.tags, new.tags) /\ IsPrefix(old.fields, new.fields)

(* The schema in the names of columns. *)
InColumns(sch) ==
    [tags |-> Columns(sch.tags),
     fields |-> [i \in DOMAIN sch.fields |->
                    [name |-> ColumnName[sch.fields[i].name], type |-> sch.fields[i].type]]]

(* What a row came under, in the file. *)
InFile(f, r) ==
    /\ IsPrefix(Columns(r.under.tags), f.tags)
    /\ IsPrefix(Columns(r.under.fields), FieldNamesOf(f))

IsBatch(b) == IsSeq(b.tags) /\ IsSeq(b.fields) /\ IsSeq(b.rows)

Shapes ==
    /\ restarts \in Nat
    /\ IsSeq(schema.tags) /\ IsSeq(schema.fields)
    /\ IsSeq(written) /\ \A b \in Items(written) : IsBatch(b)
    /\ doing \subseteq DOMAIN written
    /\ DOMAIN chunk = Windows /\ \A w \in Windows : IsSeq(chunk[w].rows)
    /\ snap = [at |-> snap.at, windows |-> snap.windows, rows |-> snap.rows]
    /\ snap.windows \subseteq Windows /\ DOMAIN snap.rows \subseteq Windows
    /\ \A w \in DOMAIN snap.rows : IsSeq(snap.rows[w])
    /\ snap.at \in {"cloned", "stored"} => DOMAIN snap.rows = snap.windows

RowsCovered ==
    /\ \A w \in Windows : AllCovered(schema, chunk[w].rows)
    /\ \A w \in DOMAIN snap.rows : AllCovered(schema, snap.rows[w])
    /\ \A f \in files : \A r \in f.captured : InFile(f.file, r)

FilesBehind ==
    \A f \in files : /\ f.life \in 0 .. restarts
                     /\ f.life = restarts => Extends(f.file, InColumns(schema))

SchemaInv == Shapes /\ RowsCovered /\ FilesBehind /\ ColumnsAgree

-----------------------------------------------------------------------------
(* Sequences *)

(* A sequence is a function on the numbers up to its length, with items. *)
LEMMA SeqIs ==
    ASSUME NEW s, IsSeq(s)
    PROVE  Len(s) \in Nat /\ DOMAIN s = 1 .. Len(s) /\ s = [i \in 1 .. Len(s) |-> s[i]]
<1>1. s \in [1 .. Len(s) -> Items(s)]
    BY LenProperties DEF IsSeq
<1> QED
    BY <1>1, LenProperties DEF IsSeq

(* A function on the numbers up to n is a sequence of length n. *)
LEMMA SeqFrom ==
    ASSUME NEW n \in Nat, NEW s, s = [i \in 1 .. n |-> s[i]]
    PROVE  IsSeq(s) /\ Len(s) = n
<1>1. s \in [1 .. n -> Items(s)]
    BY DEF Items
<1> QED
    BY <1>1 DEF IsSeq

(* Any positions of a sequence are finitely many. *)
LEMMA PositionsFinite ==
    ASSUME NEW s, IsSeq(s), NEW I \in SUBSET DOMAIN s
    PROVE  Cardinality(I) \in Nat
<1>1. Len(s) \in Nat /\ DOMAIN s = 1 .. Len(s)
    BY SeqIs
<1>2. IsFiniteSet(1 .. Len(s))
    BY <1>1, FS_Interval
<1>3. IsFiniteSet(I)
    BY <1>1, <1>2, FS_Subset, Zenon
<1> QED
    BY <1>3, FS_CardinalityType, Zenon

(* Growing a sequence keeps what it has, and gives a sequence. *)
LEMMA GrowKeeps ==
    ASSUME NEW s, IsSeq(s), NEW t, NEW I, Cardinality(I) \in Nat
    PROVE  IsSeq(Grow(s, t, I)) /\ IsPrefix(s, Grow(s, t, I))
<1> DEFINE g == Grow(s, t, I)
           n == Len(s) + Cardinality(I)
<1>1. Len(s) \in Nat /\ DOMAIN s = 1 .. Len(s)
    BY SeqIs
<1>2. n \in Nat /\ 1 .. Len(s) \subseteq 1 .. n
    BY <1>1
<1>3. /\ g = [i \in 1 .. n |-> g[i]]
      /\ \A i \in 1 .. Len(s) : g[i] = s[i]
    BY <1>1, <1>2 DEF Grow
<1>4. DOMAIN g = 1 .. n
    BY DEF Grow
<1> HIDE DEF g, n
<1>5. IsSeq(g)
    BY <1>2, <1>3, SeqFrom
<1>6. IsPrefix(s, g)
    BY <1>1, <1>2, <1>3, <1>4 DEF IsPrefix
<1> QED
    BY <1>5, <1>6 DEF g

LEMMA EmptyIsSeq == IsSeq(<< >>) /\ Items(<< >>) = {}
    BY DEF IsSeq, Items

(* The names of a schema grow with its fields. *)
LEMMA NamesGrow ==
    ASSUME NEW old, NEW new, Extends(old, new)
    PROVE  IsPrefix(FieldNamesOf(old), FieldNamesOf(new))
    BY DEF Extends, IsPrefix, FieldNamesOf

LEMMA PrefixTransitive ==
    ASSUME NEW s, NEW t, NEW u, IsPrefix(s, t), IsPrefix(t, u)
    PROVE  IsPrefix(s, u)
    BY DEF IsPrefix

(* Renaming to columns keeps beginnings, of names and of schemas. *)
LEMMA ColumnsPrefix ==
    ASSUME NEW s, NEW t, IsPrefix(s, t)
    PROVE  IsPrefix(Columns(s), Columns(t))
    BY DEF IsPrefix, Columns

LEMMA ColumnsExtend ==
    ASSUME NEW old, NEW new, Extends(old, new)
    PROVE  Extends(InColumns(old), InColumns(new))
<1>1. IsPrefix(InColumns(old).tags, InColumns(new).tags)
    BY ColumnsPrefix DEF Extends, InColumns
<1>2. IsPrefix(InColumns(old).fields, InColumns(new).fields)
    BY DEF Extends, InColumns, IsPrefix
<1> QED
    BY <1>1, <1>2 DEF Extends

(* The names of the columns are the columns of the names. *)
LEMMA NamesInColumns ==
    ASSUME NEW sch
    PROVE  FieldNamesOf(InColumns(sch)) = Columns(FieldNamesOf(sch))
<1>1. /\ DOMAIN FieldNamesOf(InColumns(sch)) = DOMAIN sch.fields
      /\ DOMAIN Columns(FieldNamesOf(sch)) = DOMAIN sch.fields
      /\ \A i \in DOMAIN sch.fields :
            FieldNamesOf(InColumns(sch))[i] = Columns(FieldNamesOf(sch))[i]
    BY DEF FieldNamesOf, InColumns, Columns
<1> QED
    BY <1>1 DEF FieldNamesOf, Columns

LEMMA CoveredInFile ==
    ASSUME NEW sch, NEW r, Covers(sch, r)
    PROVE  InFile(InColumns(sch), r)
<1>1. InColumns(sch).tags = Columns(sch.tags)
    BY DEF InColumns
<1> QED
    BY <1>1, NamesInColumns, ColumnsPrefix DEF Covers, InFile

LEMMA CoverStays ==
    ASSUME NEW old, NEW new, Extends(old, new), NEW r, Covers(old, r)
    PROVE  Covers(new, r)
    BY NamesGrow, PrefixTransitive, Zenon DEF Covers, Extends

-----------------------------------------------------------------------------
(* Batches *)

(* A nonempty set of naturals has a least element. *)
LEMMA LeastIn ==
    ASSUME NEW S \in SUBSET Nat, S # {}
    PROVE  Least(S) \in S /\ \A m \in S : Least(S) <= m
<1> DEFINE less == {p \in Nat \X Nat : p[1] < p[2]}
<1>1. less = OpToRel(<, Nat)
    BY Zenon DEF OpToRel
<1>2. IsWellFoundedOn(less, Nat)
    BY <1>1, NatLessThanWellFounded, Zenon
<1>3. PICK n \in S : \A m \in S : <<m, n>> \notin less
    <2> HIDE DEF less
    <2> QED
        BY <1>2, WFMin
<1>4. ASSUME NEW m \in S PROVE n <= m
    <2>1. m \in Nat /\ n \in Nat
        OBVIOUS
    <2>2. m < n => <<m, n>> \in less
        BY <2>1
    <2> QED
        BY <1>3, <2>1, <2>2
<1> QED
    BY <1>4 DEF Least

(* The names of a sequence of cells are a sequence. *)
LEMMA FirstsIsSeq ==
    ASSUME NEW s, IsSeq(s)
    PROVE  IsSeq(Firsts(s))
<1>1. Len(s) \in Nat /\ DOMAIN s = 1 .. Len(s)
    BY SeqIs
<1>2. Firsts(s) = [i \in 1 .. Len(s) |-> Firsts(s)[i]]
    BY <1>1 DEF Firsts
<1> QED
    BY <1>1, <1>2, SeqFrom

LEMMA SeqIsSeq ==
    ASSUME NEW S, NEW s \in Seq(S)
    PROVE  IsSeq(s)
<1>1. Len(s) \in Nat /\ s = [i \in 1 .. Len(s) |-> s[i]]
    BY LenProperties
<1> QED
    BY <1>1, SeqFrom

(* A request's batches for its windows are batches. *)
LEMMA RequestsGiveBatches ==
    ASSUME NEW req \in Requests, NEW w, NEW n
    PROVE  IsBatch(Batch(req, w, n))
<1>1. /\ IsSeq(req) /\ req # << >>
      /\ \A l \in Items(req) : IsLine(l)
    BY SchemaAssumption DEF IsSeq
<1>2. Len(req) \in Nat /\ DOMAIN req = 1 .. Len(req) /\ 1 \in DOMAIN req
    <2>1. Len(req) \in Nat /\ DOMAIN req = 1 .. Len(req)
        BY <1>1, SeqIs
    <2>2. Len(req) # 0
        BY <1>1, EmptySeq DEF IsSeq
    <2> QED
        BY <2>1, <2>2
<1>3. \A i \in DOMAIN req : IsSeq(req[i].tags) /\ IsSeq(req[i].fields)
    BY <1>1, SeqIsSeq DEF Items, IsLine
<1>4. IsSeq(FieldNames(req))
    BY <1>2, <1>3, FirstsIsSeq DEF FieldNames
<1>5. IsSeq(TagKeys(req))
    <2> DEFINE tagged == {i \in DOMAIN req : req[i].tags # << >>}
    <2>1. CASE tagged = {}
        BY <2>1, EmptyIsSeq DEF TagKeys
    <2>2. CASE tagged # {}
        <3>1. tagged \in SUBSET Nat
            BY <1>2
        <3>2. Least(tagged) \in tagged
            BY <2>2, <3>1, LeastIn
        <3>3. IsSeq(Firsts(req[Least(tagged)].tags))
            BY <1>3, <3>2, FirstsIsSeq
        <3> QED
            BY <2>2, <3>3 DEF TagKeys
    <2> QED
        BY <2>1, <2>2
<1>6. IsSeq(Grow(<< >>, req, {i \in DOMAIN req : req[i].window = w}))
    BY <1>1, PositionsFinite, EmptyIsSeq, GrowKeeps
<1> QED
    BY <1>4, <1>5, <1>6 DEF IsBatch, Batch

(* The windows of a request are finitely many, and so are its batches. *)
LEMMA BatchesOfRequest ==
    ASSUME NEW req \in Requests, NEW n
    PROVE  IsSeq(BatchesOf(req, n)) /\ \A b \in Items(BatchesOf(req, n)) : IsBatch(b)
<1> DEFINE ws == {req[i].window : i \in DOMAIN req}
           f == [i \in DOMAIN req |-> req[i].window]
           N(k) == CHOOSE w \in ws : Cardinality({x \in ws : x <= w}) = k
<1>1. IsSeq(req) /\ \A l \in Items(req) : IsLine(l)
    BY SchemaAssumption DEF IsSeq
<1>2. Cardinality(ws) \in Nat
    <2>1. IsFiniteSet(DOMAIN req)
        BY <1>1, SeqIs, FS_Interval
    <2>2. f \in Surjection(DOMAIN req, ws)
        BY DEF Surjection
    <2>3. IsFiniteSet(ws)
        BY <2>1, <2>2, FS_Surjection, Zenon
    <2> QED
        BY <2>3, FS_CardinalityType, Zenon
<1> DEFINE bs == [k \in 1 .. Cardinality(ws) |-> Batch(req, N(k), n)]
<1>3. bs = BatchesOf(req, n)
    BY Zenon DEF BatchesOf
<1>4. \A k \in 1 .. Cardinality(ws) : IsBatch(bs[k])
    BY RequestsGiveBatches
<1>5. IsSeq(bs)
    <2> HIDE DEF ws, N
    <2>1. bs = [k \in 1 .. Cardinality(ws) |-> bs[k]]
        OBVIOUS
    <2> HIDE DEF bs
    <2> QED
        BY <1>2, <2>1, SeqFrom
<1>6. DOMAIN bs = 1 .. Cardinality(ws)
    OBVIOUS
<1> HIDE DEF bs, ws
<1> QED
    BY <1>3, <1>4, <1>5, <1>6 DEF Items

-----------------------------------------------------------------------------
(* Schemas and chunks *)

(* ensure_tag_key and ensure_field only add at the end. *)
LEMMA EnsureExtends ==
    ASSUME NEW sch, IsSeq(sch.tags), IsSeq(sch.fields), NEW b, IsBatch(b)
    PROVE  /\ IsSeq(Ensure(sch, b).tags) /\ IsSeq(Ensure(sch, b).fields)
           /\ Extends(sch, Ensure(sch, b))
<1> DEFINE T == {i \in DOMAIN b.tags : b.tags[i] \notin Items(sch.tags)}
           F == {i \in DOMAIN FieldDefs(b) : b.fields[i] \notin Items(FieldNamesOf(sch))}
<1>1. Cardinality(T) \in Nat
    BY PositionsFinite DEF IsBatch
<1>2. Cardinality(F) \in Nat
    <2>1. F \in SUBSET DOMAIN b.fields
        BY DEF FieldDefs
    <2> HIDE DEF F
    <2> QED
        BY <2>1, PositionsFinite DEF IsBatch
<1>3. Ensure(sch, b) = [tags |-> Grow(sch.tags, b.tags, T),
                        fields |-> Grow(sch.fields, FieldDefs(b), F)]
    BY DEF Ensure
<1> HIDE DEF T, F
<1> QED
    BY <1>1, <1>2, <1>3, GrowKeeps DEF Extends

(* A row that is inserted is covered by the schema it is inserted under. *)
LEMMA InsertCovered ==
    ASSUME NEW c, IsSeq(c.rows), NEW b, IsBatch(b), NEW sch, AllCovered(sch, c.rows)
    PROVE  IsSeq(Insert(c, b, sch).rows) /\ AllCovered(sch, Insert(c, b, sch).rows)
<1> DEFINE new == [i \in DOMAIN b.rows |-> Stored(b.rows[i], sch)]
           all == Items(c.rows) \cup Items(new)
<1>1. IsSeq(new)
    <2>1. Len(b.rows) \in Nat /\ DOMAIN b.rows = 1 .. Len(b.rows)
        BY SeqIs DEF IsBatch
    <2>2. new = [i \in 1 .. Len(b.rows) |-> new[i]]
        BY <2>1
    <2> HIDE DEF new
    <2> QED
        BY <2>1, <2>2, SeqFrom
<1>2. \A r \in Items(new) : Covers(sch, r)
    <2>1. ASSUME NEW i \in DOMAIN b.rows PROVE Covers(sch, new[i])
        <3>1. new[i].under = [tags |-> sch.tags, fields |-> FieldNamesOf(sch)]
            BY DEF Stored
        <3> HIDE DEF new
        <3> QED
            BY <3>1 DEF Covers, IsPrefix
    <2> QED
        BY <2>1, Zenon DEF Items
<1>3. Insert(c, b, sch).rows = c.rows \o new
    BY DEF Insert
<1> HIDE DEF new
<1>4. c.rows \in Seq(all) /\ new \in Seq(all)
    <2> HIDE DEF all
    <2>1. Items(c.rows) \subseteq all /\ Items(new) \subseteq all
        BY DEF all
    <2> QED
        BY <1>1, <2>1, SeqMonotonic, Zenon DEF IsSeq
<1>5. \A r \in all : Covers(sch, r)
    BY <1>2 DEF AllCovered
<1> HIDE DEF all
<1>6. c.rows \o new \in Seq(all)
    BY <1>4, ConcatProperties
<1>7. Items(c.rows \o new) \subseteq all
    BY <1>6, ElementOfSeq, LenProperties DEF Items
<1> QED
    BY <1>3, <1>5, <1>6, <1>7, SeqIsSeq DEF AllCovered

(* Draining a chunk leaves rows that were there. *)
LEMMA DrainCovered ==
    ASSUME NEW c, IsSeq(c.rows), NEW n \in Nat, NEW keys, NEW sch, AllCovered(sch, c.rows)
    PROVE  IsSeq(DrainChunk(c, n, keys).rows) /\ AllCovered(sch, DrainChunk(c, n, keys).rows)
<1>1. CASE n >= Len(c.rows)
    BY <1>1, EmptyIsSeq DEF DrainChunk, NewChunk, AllCovered
<1>2. CASE ~(n >= Len(c.rows))
    <2> DEFINE left == SubSeq(c.rows, n + 1, Len(c.rows))
    <2>1. Len(c.rows) \in Nat /\ DOMAIN c.rows = 1 .. Len(c.rows)
        BY SeqIs
    <2>2. \A i \in n + 1 .. Len(c.rows) : c.rows[i] \in Items(c.rows)
        BY <2>1 DEF Items
    <2>3. left \in Seq(Items(c.rows))
        BY <2>1, <2>2, SubSeqProperties
    <2>4. DrainChunk(c, n, keys).rows = left
        BY <1>2 DEF DrainChunk
    <2> HIDE DEF left
    <2>5. Items(left) \subseteq Items(c.rows)
        <3> DEFINE S == Items(c.rows)
        <3>1. left \in Seq(S)
            BY <2>3
        <3> HIDE DEF S
        <3>2. Items(left) \subseteq S
            BY <3>1, ElementOfSeq, LenProperties DEF Items
        <3> QED
            BY <3>2 DEF S
    <2> QED
        BY <2>3, <2>4, <2>5, SeqIsSeq DEF AllCovered
<1> QED
    BY <1>1, <1>2

-----------------------------------------------------------------------------
(* The steps *)

LEMMA InitInv == Init => SchemaInv
<1> SUFFICES ASSUME Init PROVE SchemaInv
    OBVIOUS
<1>1. Shapes
    BY EmptyIsSeq DEF Init, Shapes, NoSchema, NoCycle, NewChunk
<1>2. RowsCovered
    BY EmptyIsSeq DEF Init, RowsCovered, AllCovered, NoCycle, NewChunk
<1> QED
    BY <1>1, <1>2 DEF Init, SchemaInv, FilesBehind, ColumnsAgree

(* A request adds batches to those written. *)
LEMMA FlushStep ==
    ASSUME SchemaInv, NEW req \in Requests, Flush(req)
    PROVE  SchemaInv'
<1> DEFINE bs == BatchesOf(req, NextFile)
           all == Items(written) \cup Items(bs)
<1> USE DEF Flush
<1>1. IsSeq(bs) /\ \A b \in Items(bs) : IsBatch(b)
    BY BatchesOfRequest
<1>2. written' = written \o bs /\ doing' = {}
    OBVIOUS
<1> HIDE DEF bs
<1>3. IsSeq(written) /\ \A b \in Items(written) : IsBatch(b)
    BY DEF SchemaInv, Shapes
<1>4. \A b \in all : IsBatch(b)
    BY <1>1, <1>3
<1>5. written \in Seq(all) /\ bs \in Seq(all)
    <2>1. Items(written) \subseteq all /\ Items(bs) \subseteq all
        OBVIOUS
    <2> HIDE DEF all
    <2> QED
        BY <1>1, <1>3, <2>1, SeqMonotonic, Zenon DEF IsSeq
<1> HIDE DEF all
<1>6. written' \in Seq(all)
    BY <1>2, <1>5, ConcatProperties
<1>7. Items(written') \subseteq all
    BY <1>6, ElementOfSeq, LenProperties DEF Items
<1>8. IsSeq(written')
    BY <1>6, SeqIsSeq
<1>9. Shapes'
    BY <1>2, <1>4, <1>7, <1>8 DEF SchemaInv, Shapes
<1>10. RowsCovered' /\ FilesBehind' /\ ColumnsAgree'
    BY DEF SchemaInv, RowsCovered, FilesBehind, ColumnsAgree
<1> QED
    BY <1>9, <1>10 DEF SchemaInv

(* A batch grows the schema and one chunk: what was covered stays covered. *)
LEMMA ApplyStep ==
    ASSUME SchemaInv, NEW i \in doing, ApplyBatch(i)
    PROVE  SchemaInv'
<1> DEFINE b == written[i]
<1>1. /\ schema' = Ensure(schema, b)
      /\ chunk' = [chunk EXCEPT ![b.window] = Insert(@, b, schema')]
      /\ doing' \subseteq doing
      /\ UNCHANGED <<written, snap, files, restarts>>
    BY DEF ApplyBatch
<1>2. IsBatch(b)
    BY DEF SchemaInv, Shapes, Items
<1> HIDE DEF b
<1>3. IsSeq(schema.tags) /\ IsSeq(schema.fields) /\ DOMAIN chunk = Windows
    BY DEF SchemaInv, Shapes
<1>4. IsSeq(schema'.tags) /\ IsSeq(schema'.fields) /\ Extends(schema, schema')
    BY <1>1, <1>2, <1>3, EnsureExtends
<1>5. \A rows : AllCovered(schema, rows) => AllCovered(schema', rows)
    BY <1>4, CoverStays DEF AllCovered
<1>6. ASSUME NEW w \in Windows
      PROVE  IsSeq(chunk'[w].rows) /\ AllCovered(schema', chunk'[w].rows)
    <2>1. IsSeq(chunk[w].rows) /\ AllCovered(schema', chunk[w].rows)
        BY <1>5 DEF SchemaInv, Shapes, RowsCovered
    <2>2. chunk'[w] = IF w = b.window THEN Insert(chunk[w], b, schema') ELSE chunk[w]
        BY <1>1, <1>3
    <2> QED
        BY <1>2, <2>1, <2>2, InsertCovered
<1>7. DOMAIN chunk' = Windows
    BY <1>1, <1>3
<1>8. Shapes'
    BY <1>1, <1>4, <1>6, <1>7 DEF SchemaInv, Shapes
<1>9. RowsCovered'
    BY <1>1, <1>5, <1>6 DEF SchemaInv, RowsCovered
<1>10. FilesBehind'
    <2>0. Extends(InColumns(schema), InColumns(schema'))
        BY <1>4, ColumnsExtend
    <2>1. ASSUME NEW f \in files, f.life = restarts
          PROVE  Extends(f.file, InColumns(schema'))
        BY <2>0, <2>1, PrefixTransitive DEF SchemaInv, FilesBehind, Extends
    <2> QED
        BY <1>1, <2>1 DEF SchemaInv, FilesBehind
<1>11. ColumnsAgree'
    BY <1>1 DEF SchemaInv, ColumnsAgree
<1> QED
    BY <1>8, <1>9, <1>10, <1>11 DEF SchemaInv

(* The file has the schema of now, and the rows of before. *)
LEMMA SerializeStep ==
    ASSUME SchemaInv, Serialize
    PROVE  SchemaInv'
<1> DEFINE new == [file |-> FileOf(snap.rows, schema), life |-> restarts,
                   captured |-> UNION {Items(snap.rows[w]) : w \in DOMAIN snap.rows}]
<1>1. /\ files' = files \cup {new}
      /\ snap' = [snap EXCEPT !.at = "stored"] /\ snap.at = "cloned"
      /\ UNCHANGED <<schema, chunk, written, doing, restarts>>
    BY DEF Serialize
<1> DEFINE columns == InColumns(schema)
<1>2. /\ new.file.tags = columns.tags /\ new.file.fields = columns.fields
      /\ FieldNamesOf(new.file) = FieldNamesOf(columns)
    BY DEF FileOf, InColumns, FieldNamesOf
<1>3. \A r \in new.captured : InFile(new.file, r)
    <2>1. \A r \in new.captured : InFile(columns, r)
        BY CoveredInFile DEF SchemaInv, RowsCovered, AllCovered
    <2> QED
        BY <1>2, <2>1, Zenon DEF InFile
<1>4. new.life = restarts
    OBVIOUS
<1> HIDE DEF new, columns
<1>5. snap'.at = "stored" /\ snap'.windows = snap.windows /\ snap'.rows = snap.rows
          /\ snap' = [at |-> snap'.at, windows |-> snap'.windows, rows |-> snap'.rows]
    BY <1>1 DEF SchemaInv, Shapes
<1>6. Shapes'
    BY <1>1, <1>5 DEF SchemaInv, Shapes
<1>7. RowsCovered'
    BY <1>1, <1>3, <1>5 DEF SchemaInv, RowsCovered
<1>8. FilesBehind'
    <2>1. restarts \in Nat /\ Extends(new.file, columns)
        BY <1>2 DEF SchemaInv, Shapes, Extends, IsPrefix
    <2> QED
        BY <1>1, <1>4, <2>1 DEF SchemaInv, FilesBehind, columns
<1>9. ColumnsAgree'
    <2>1. ASSUME NEW f \in files, f.life = new.life
          PROVE  IsPrefix(f.file.tags, new.file.tags) /\ IsPrefix(f.file.fields, new.file.fields)
        BY <1>2, <1>4, <2>1 DEF SchemaInv, FilesBehind, Extends, columns
    <2>2. IsPrefix(new.file.tags, new.file.tags) /\ IsPrefix(new.file.fields, new.file.fields)
        BY DEF IsPrefix
    <2> QED
        BY <1>1, <2>1, <2>2 DEF SchemaInv, ColumnsAgree
<1> QED
    BY <1>6, <1>7, <1>8, <1>9 DEF SchemaInv

(* The cycle copies rows, and gives up. *)
LEMMA CycleStep ==
    ASSUME SchemaInv, Collect \/ Clone \/ Abandon
    PROVE  SchemaInv'
<1>1. UNCHANGED <<schema, chunk, written, doing, files, restarts>>
    BY DEF Collect, Clone, Abandon
<1>2. /\ snap' = [at |-> snap'.at, windows |-> snap'.windows, rows |-> snap'.rows]
      /\ snap'.windows \subseteq Windows
      /\ snap'.at \in {"cloned", "stored"} => DOMAIN snap'.rows = snap'.windows
      /\ DOMAIN snap'.rows \subseteq Windows
      /\ \A w \in DOMAIN snap'.rows : snap'.rows[w] = chunk[w].rows
    <2>1. CASE Collect
        <3>1. PICK closed \in SUBSET Windows :
                  snap' = [NoCycle EXCEPT !.at = "collected", !.windows = closed]
            BY <2>1 DEF Collect
        <3>2. snap' = [at |-> "collected", windows |-> closed, rows |-> [w \in {} |-> << >>]]
            BY <3>1 DEF NoCycle
        <3> QED
            BY <3>2
    <2>2. CASE Clone
        <3>1. snap' = [at |-> "cloned", windows |-> snap.windows,
                       rows |-> [w \in snap.windows |-> chunk[w].rows]]
            BY <2>2 DEF Clone, SchemaInv, Shapes
        <3> QED
            BY <3>1 DEF SchemaInv, Shapes
    <2>3. CASE Abandon
        BY <2>3 DEF Abandon, NoCycle
    <2> QED
        BY <2>1, <2>2, <2>3
<1>3. \A w \in Windows : IsSeq(chunk[w].rows) /\ AllCovered(schema, chunk[w].rows)
    BY DEF SchemaInv, Shapes, RowsCovered
<1>4. Shapes'
    BY <1>1, <1>2, <1>3 DEF SchemaInv, Shapes
<1>5. RowsCovered'
    BY <1>1, <1>2, <1>3 DEF SchemaInv, RowsCovered
<1> QED
    BY <1>1, <1>4, <1>5 DEF SchemaInv, FilesBehind, ColumnsAgree

(* The handoff drops rows. *)
LEMMA HandoffStep ==
    ASSUME SchemaInv, Handoff
    PROVE  SchemaInv'
<1>1. /\ snap' = NoCycle /\ UNCHANGED <<schema, written, doing, files, restarts>>
      /\ DOMAIN chunk' = Windows
      /\ \A w \in Windows : chunk'[w] = IF w \in snap.windows
              THEN DrainChunk(chunk[w], Len(snap.rows[w]), schema.tags) ELSE chunk[w]
    BY DEF Handoff
<1>2. ASSUME NEW w \in Windows
      PROVE  IsSeq(chunk'[w].rows) /\ AllCovered(schema, chunk'[w].rows)
    <2>1. IsSeq(chunk[w].rows) /\ AllCovered(schema, chunk[w].rows)
        BY DEF SchemaInv, Shapes, RowsCovered
    <2>2. w \in snap.windows => Len(snap.rows[w]) \in Nat
        BY SeqIs DEF SchemaInv, Shapes, Handoff
    <2> QED
        BY <1>1, <2>1, <2>2, DrainCovered
<1>3. Shapes'
    BY <1>1, <1>2 DEF SchemaInv, Shapes, NoCycle
<1>4. RowsCovered'
    BY <1>1, <1>2 DEF SchemaInv, RowsCovered, NoCycle
<1> QED
    BY <1>1, <1>3, <1>4 DEF SchemaInv, FilesBehind, ColumnsAgree

(* A new life starts with an empty schema, and is later than that of any file. *)
LEMMA RestartStep ==
    ASSUME SchemaInv, Restart
    PROVE  SchemaInv'
<1>1. /\ restarts' = restarts + 1 /\ schema' = NoSchema /\ snap' = NoCycle
      /\ chunk' = [w \in Windows |-> NewChunk] /\ doing' \subseteq DOMAIN written
      /\ UNCHANGED <<written, files>>
    BY DEF Restart
<1>2. \A w \in Windows : chunk'[w].rows = << >>
    BY <1>1 DEF NewChunk
<1>3. Shapes'
    BY <1>1, <1>2, EmptyIsSeq DEF SchemaInv, Shapes, NoSchema, NoCycle
<1>4. RowsCovered'
    BY <1>1, <1>2, EmptyIsSeq DEF SchemaInv, RowsCovered, AllCovered, NoCycle
<1>5. FilesBehind'
    BY <1>1 DEF SchemaInv, Shapes, FilesBehind
<1> QED
    BY <1>1, <1>3, <1>4, <1>5 DEF SchemaInv, ColumnsAgree

LEMMA StepInv == SchemaInv /\ [Next]_vars => SchemaInv'
<1> SUFFICES ASSUME SchemaInv, [Next]_vars PROVE SchemaInv'
    OBVIOUS
<1>1. ASSUME NEW n \in pending, ApplyBegin(n) PROVE SchemaInv'
    BY <1>1 DEF ApplyBegin, SchemaInv, Shapes, RowsCovered, FilesBehind, ColumnsAgree
<1>2. CASE UNCHANGED vars
    BY <1>2 DEF vars, SchemaInv, Shapes, RowsCovered, FilesBehind, ColumnsAgree
<1> QED
    BY <1>1, <1>2, FlushStep, ApplyStep, SerializeStep, CycleStep, HandoffStep, RestartStep, Zenon
       DEF Next

-----------------------------------------------------------------------------
(* Whatever clients write, and however it is interleaved, snapshot, and
   replayed, the names there were for a row when it came are the first ones of the
   schema and, as columns, of its file: a value with a name keeps it. *)
THEOREM ReadingIsStable == Spec => []ReadingStable
<1>1. SchemaInv => ReadingStable
    BY Zenon DEF SchemaInv, RowsCovered, AllCovered, Covers, InFile, ReadingStable
<1> QED
    BY <1>1, InitInv, StepInv, PTL DEF Spec

(* The files of one life of the agent have one list of columns, or a beginning of it. *)
THEOREM FilesAgree == Spec => []ColumnsAgree
<1>1. SchemaInv => ColumnsAgree
    BY DEF SchemaInv
<1> QED
    BY <1>1, InitInv, StepInv, PTL DEF Spec

-----------------------------------------------------------------------------
(* What is at the new positions of a sequence that grew *)

(* No two positions of s have one item. *)
Unique(s) == \A i, j \in DOMAIN s : s[i] = s[j] => i = j

UpTo(I, k) == {j \in I : j <= k}

(* Every place in the order of some numbers is that of one of them. *)
LEMMA HasNth ==
    ASSUME NEW I \in SUBSET Nat, IsFiniteSet(I), NEW m \in 1 .. Cardinality(I)
    PROVE  \E k \in I : Cardinality(UpTo(I, k)) = m
<1> DEFINE n == Cardinality(I)
           f == [k \in I |-> Cardinality(UpTo(I, k))]
<1>1. n \in Nat /\ IsFiniteSet(1 .. n) /\ Cardinality(1 .. n) = n
    BY FS_CardinalityType, FS_Interval
<1>2. ASSUME NEW k \in I
      PROVE  IsFiniteSet(UpTo(I, k)) /\ Cardinality(UpTo(I, k)) \in 1 .. n
    <2>1. UpTo(I, k) \in SUBSET I /\ k \in UpTo(I, k)
        BY DEF UpTo
    <2>2. IsFiniteSet(UpTo(I, k)) /\ Cardinality(UpTo(I, k)) <= n
        BY <2>1, FS_Subset, Zenon
    <2>3. Cardinality(UpTo(I, k)) \in Nat /\ Cardinality(UpTo(I, k)) # 0
        BY <2>1, <2>2, FS_CardinalityType, FS_EmptySet
    <2> QED
        BY <1>1, <2>2, <2>3
<1>3. ASSUME NEW k \in I, NEW l \in I, k < l
      PROVE  Cardinality(UpTo(I, k)) # Cardinality(UpTo(I, l))
    <2>1. UpTo(I, k) \in SUBSET UpTo(I, l) /\ l \in UpTo(I, l) /\ l \notin UpTo(I, k)
        <3>1. \A j \in I : j <= k => j <= l
            BY <1>3
        <3>2. l <= l /\ ~(l <= k)
            BY <1>3
        <3> QED
            BY <3>1, <3>2, Zenon DEF UpTo
    <2>2. UpTo(I, k) # UpTo(I, l)
        BY <2>1
    <2> QED
        BY <1>2, <2>1, <2>2, FS_Subset
<1>4. f \in [I -> 1 .. n] /\ \A k, l \in I : f[k] = f[l] => k = l
    <2>1. \A k, l \in I : k = l \/ k < l \/ l < k
        OBVIOUS
    <2> QED
        BY <1>2, <1>3, <2>1
<1>5. f \in Injection(I, 1 .. n)
    <2> HIDE DEF f, n
    <2> QED
        BY <1>4 DEF Injection, IsInjective
<1>6. f \in Surjection(I, 1 .. n)
    <2> HIDE DEF f
    <2>1. Cardinality(I) = Cardinality(1 .. n)
        BY <1>1
    <2> HIDE DEF n
    <2> QED
        BY <1>1, <1>5, <2>1, FS_Injection, Zenon
<1>7. \E k \in I : f[k] = m
    <2> HIDE DEF f
    <2> QED
        BY <1>6 DEF Surjection
<1> QED
    BY <1>7

(* After s come items of t at the positions I, no position twice. *)
LEMMA GrowAdds ==
    ASSUME NEW s, IsSeq(s), NEW t, NEW I \in SUBSET Nat, IsFiniteSet(I), I \subseteq DOMAIN t
    PROVE  /\ DOMAIN Grow(s, t, I) = 1 .. Len(s) + Cardinality(I)
           /\ \A i \in DOMAIN Grow(s, t, I) \ DOMAIN s : \E k \in I :
                  Grow(s, t, I)[i] = t[k] /\ Cardinality(UpTo(I, k)) = i - Len(s)
<1> DEFINE g == Grow(s, t, I)
<1>1. Len(s) \in Nat /\ DOMAIN s = 1 .. Len(s) /\ Cardinality(I) \in Nat
    BY SeqIs, FS_CardinalityType
<1>2. DOMAIN g = 1 .. Len(s) + Cardinality(I)
    BY DEF Grow
<1>3. ASSUME NEW i \in DOMAIN g \ DOMAIN s
      PROVE  \E k \in I : g[i] = t[k] /\ Cardinality(UpTo(I, k)) = i - Len(s)
    <2> DEFINE nth == CHOOSE k \in I : Cardinality({j \in I : j <= k}) = i - Len(s)
    <2>1. i - Len(s) \in 1 .. Cardinality(I) /\ i \in 1 .. Len(s) + Cardinality(I) /\ ~(i <= Len(s))
        BY <1>1, <1>2
    <2>2. \E k \in I : Cardinality({j \in I : j <= k}) = i - Len(s)
        BY <2>1, HasNth DEF UpTo
    <2>3. nth \in I /\ Cardinality({j \in I : j <= nth}) = i - Len(s)
        BY <2>2
    <2>4. g[i] = t[nth]
        BY <2>1 DEF Grow
    <2> HIDE DEF nth, g
    <2> QED
        BY <2>3, <2>4 DEF UpTo
<1> QED
    BY <1>2, <1>3

(* What is new and met once leaves a sequence without repetitions. *)
LEMMA GrowUnique ==
    ASSUME NEW s, IsSeq(s), Unique(s), NEW t, NEW I \in SUBSET Nat, IsFiniteSet(I),
           I \subseteq DOMAIN t, \A i, j \in I : t[i] = t[j] => i = j,
           \A i \in I : t[i] \notin Items(s)
    PROVE  Unique(Grow(s, t, I))
<1> DEFINE g == Grow(s, t, I)
<1>1. Len(s) \in Nat /\ DOMAIN s = 1 .. Len(s)
    BY SeqIs
<1>2. \A i \in DOMAIN s : g[i] = s[i] /\ i \in DOMAIN g
    BY GrowKeeps, FS_CardinalityType DEF IsPrefix
<1>3. /\ DOMAIN g \subseteq Nat
      /\ \A i \in DOMAIN g \ DOMAIN s : \E k \in I :
             g[i] = t[k] /\ Cardinality(UpTo(I, k)) = i - Len(s)
    <2>1. Cardinality(I) \in Nat
        BY FS_CardinalityType
    <2>2. /\ DOMAIN g = 1 .. Len(s) + Cardinality(I)
          /\ \A i \in DOMAIN g \ DOMAIN s : \E k \in I :
                 g[i] = t[k] /\ Cardinality(UpTo(I, k)) = i - Len(s)
        BY GrowAdds
    <2> HIDE DEF g
    <2>3. DOMAIN g \subseteq Nat
        BY <1>1, <2>1, <2>2
    <2> QED
        BY <2>2, <2>3
<1> HIDE DEF g
<1>4. ASSUME NEW i \in DOMAIN g, NEW j \in DOMAIN g, g[i] = g[j], i \in DOMAIN s
      PROVE  i = j
    <2>1. g[i] \in Items(s)
        BY <1>2, <1>4 DEF Items
    <2>2. j \in DOMAIN s
        BY <1>3, <1>4, <2>1
    <2> QED
        BY <1>2, <1>4, <2>2 DEF Unique
<1>5. ASSUME NEW i \in DOMAIN g, NEW j \in DOMAIN g, g[i] = g[j],
             i \notin DOMAIN s, j \notin DOMAIN s
      PROVE  i = j
    <2>1. PICK k \in I : g[i] = t[k] /\ Cardinality(UpTo(I, k)) = i - Len(s)
        BY <1>3, <1>5
    <2>2. PICK l \in I : g[j] = t[l] /\ Cardinality(UpTo(I, l)) = j - Len(s)
        BY <1>3, <1>5
    <2>3. k = l
        BY <1>5, <2>1, <2>2
    <2>4. i - Len(s) = j - Len(s) /\ i \in Nat /\ j \in Nat
        BY <1>3, <2>1, <2>2, <2>3
    <2> QED
        BY <1>1, <2>4
<1> QED
    BY <1>4, <1>5 DEF Unique, g

(* If the positions are those after n, what is there stays there. *)
LEMMA GrowExact ==
    ASSUME NEW s, IsSeq(s), NEW t, NEW m \in Nat, Len(s) <= m, (Len(s) + 1 .. m) \subseteq DOMAIN t
    PROVE  /\ DOMAIN Grow(s, t, Len(s) + 1 .. m) = 1 .. m
           /\ \A i \in Len(s) + 1 .. m : Grow(s, t, Len(s) + 1 .. m)[i] = t[i]
<1> DEFINE n == Len(s)
           I == n + 1 .. m
           g == Grow(s, t, I)
<1>1. n \in Nat /\ IsFiniteSet(I) /\ Cardinality(I) = m - n
    <2>1. n \in Nat
        BY SeqIs
    <2>2. n + 1 \in Int /\ m \in Int /\ (n + 1 > m => m - n = 0) /\ m - (n + 1) + 1 = m - n
        BY <2>1
    <2> HIDE DEF n
    <2> QED
        BY <2>1, <2>2, FS_Interval
<1>2. /\ DOMAIN g = 1 .. n + Cardinality(I)
      /\ \A i \in DOMAIN g \ DOMAIN s : \E k \in I : g[i] = t[k] /\ Cardinality(UpTo(I, k)) = i - n
    <2>1. I \in SUBSET Nat
        BY <1>1
    <2> HIDE DEF I
    <2> QED
        BY <1>1, <2>1, GrowAdds DEF I
<1>3. ASSUME NEW k \in I PROVE Cardinality(UpTo(I, k)) = k - n
    <2>1. UpTo(I, k) = n + 1 .. k /\ k \in Int /\ n + 1 \in Int /\ k >= n + 1
        BY <1>1 DEF UpTo
    <2> HIDE DEF I, n
    <2>2. Cardinality(n + 1 .. k) = k - (n + 1) + 1
        BY <2>1, FS_Interval
    <2> QED
        BY <1>1, <2>1, <2>2
<1>4. DOMAIN s = 1 .. n /\ DOMAIN g = 1 .. m
    BY <1>1, <1>2, SeqIs
<1>5. ASSUME NEW i \in I PROVE g[i] = t[i]
    <2>1. i \in DOMAIN g \ DOMAIN s /\ i \in Nat
        BY <1>1, <1>4
    <2>2. PICK k \in I : g[i] = t[k] /\ Cardinality(UpTo(I, k)) = i - n
        BY <1>2, <2>1
    <2>3. k = i
        BY <1>1, <1>3, <2>1, <2>2
    <2> QED
        BY <2>2, <2>3
<1> QED
    BY <1>4, <1>5

-----------------------------------------------------------------------------
(* The tag index *)

(* What IndexExact says of one chunk, the index taken as a set of entries. *)
Indexed(c, keys) ==
    /\ \A e \in c.index :
          /\ e[3] \in DOMAIN c.rows
          /\ \E i \in DOMAIN c.rows[e[3]].tags \cap DOMAIN keys :
                e[1] = keys[i] /\ e[2] = c.rows[e[3]].tags[i][2]
    /\ \A k \in DOMAIN c.rows : \A i \in DOMAIN c.rows[k].tags \cap DOMAIN keys :
          i <= Len(c.rows[k].under.tags) => <<keys[i], c.rows[k].tags[i][2], k>> \in c.index
    /\ \A k \in DOMAIN c.rows : IsSeq(c.rows[k].under.tags)

IndexInv == \A w \in Windows : Indexed(chunk[w], schema.tags)

LEMMA NewIndexed == ASSUME NEW keys PROVE Indexed(NewChunk, keys)
    BY DEF Indexed, NewChunk

(* Keys that are added say nothing of rows that came before. *)
LEMMA IndexKeeps ==
    ASSUME NEW c, NEW sch, Indexed(c, sch.tags), AllCovered(sch, c.rows),
           NEW new, IsPrefix(sch.tags, new.tags), IsSeq(new.tags)
    PROVE  Indexed(c, new.tags)
<1> DEFINE keys == sch.tags
           more == new.tags
<1>1. DOMAIN keys \subseteq DOMAIN more /\ \A i \in DOMAIN keys : more[i] = keys[i]
    BY DEF IsPrefix
<1>2. ASSUME NEW k \in DOMAIN c.rows, NEW i \in DOMAIN more, i <= Len(c.rows[k].under.tags)
      PROVE  i \in DOMAIN keys
    <2>1. c.rows[k] \in Items(c.rows)
        BY DEF Items
    <2>2. IsPrefix(c.rows[k].under.tags, keys) /\ IsSeq(c.rows[k].under.tags)
        BY <2>1 DEF AllCovered, Covers, Indexed
    <2>3. DOMAIN c.rows[k].under.tags = 1 .. Len(c.rows[k].under.tags)
        BY <2>2, SeqIs
    <2>4. i \in Nat /\ i >= 1 /\ Len(c.rows[k].under.tags) \in Nat
        BY <2>2, SeqIs
    <2> QED
        BY <1>2, <2>2, <2>3, <2>4 DEF IsPrefix
<1> QED
    BY <1>1, <1>2 DEF Indexed

(* The rows that are inserted come after those that are there, with all their entries. *)
LEMMA IndexInsert ==
    ASSUME NEW c, IsSeq(c.rows), NEW b, IsBatch(b), NEW sch, IsSeq(sch.tags), Indexed(c, sch.tags)
    PROVE  Indexed(Insert(c, b, sch), sch.tags)
<1> DEFINE keys == sch.tags
           new == [i \in DOMAIN b.rows |-> Stored(b.rows[i], sch)]
           base == Len(c.rows)
           rows == c.rows \o new
           d == Insert(c, b, sch)
<1>1. base \in Nat /\ DOMAIN c.rows = 1 .. base
    BY SeqIs
<1>2. Len(b.rows) \in Nat /\ DOMAIN b.rows = 1 .. Len(b.rows)
    BY SeqIs DEF IsBatch
<1>3. IsSeq(new) /\ Len(new) = Len(b.rows) /\ DOMAIN new = DOMAIN b.rows
    <2>1. new = [i \in 1 .. Len(b.rows) |-> new[i]] /\ DOMAIN new = DOMAIN b.rows
        BY <1>2
    <2> HIDE DEF new
    <2> QED
        BY <1>2, <2>1, SeqFrom
<1>4. \A k \in DOMAIN new : new[k].under.tags = keys
    BY DEF Stored
<1>5. d.rows = rows /\ d.index = c.index \cup Entries(new, base, keys)
    BY DEF Insert
<1> HIDE DEF new, d
<1>6. /\ DOMAIN rows = 1 .. base + Len(new)
      /\ \A k \in 1 .. base : rows[k] = c.rows[k]
      /\ \A k \in 1 .. Len(new) : rows[base + k] = new[k]
    <2> DEFINE all == Items(c.rows) \cup Items(new)
    <2>1. Items(c.rows) \subseteq all /\ Items(new) \subseteq all
        OBVIOUS
    <2> HIDE DEF all
    <2>2. c.rows \in Seq(all) /\ new \in Seq(all)
        BY <1>3, <2>1, SeqMonotonic, Zenon DEF IsSeq
    <2>3. /\ rows \in Seq(all) /\ Len(rows) = base + Len(new)
          /\ \A i \in 1 .. base + Len(new) :
                rows[i] = IF i <= base THEN c.rows[i] ELSE new[i - base]
        BY <2>2, ConcatProperties
    <2>4. Len(new) \in Nat
        BY <1>2, <1>3
    <2>5. DOMAIN rows = 1 .. base + Len(new)
        BY <2>3, LenProperties
    <2> HIDE DEF rows
    <2>6. ASSUME NEW k \in 1 .. Len(new) PROVE rows[base + k] = new[k]
        <3>1. base + k \in 1 .. base + Len(new) /\ ~(base + k <= base) /\ (base + k) - base = k
            BY <1>1, <2>4
        <3> QED
            BY <2>3, <3>1
    <2> HIDE DEF base
    <2>7. ASSUME NEW k \in 1 .. base PROVE rows[k] = c.rows[k]
        <3>1. k \in 1 .. base + Len(new) /\ k <= base
            BY <1>1, <2>4
        <3> QED
            BY <2>3, <3>1
    <2> QED
        BY <2>5, <2>6, <2>7
<1> HIDE DEF rows, base
<1>7. ASSUME NEW e \in d.index
      PROVE  /\ e[3] \in DOMAIN rows
             /\ \E i \in DOMAIN rows[e[3]].tags \cap DOMAIN keys :
                   e[1] = keys[i] /\ e[2] = rows[e[3]].tags[i][2]
    <2>1. CASE e \in c.index
        <3>1. e[3] \in 1 .. base
            BY <1>1, <2>1 DEF Indexed
        <3>2. rows[e[3]] = c.rows[e[3]] /\ e[3] \in DOMAIN rows
            BY <1>1, <1>2, <1>3, <1>6, <3>1
        <3> QED
            BY <2>1, <3>2 DEF Indexed
    <2>2. CASE e \in Entries(new, base, keys)
        <3>1. PICK k \in DOMAIN new : \E i \in DOMAIN keys \cap DOMAIN new[k].tags :
                  e = <<keys[i], new[k].tags[i][2], base + k>>
            BY <2>2 DEF Entries
        <3>2. PICK i \in DOMAIN keys \cap DOMAIN new[k].tags :
                  e = <<keys[i], new[k].tags[i][2], base + k>>
            BY <3>1
        <3>3. e[1] = keys[i] /\ e[2] = new[k].tags[i][2] /\ e[3] = base + k
            BY <3>2
        <3>4. k \in 1 .. Len(new) /\ base + k \in 1 .. base + Len(new)
            BY <1>1, <1>2, <1>3
        <3>5. rows[e[3]] = new[k] /\ e[3] \in DOMAIN rows
            BY <1>6, <3>3, <3>4
        <3> QED
            BY <3>3, <3>5
    <2> QED
        BY <1>5, <2>1, <2>2
<1>8. ASSUME NEW k \in DOMAIN rows
      PROVE  /\ IsSeq(rows[k].under.tags)
             /\ \A i \in DOMAIN rows[k].tags \cap DOMAIN keys :
                    i <= Len(rows[k].under.tags) => <<keys[i], rows[k].tags[i][2], k>> \in d.index
    <2>1. CASE k \in 1 .. base
        BY <1>1, <1>5, <1>6, <2>1 DEF Indexed
    <2>2. CASE k \notin 1 .. base
        <3> DEFINE j == k - base
        <3>1. j \in 1 .. Len(new) /\ k = base + j
            BY <1>1, <1>2, <1>3, <1>6, <2>2
        <3> HIDE DEF j
        <3>2. rows[k] = new[j] /\ j \in DOMAIN new
            BY <1>2, <1>3, <1>6, <3>1
        <3>3. ASSUME NEW i \in DOMAIN new[j].tags \cap DOMAIN keys
              PROVE  <<keys[i], new[j].tags[i][2], k>> \in d.index
            BY <1>5, <3>1, <3>2 DEF Entries
        <3> QED
            BY <1>4, <3>2, <3>3
    <2> QED
        BY <2>1, <2>2
<1> QED
    BY <1>5, <1>7, <1>8 DEF Indexed, d

(* What is left is indexed anew. *)
LEMMA IndexDrain ==
    ASSUME NEW c, IsSeq(c.rows), NEW n \in Nat, NEW keys, Indexed(c, keys)
    PROVE  Indexed(DrainChunk(c, n, keys), keys)
<1>1. CASE n >= Len(c.rows)
    BY <1>1, NewIndexed DEF DrainChunk
<1>2. CASE ~(n >= Len(c.rows))
    <2> DEFINE left == SubSeq(c.rows, n + 1, Len(c.rows))
               d == DrainChunk(c, n, keys)
    <2>1. Len(c.rows) \in Nat /\ DOMAIN c.rows = 1 .. Len(c.rows)
        BY SeqIs
    <2>2. /\ DOMAIN left = 1 .. Len(c.rows) - n
          /\ \A k \in DOMAIN left : k + n \in DOMAIN c.rows /\ left[k] = c.rows[k + n]
        BY <1>2, <2>1
    <2>3. d.rows = left /\ d.index = Entries(left, 0, keys)
        BY <1>2 DEF DrainChunk
    <2> HIDE DEF left, d
    <2>4. ASSUME NEW e \in d.index
          PROVE  /\ e[3] \in DOMAIN left
                 /\ \E i \in DOMAIN left[e[3]].tags \cap DOMAIN keys :
                       e[1] = keys[i] /\ e[2] = left[e[3]].tags[i][2]
        <3>1. PICK k \in DOMAIN left : \E i \in DOMAIN keys \cap DOMAIN left[k].tags :
                  e = <<keys[i], left[k].tags[i][2], 0 + k>>
            BY <2>3 DEF Entries
        <3>2. 0 + k = k
            BY <2>1, <2>2
        <3> QED
            BY <3>1, <3>2
    <2>5. ASSUME NEW k \in DOMAIN left, NEW i \in DOMAIN left[k].tags \cap DOMAIN keys
          PROVE  <<keys[i], left[k].tags[i][2], k>> \in d.index
        <3>1. 0 + k = k
            BY <2>1, <2>2
        <3>2. <<keys[i], left[k].tags[i][2], 0 + k>> \in d.index
            BY <2>3 DEF Entries
        <3> QED
            BY <3>1, <3>2
    <2>6. \A k \in DOMAIN left : IsSeq(left[k].under.tags)
        BY <2>2 DEF Indexed
    <2> QED
        BY <2>3, <2>4, <2>5, <2>6 DEF Indexed, d
<1> QED
    BY <1>1, <1>2

LEMMA IndexStep ==
    ASSUME SchemaInv, IndexInv, [Next]_vars
    PROVE  IndexInv'
<1>1. /\ DOMAIN chunk = Windows /\ IsSeq(schema.tags) /\ IsSeq(schema.fields)
      /\ \A w \in Windows : IsSeq(chunk[w].rows) /\ AllCovered(schema, chunk[w].rows)
    BY DEF SchemaInv, Shapes, RowsCovered
<1>2. ASSUME NEW i \in doing, ApplyBatch(i) PROVE IndexInv'
    <2> DEFINE b == written[i]
    <2>1. schema' = Ensure(schema, b) /\ chunk' = [chunk EXCEPT ![b.window] = Insert(@, b, schema')]
        BY <1>2 DEF ApplyBatch
    <2>2. IsBatch(b)
        BY DEF SchemaInv, Shapes, Items
    <2> HIDE DEF b
    <2>3. IsSeq(schema'.tags) /\ IsPrefix(schema.tags, schema'.tags)
        BY <1>1, <2>1, <2>2, EnsureExtends DEF Extends
    <2>4. ASSUME NEW w \in Windows PROVE Indexed(chunk'[w], schema'.tags)
        <3>1. Indexed(chunk[w], schema'.tags)
            BY <1>1, <2>3, IndexKeeps DEF IndexInv
        <3>2. chunk'[w] = IF w = b.window THEN Insert(chunk[w], b, schema') ELSE chunk[w]
            BY <1>1, <2>1
        <3>3. Indexed(Insert(chunk[w], b, schema'), schema'.tags)
            BY <1>1, <2>2, <2>3, <3>1, IndexInsert
        <3> QED
            BY <3>1, <3>2, <3>3
    <2> QED
        BY <2>4 DEF IndexInv
<1>3. CASE Handoff
    <2>1. ASSUME NEW w \in Windows PROVE Indexed(chunk'[w], schema.tags)
        <3>1. chunk'[w] = IF w \in snap.windows
                          THEN DrainChunk(chunk[w], Len(snap.rows[w]), schema.tags) ELSE chunk[w]
            BY <1>3 DEF Handoff
        <3>2. w \in snap.windows => Len(snap.rows[w]) \in Nat
            BY <1>3, SeqIs DEF SchemaInv, Shapes, Handoff
        <3> QED
            BY <1>1, <3>1, <3>2, IndexDrain DEF IndexInv
    <2> QED
        BY <1>3, <2>1 DEF IndexInv, Handoff
<1>4. CASE Restart
    <2>1. \A w \in Windows : chunk'[w] = NewChunk
        BY <1>4 DEF Restart
    <2> QED
        BY <2>1, NewIndexed DEF IndexInv
<1>5. ASSUME UNCHANGED <<schema, chunk>> PROVE IndexInv'
    BY <1>5 DEF IndexInv
<1>6. ASSUME NEW req \in Requests, Flush(req) PROVE IndexInv'
    BY <1>5, <1>6 DEF Flush
<1>7. ASSUME NEW n \in pending, ApplyBegin(n) PROVE IndexInv'
    BY <1>5, <1>7 DEF ApplyBegin
<1>8. CASE Collect \/ Clone \/ Serialize \/ Abandon \/ UNCHANGED vars
    BY <1>5, <1>8 DEF Collect, Clone, Serialize, Abandon, vars
<1> QED
    BY <1>2, <1>3, <1>4, <1>6, <1>7, <1>8, Zenon DEF Next

(* In every state and for whatever clients write, a tag filter gives only rows that have
   the tag, and every row that has it among as many tags as the schema had keys when the
   row came: the index follows the rows through inserts, new keys and handoffs.  Tags
   beyond that are not in the index. *)
THEOREM IndexIsExact == Spec => []IndexExact
<1>1. Init => IndexInv
    <2> SUFFICES ASSUME Init PROVE IndexInv
        OBVIOUS
    <2>1. \A w \in Windows : chunk[w] = NewChunk
        BY DEF Init
    <2> QED
        BY <2>1, NewIndexed DEF IndexInv
<1>2. SchemaInv /\ IndexInv => IndexExact
    <2> SUFFICES ASSUME SchemaInv, IndexInv, NEW w \in Windows
                 PROVE  LET rows == chunk[w].rows IN
                        /\ \A e \in chunk[w].index :
                              /\ e[3] \in DOMAIN rows
                              /\ \E i \in DOMAIN rows[e[3]].tags \cap DOMAIN schema.tags :
                                    e[1] = schema.tags[i] /\ e[2] = rows[e[3]].tags[i][2]
                        /\ \A k \in DOMAIN rows : \A i \in DOMAIN rows[k].tags \cap DOMAIN schema.tags :
                              i <= Len(rows[k].under.tags)
                                  => k \in Selected(chunk[w],
                                                    <<<<schema.tags[i], rows[k].tags[i][2]>>>>)
        BY DEF IndexExact
    <2> DEFINE c == chunk[w]
    <2>1. Indexed(c, schema.tags)
        BY DEF IndexInv
    <2> HIDE DEF c
    <2>2. ASSUME NEW key, NEW value, NEW k, <<key, value, k>> \in c.index
          PROVE  k \in Selected(c, <<<<key, value>>>>)
        <3> DEFINE e == <<key, value, k>>
        <3>1. e[1] = key /\ e[2] = value /\ e[3] = k
            OBVIOUS
        <3>2. k \in Candidates(c, key, value)
            BY <2>2, <3>1 DEF Candidates
        <3>3. <<<<key, value>>>> # << >> /\ <<<<key, value>>>>[1][1] = key
              /\ <<<<key, value>>>>[1][2] = value
            OBVIOUS
        <3> QED
            BY <3>2, <3>3 DEF Selected
    <2> QED
        BY <2>1, <2>2 DEF Indexed, c
<1> QED
    BY <1>1, <1>2, InitInv, StepInv, IndexStep, PTL DEF Spec

-----------------------------------------------------------------------------
(* The names of a schema, and what its types need: that batches are proper ones *)

(* A batch as BatchesOf makes it of a request. *)
Proper(b) ==
    /\ b.window \in Windows
    /\ IsSeq(b.rows) /\ b.rows # << >> /\ \A l \in Items(b.rows) : IsLine(l)
    /\ b.tags \in Seq(Names) /\ Unique(b.tags)
    /\ b.fields \in Seq(Names) /\ Unique(b.fields)

HasCells(r) == r.tags \in Seq(Cells) /\ r.fields \in Seq(Cells)

Typed(sch) ==
    /\ sch.tags \in Seq(Names) /\ Unique(sch.tags)
    /\ sch.fields \in Seq([name : Names, type : Types]) /\ Unique(FieldNamesOf(sch))

Formed ==
    /\ Typed(schema)
    /\ DOMAIN chunk = Windows
    /\ \A w \in Windows : chunk[w] = NewChunk \/ chunk[w].rows # << >>
    /\ pending \subseteq FilesWritten
    /\ snap.at \in {"idle", "collected", "cloned", "stored"} /\ snap.windows \subseteq Windows
    /\ restarts \in 0 .. MaxRestarts
    /\ \A b \in Items(written) : Proper(b)
    /\ \A w \in Windows : \A r \in Items(chunk[w].rows) : HasCells(r)
    /\ \A w \in DOMAIN snap.rows : \A r \in Items(snap.rows[w]) : HasCells(r)

LEMMA FirstsProper ==
    ASSUME NEW s \in Seq(Cells), \A i, j \in DOMAIN s : s[i][1] = s[j][1] => i = j
    PROVE  Firsts(s) \in Seq(Names) /\ Unique(Firsts(s))
<1>1. IsSeq(s)
    BY SeqIsSeq
<1>2. Len(s) \in Nat /\ DOMAIN s = 1 .. Len(s)
    BY <1>1, SeqIs
<1>3. DOMAIN Firsts(s) = 1 .. Len(s) /\ \A i \in 1 .. Len(s) : Firsts(s)[i] = s[i][1]
    BY <1>2 DEF Firsts
<1>4. \A i \in 1 .. Len(s) : s[i][1] \in Names
    BY <1>2, ElementOfSeq DEF Cells
<1>5. Firsts(s) = [i \in 1 .. Len(s) |-> s[i][1]]
    BY <1>2 DEF Firsts
<1> QED
    BY <1>2, <1>3, <1>4, <1>5 DEF Unique

(* A window of a request gets a proper batch. *)
LEMMA ProperBatch ==
    ASSUME NEW req \in Requests, NEW k \in DOMAIN req, NEW n
    PROVE  Proper(Batch(req, req[k].window, n))
<1> DEFINE w == req[k].window
           I == {i \in DOMAIN req : req[i].window = w}
           rows == Grow(<< >>, req, I)
<1>1. /\ IsSeq(req) /\ req # << >>
      /\ \A i \in DOMAIN req : IsLine(req[i])
    BY SchemaAssumption DEF IsSeq, Items
<1>2. Len(req) \in Nat /\ DOMAIN req = 1 .. Len(req) /\ 1 \in DOMAIN req
    <2>1. Len(req) \in Nat /\ DOMAIN req = 1 .. Len(req)
        BY <1>1, SeqIs
    <2>2. Len(req) # 0
        BY <1>1, EmptySeq DEF IsSeq
    <2> QED
        BY <2>1, <2>2
<1>3. FieldNames(req) \in Seq(Names) /\ Unique(FieldNames(req))
    BY <1>1, <1>2, FirstsProper DEF FieldNames, IsLine
<1>4. TagKeys(req) \in Seq(Names) /\ Unique(TagKeys(req))
    <2> DEFINE tagged == {i \in DOMAIN req : req[i].tags # << >>}
    <2>1. CASE tagged = {}
        BY <2>1 DEF TagKeys, Unique
    <2>2. CASE tagged # {}
        <3>1. Least(tagged) \in tagged
            <4>1. tagged \in SUBSET Nat
                BY <1>2
            <4> HIDE DEF tagged
            <4> QED
                BY <2>2, <4>1, LeastIn
        <3>2. IsLine(req[Least(tagged)])
            BY <1>1, <3>1
        <3>3. TagKeys(req) = Firsts(req[Least(tagged)].tags)
            BY <2>2 DEF TagKeys
        <3> HIDE DEF tagged
        <3> QED
            BY <3>2, <3>3, FirstsProper DEF IsLine
    <2> QED
        BY <2>1, <2>2
<1>5. I \in SUBSET Nat /\ IsFiniteSet(I) /\ k \in I /\ I \subseteq DOMAIN req
    <2>1. IsFiniteSet(1 .. Len(req))
        BY <1>2, FS_Interval
    <2>2. I \in SUBSET (1 .. Len(req)) /\ 1 .. Len(req) \subseteq Nat
        BY <1>2
    <2>3. k \in I
        OBVIOUS
    <2> HIDE DEF I
    <2>4. IsFiniteSet(I)
        BY <2>1, <2>2, FS_Subset, Zenon
    <2> QED
        BY <1>2, <2>2, <2>3, <2>4
<1> HIDE DEF I
<1>6. Cardinality(I) \in Nat /\ Cardinality(I) # 0
    BY <1>5, FS_CardinalityType, FS_EmptySet
<1>7. /\ DOMAIN rows = 1 .. Len(<< >>) + Cardinality(I)
      /\ \A i \in DOMAIN rows \ DOMAIN << >> : \E j \in I :
             rows[i] = req[j] /\ Cardinality(UpTo(I, j)) = i - Len(<< >>)
    <2>1. IsSeq(<< >>)
        BY EmptyIsSeq
    <2> DEFINE e == << >>
    <2>2. IsSeq(e) /\ rows = Grow(e, req, I)
        BY <2>1
    <2> HIDE DEF e, rows
    <2>3. /\ DOMAIN rows = 1 .. Len(e) + Cardinality(I)
          /\ \A i \in DOMAIN rows \ DOMAIN e : \E j \in I :
                 rows[i] = req[j] /\ Cardinality(UpTo(I, j)) = i - Len(e)
        BY <1>5, <2>2, GrowAdds
    <2> QED
        BY <2>3 DEF e
<1>8. IsSeq(rows)
    BY <1>6, EmptyIsSeq, GrowKeeps
<1> HIDE DEF rows
<1>9. DOMAIN rows = 1 .. Cardinality(I) /\ \A i \in DOMAIN rows : \E j \in I : rows[i] = req[j]
    <2>1. Len(<< >>) = 0 /\ DOMAIN << >> = {}
        OBVIOUS
    <2> QED
        BY <1>6, <1>7, <2>1
<1>10. rows # << >>
    BY <1>6, <1>9
<1>11. \A l \in Items(rows) : IsLine(l)
    BY <1>1, <1>5, <1>9 DEF Items
<1>12. /\ Batch(req, w, n).window = w /\ Batch(req, w, n).rows = rows
       /\ Batch(req, w, n).tags = TagKeys(req) /\ Batch(req, w, n).fields = FieldNames(req)
    BY DEF Batch, rows, I
<1>13. w \in Windows
    BY <1>1 DEF IsLine
<1> QED
    BY <1>3, <1>4, <1>8, <1>10, <1>11, <1>12, <1>13 DEF Proper

(* A request gives at least one batch, all of them proper and of its file. *)
LEMMA ProperBatches ==
    ASSUME NEW req \in Requests, NEW n
    PROVE  /\ \A b \in Items(BatchesOf(req, n)) : Proper(b) /\ b.file = n
           /\ Items(BatchesOf(req, n)) # {}
<1> DEFINE ws == {req[i].window : i \in DOMAIN req}
           f == [i \in DOMAIN req |-> req[i].window]
           N(k) == CHOOSE w \in ws : Cardinality({x \in ws : x <= w}) = k
           bs == [k \in 1 .. Cardinality(ws) |-> Batch(req, N(k), n)]
<1>1. IsSeq(req) /\ req # << >> /\ \A i \in DOMAIN req : IsLine(req[i])
    BY SchemaAssumption DEF IsSeq, Items
<1>2. Len(req) \in Nat /\ DOMAIN req = 1 .. Len(req) /\ 1 \in DOMAIN req
    <2>1. Len(req) \in Nat /\ DOMAIN req = 1 .. Len(req)
        BY <1>1, SeqIs
    <2>2. Len(req) # 0
        BY <1>1, EmptySeq DEF IsSeq
    <2> QED
        BY <2>1, <2>2
<1>3. IsFiniteSet(ws)
    <2>1. IsFiniteSet(DOMAIN req)
        BY <1>2, FS_Interval
    <2>2. f \in Surjection(DOMAIN req, ws)
        BY DEF Surjection
    <2> QED
        BY <2>1, <2>2, FS_Surjection, Zenon
<1>4. ws \in SUBSET Nat /\ req[1].window \in ws
    <2>1. \A i \in DOMAIN req : req[i].window \in Nat
        BY <1>1, SchemaAssumption DEF IsLine
    <2> QED
        BY <1>2, <2>1
<1>5. bs = BatchesOf(req, n) /\ DOMAIN bs = 1 .. Cardinality(ws)
    BY Zenon DEF BatchesOf
<1>6. ASSUME NEW k \in 1 .. Cardinality(ws)
      PROVE  Proper(bs[k]) /\ bs[k].file = n
    <2>1. \E w \in ws : Cardinality({x \in ws : x <= w}) = k
        <3> HIDE DEF ws
        <3> QED
            BY <1>3, <1>4, HasNth DEF UpTo
    <2>2. N(k) \in ws
        <3> HIDE DEF ws
        <3> QED
            BY <2>1
    <2>3. bs[k] = Batch(req, N(k), n)
        OBVIOUS
    <2> HIDE DEF N, bs
    <2>4. PICK i \in DOMAIN req : N(k) = req[i].window
        BY <2>2
    <2>5. bs[k].file = n
        BY <2>3 DEF Batch
    <2> QED
        BY <2>3, <2>4, <2>5, ProperBatch
<1>7. 1 \in 1 .. Cardinality(ws)
    <2> HIDE DEF ws
    <2>1. Cardinality(ws) \in Nat /\ Cardinality(ws) # 0
        BY <1>3, <1>4, FS_CardinalityType, FS_EmptySet
    <2> QED
        BY <2>1
<1> HIDE DEF bs, ws
<1> QED
    BY <1>5, <1>6, <1>7 DEF Items

(* The definitions a batch has for new fields: names of its own, types there are. *)
LEMMA DefsTyped ==
    ASSUME NEW b, Proper(b), NEW i \in DOMAIN FieldDefs(b)
    PROVE  /\ i \in DOMAIN b.fields
           /\ FieldDefs(b)[i].name = b.fields[i] /\ b.fields[i] \in Names
           /\ FieldDefs(b)[i] \in [name : Names, type : Types]
           /\ \E k \in DOMAIN b.rows : /\ i \in DOMAIN b.rows[k].fields
                                       /\ FieldDefs(b)[i].type = TypeOf[b.rows[k].fields[i][2]]
<1> DEFINE k == Least(Having(b, i))
<1>1. i \in DOMAIN b.fields /\ Having(b, i) # {}
    BY DEF FieldDefs
<1>2. FieldDefs(b)[i] = [name |-> b.fields[i], type |-> TypeOf[b.rows[k].fields[i][2]]]
    BY <1>1 DEF FieldDefs
<1>3. Having(b, i) \in SUBSET Nat
    BY SeqIs DEF Having, Proper
<1>4. k \in DOMAIN b.rows /\ i \in DOMAIN b.rows[k].fields
    BY <1>1, <1>3, LeastIn DEF Having
<1> HIDE DEF k
<1>5. b.fields[i] \in Names
    BY <1>1, ElementOfSeq, SeqIsSeq, SeqIs DEF Proper
<1>6. TypeOf[b.rows[k].fields[i][2]] \in Types
    <2>1. IsLine(b.rows[k])
        BY <1>4 DEF Proper, Items
    <2>2. b.rows[k].fields[i] \in Cells
        BY <1>4, <2>1, ElementOfSeq, SeqIsSeq, SeqIs DEF IsLine
    <2> QED
        BY <2>2, SchemaAssumption DEF Cells
<1> QED
    BY <1>1, <1>2, <1>4, <1>5, <1>6

(* The positions of a batch's names that the schema has not. *)
NewTags(sch, b) == {i \in DOMAIN b.tags : b.tags[i] \notin Items(sch.tags)}
NewFields(sch, b) == {i \in DOMAIN FieldDefs(b) : b.fields[i] \notin Items(FieldNamesOf(sch))}

LEMMA EnsureIs ==
    ASSUME NEW sch, NEW b
    PROVE  /\ Ensure(sch, b).tags = Grow(sch.tags, b.tags, NewTags(sch, b))
           /\ Ensure(sch, b).fields = Grow(sch.fields, FieldDefs(b), NewFields(sch, b))
<1>1. Ensure(sch, b) = [tags |-> Grow(sch.tags, b.tags, NewTags(sch, b)),
                        fields |-> Grow(sch.fields, FieldDefs(b), NewFields(sch, b))]
    BY Zenon DEF Ensure, NewTags, NewFields
<1> QED
    BY <1>1

LEMMA ProperIsBatch ==
    ASSUME NEW b, Proper(b)
    PROVE  IsBatch(b)
    BY SeqIsSeq DEF Proper, IsBatch

LEMMA NewFinite ==
    ASSUME NEW sch, NEW b, Proper(b)
    PROVE  /\ NewTags(sch, b) \in SUBSET Nat /\ IsFiniteSet(NewTags(sch, b))
           /\ NewTags(sch, b) \subseteq DOMAIN b.tags
           /\ NewFields(sch, b) \in SUBSET Nat /\ IsFiniteSet(NewFields(sch, b))
           /\ NewFields(sch, b) \subseteq DOMAIN FieldDefs(b)
           /\ NewFields(sch, b) \subseteq DOMAIN b.fields
<1>1. /\ NewTags(sch, b) \subseteq DOMAIN b.tags
      /\ NewFields(sch, b) \subseteq DOMAIN FieldDefs(b)
      /\ NewFields(sch, b) \subseteq DOMAIN b.fields
    BY DEF NewTags, NewFields, FieldDefs
<1>2. IsSeq(b.tags) /\ IsSeq(b.fields)
    BY ProperIsBatch DEF IsBatch
<1>3. /\ Len(b.tags) \in Nat /\ DOMAIN b.tags = 1 .. Len(b.tags)
      /\ Len(b.fields) \in Nat /\ DOMAIN b.fields = 1 .. Len(b.fields)
    BY <1>2, SeqIs
<1>4. IsFiniteSet(1 .. Len(b.tags)) /\ IsFiniteSet(1 .. Len(b.fields))
    BY <1>3, FS_Interval
<1>5. IsFiniteSet(NewTags(sch, b)) /\ IsFiniteSet(NewFields(sch, b))
    BY <1>1, <1>3, <1>4, FS_Subset, Zenon
<1> QED
    BY <1>1, <1>3, <1>5

(* A sequence grows with items of the set its own are from. *)
LEMMA GrowTyped ==
    ASSUME NEW S, NEW s \in Seq(S), NEW t, NEW I \in SUBSET Nat, IsFiniteSet(I),
           I \subseteq DOMAIN t, \A k \in I : t[k] \in S
    PROVE  Grow(s, t, I) \in Seq(S)
<1> DEFINE g == Grow(s, t, I)
           n == Len(s) + Cardinality(I)
<1>1. IsSeq(s) /\ Cardinality(I) \in Nat
    BY SeqIsSeq, FS_CardinalityType
<1>2. n \in Nat /\ DOMAIN s = 1 .. Len(s) /\ \A i \in DOMAIN s : s[i] \in S
    BY <1>1, SeqIs, ElementOfSeq
<1>3. DOMAIN g = 1 .. n /\ \A i \in DOMAIN g \ DOMAIN s : \E k \in I : g[i] = t[k]
    BY <1>1, GrowAdds
<1>4. IsSeq(g) /\ \A i \in DOMAIN s : g[i] = s[i]
    BY <1>1, GrowKeeps DEF IsPrefix
<1> HIDE DEF g
<1>5. Items(g) \subseteq S
    <2>1. \A i \in DOMAIN g : g[i] \in S
        BY <1>2, <1>3, <1>4
    <2> QED
        BY <2>1 DEF Items
<1>6. g \in Seq(S)
    BY <1>4, <1>5, SeqMonotonic, Zenon DEF IsSeq
<1> QED
    BY <1>6 DEF g

LEMMA NamesOf ==
    ASSUME NEW sch, IsSeq(sch.fields)
    PROVE  /\ IsSeq(FieldNamesOf(sch)) /\ Len(FieldNamesOf(sch)) = Len(sch.fields)
           /\ DOMAIN FieldNamesOf(sch) = DOMAIN sch.fields
           /\ \A i \in DOMAIN sch.fields : FieldNamesOf(sch)[i] = sch.fields[i].name
<1> DEFINE f == FieldNamesOf(sch)
<1>1. Len(sch.fields) \in Nat /\ DOMAIN sch.fields = 1 .. Len(sch.fields)
    BY SeqIs
<1>2. /\ f = [i \in 1 .. Len(sch.fields) |-> f[i]] /\ DOMAIN f = DOMAIN sch.fields
      /\ \A i \in DOMAIN sch.fields : f[i] = sch.fields[i].name
    BY <1>1 DEF FieldNamesOf
<1> HIDE DEF f
<1>3. IsSeq(f) /\ Len(f) = Len(sch.fields)
    BY <1>1, <1>2, SeqFrom
<1> QED
    BY <1>2, <1>3 DEF f

(* The names of the fields grow with the fields. *)
LEMMA NamesOfEnsure ==
    ASSUME NEW sch, IsSeq(sch.fields), NEW b, Proper(b)
    PROVE  FieldNamesOf(Ensure(sch, b)) = Grow(FieldNamesOf(sch), b.fields, NewFields(sch, b))
<1> DEFINE F == NewFields(sch, b)
           names == FieldNamesOf(sch)
           n == Len(sch.fields)
           g == Grow(sch.fields, FieldDefs(b), F)
           h == Grow(names, b.fields, F)
           nth(i) == CHOOSE k \in F : Cardinality({j \in F : j <= k}) = i - n
<1>1. /\ F \in SUBSET Nat /\ IsFiniteSet(F) /\ F \subseteq DOMAIN FieldDefs(b)
      /\ Cardinality(F) \in Nat
    BY NewFinite, FS_CardinalityType
<1>2. /\ IsSeq(names) /\ Len(names) = n /\ DOMAIN names = DOMAIN sch.fields
      /\ \A i \in DOMAIN sch.fields : names[i] = sch.fields[i].name
      /\ n \in Nat /\ DOMAIN sch.fields = 1 .. n
    BY NamesOf, SeqIs
<1> HIDE DEF F, names
<1>3. /\ g = [i \in 1 .. n + Cardinality(F) |->
                 IF i <= n THEN sch.fields[i] ELSE FieldDefs(b)[nth(i)]]
      /\ h = [i \in 1 .. n + Cardinality(F) |->
                 IF i <= n THEN names[i] ELSE b.fields[nth(i)]]
    BY <1>2 DEF Grow
<1>4. ASSUME NEW i \in 1 .. n + Cardinality(F), ~(i <= n)
      PROVE  nth(i) \in F
    <2>1. i - n \in 1 .. Cardinality(F)
        BY <1>1, <1>2, <1>4
    <2>2. \E k \in F : Cardinality({j \in F : j <= k}) = i - n
        BY <1>1, <2>1, HasNth DEF UpTo
    <2> QED
        BY <2>2
<1>5. \A k \in F : FieldDefs(b)[k].name = b.fields[k]
    BY <1>1, DefsTyped
<1> HIDE DEF nth, g, h, n
<1>6. DOMAIN g = 1 .. n + Cardinality(F) /\ DOMAIN h = DOMAIN g
    BY <1>3
<1>7. ASSUME NEW i \in DOMAIN g PROVE g[i].name = h[i]
    <2>1. CASE i <= n
        <3>1. i \in 1 .. n
            BY <1>1, <1>2, <1>6, <2>1
        <3> QED
            BY <1>2, <1>3, <1>6, <2>1, <3>1
    <2>2. CASE ~(i <= n)
        BY <1>3, <1>4, <1>5, <1>6, <2>2
    <2> QED
        BY <2>1, <2>2
<1>8. Ensure(sch, b).fields = g
    BY EnsureIs DEF g, F
<1>9. FieldNamesOf(Ensure(sch, b)) = [i \in DOMAIN g |-> g[i].name]
    BY <1>8 DEF FieldNamesOf
<1>10. h = [i \in DOMAIN h |-> h[i]]
    BY <1>3
<1>11. [i \in DOMAIN g |-> g[i].name] = [i \in DOMAIN h |-> h[i]]
    BY <1>6, <1>7
<1> QED
    BY <1>9, <1>10, <1>11 DEF h, names, F

(* ensure_tag_key and ensure_field give no name twice. *)
LEMMA EnsureTyped ==
    ASSUME NEW sch, Typed(sch), NEW b, Proper(b)
    PROVE  Typed(Ensure(sch, b))
<1> DEFINE new == Ensure(sch, b)
           T == NewTags(sch, b)
           F == NewFields(sch, b)
<1>1. /\ T \in SUBSET Nat /\ IsFiniteSet(T) /\ T \subseteq DOMAIN b.tags
      /\ F \in SUBSET Nat /\ IsFiniteSet(F) /\ F \subseteq DOMAIN FieldDefs(b)
      /\ F \subseteq DOMAIN b.fields
    BY NewFinite
<1>2. \A i \in T : b.tags[i] \notin Items(sch.tags)
    BY DEF NewTags
<1>3. \A i \in F : b.fields[i] \notin Items(FieldNamesOf(sch))
    BY DEF NewFields
<1> HIDE DEF T, F
<1>4. IsSeq(sch.tags) /\ IsSeq(sch.fields) /\ IsSeq(FieldNamesOf(sch))
    BY SeqIsSeq, NamesOf DEF Typed
<1>5. new.tags = Grow(sch.tags, b.tags, T) /\ new.fields = Grow(sch.fields, FieldDefs(b), F)
    BY EnsureIs DEF T, F
<1>6. FieldNamesOf(new) = Grow(FieldNamesOf(sch), b.fields, F)
    BY <1>4, NamesOfEnsure DEF F
<1> HIDE DEF new
<1>7. Unique(new.tags)
    <2>1. \A i, j \in T : b.tags[i] = b.tags[j] => i = j
        BY <1>1 DEF Proper, Unique
    <2> QED
        BY <1>1, <1>2, <1>4, <1>5, <2>1, GrowUnique DEF Typed
<1>8. Unique(FieldNamesOf(new))
    <2>1. \A i, j \in F : b.fields[i] = b.fields[j] => i = j
        BY <1>1 DEF Proper, Unique
    <2> QED
        BY <1>1, <1>3, <1>4, <1>6, <2>1, GrowUnique DEF Typed
<1>9. new.tags \in Seq(Names)
    <2>1. \A k \in T : b.tags[k] \in Names
        BY <1>1, SeqIs, SeqIsSeq, ElementOfSeq DEF Proper
    <2> QED
        BY <1>1, <1>5, <2>1, GrowTyped DEF Typed
<1>10. new.fields \in Seq([name : Names, type : Types])
    <2> DEFINE S == [name : Names, type : Types]
    <2>1. \A k \in F : FieldDefs(b)[k] \in S
        BY <1>1, DefsTyped
    <2>2. sch.fields \in Seq(S)
        BY DEF Typed
    <2> HIDE DEF S
    <2>3. new.fields \in Seq(S)
        BY <1>1, <1>5, <2>1, <2>2, GrowTyped
    <2> QED
        BY <2>3 DEF S
<1> QED
    BY <1>7, <1>8, <1>9, <1>10 DEF Typed, new

LEMMA ConcatItems ==
    ASSUME NEW s, IsSeq(s), NEW t, IsSeq(t)
    PROVE  /\ IsSeq(s \o t) /\ Len(s \o t) = Len(s) + Len(t)
           /\ Items(s \o t) = Items(s) \cup Items(t)
           /\ IsPrefix(s, s \o t)
<1> DEFINE all == Items(s) \cup Items(t)
           u == s \o t
<1>1. /\ Len(s) \in Nat /\ DOMAIN s = 1 .. Len(s)
      /\ Len(t) \in Nat /\ DOMAIN t = 1 .. Len(t)
    BY SeqIs
<1>2. s \in Seq(all) /\ t \in Seq(all)
    <2>1. Items(s) \subseteq all /\ Items(t) \subseteq all
        OBVIOUS
    <2> HIDE DEF all
    <2> QED
        BY <2>1, SeqMonotonic, Zenon DEF IsSeq
<1>3. /\ u \in Seq(all) /\ Len(u) = Len(s) + Len(t)
      /\ \A i \in 1 .. Len(s) + Len(t) : u[i] = IF i <= Len(s) THEN s[i] ELSE t[i - Len(s)]
    <2> HIDE DEF all
    <2> QED
        BY <1>2, ConcatProperties
<1>4. DOMAIN u = 1 .. Len(s) + Len(t)
    <2> HIDE DEF all, u
    <2> QED
        BY <1>3, LenProperties
<1> HIDE DEF all, u
<1>5. \A i \in DOMAIN s : i \in DOMAIN u /\ u[i] = s[i]
    BY <1>1, <1>3, <1>4
<1>6. ASSUME NEW i \in DOMAIN t PROVE Len(s) + i \in DOMAIN u /\ u[Len(s) + i] = t[i]
    <2>1. Len(s) + i \in 1 .. Len(s) + Len(t) /\ ~(Len(s) + i <= Len(s)) /\ (Len(s) + i) - Len(s) = i
        BY <1>1
    <2> QED
        BY <1>3, <1>4, <2>1
<1>7. ASSUME NEW i \in DOMAIN u
      PROVE  i \in DOMAIN s \/ (i - Len(s) \in DOMAIN t /\ u[i] = t[i - Len(s)])
    BY <1>1, <1>3, <1>4
<1>8. Items(u) = Items(s) \cup Items(t)
    <2>1. Items(u) \subseteq Items(s) \cup Items(t)
        BY <1>5, <1>7 DEF Items
    <2>2. Items(s) \subseteq Items(u) /\ Items(t) \subseteq Items(u)
        BY <1>5, <1>6 DEF Items
    <2> QED
        BY <2>1, <2>2
<1>9. IsPrefix(s, u) /\ IsSeq(u)
    BY <1>3, <1>5, SeqIsSeq DEF IsPrefix
<1> QED
    BY <1>3, <1>8, <1>9 DEF u

LEMMA InsertItems ==
    ASSUME NEW c, IsSeq(c.rows), NEW b, IsBatch(b), NEW sch
    PROVE  Items(Insert(c, b, sch).rows)
               = Items(c.rows) \cup {Stored(l, sch) : l \in Items(b.rows)}
<1> DEFINE new == [i \in DOMAIN b.rows |-> Stored(b.rows[i], sch)]
<1>1. Len(b.rows) \in Nat /\ DOMAIN b.rows = 1 .. Len(b.rows)
    BY SeqIs DEF IsBatch
<1>2. IsSeq(new)
    <2>1. new = [i \in 1 .. Len(b.rows) |-> new[i]]
        BY <1>1
    <2> HIDE DEF new
    <2> QED
        BY <1>1, <2>1, SeqFrom
<1>3. Insert(c, b, sch).rows = c.rows \o new
    BY DEF Insert
<1>4. Items(new) = {Stored(l, sch) : l \in Items(b.rows)}
    BY DEF Items
<1> HIDE DEF new
<1>5. Items(c.rows \o new) = Items(c.rows) \cup Items(new)
    BY <1>2, ConcatItems
<1> QED
    BY <1>3, <1>4, <1>5

LEMMA InsertSome ==
    ASSUME NEW c, IsSeq(c.rows), NEW b, IsBatch(b), b.rows # << >>, NEW sch
    PROVE  Insert(c, b, sch).rows # << >>
<1> DEFINE new == [i \in DOMAIN b.rows |-> Stored(b.rows[i], sch)]
<1>1. Len(b.rows) \in Nat /\ DOMAIN b.rows = 1 .. Len(b.rows) /\ Len(b.rows) # 0
    BY SeqIs, EmptySeq DEF IsBatch, IsSeq
<1>2. IsSeq(new) /\ Len(new) = Len(b.rows)
    <2>1. new = [i \in 1 .. Len(b.rows) |-> new[i]]
        BY <1>1
    <2> HIDE DEF new
    <2> QED
        BY <1>1, <2>1, SeqFrom
<1>3. Insert(c, b, sch).rows = c.rows \o new
    BY DEF Insert
<1> HIDE DEF new
<1>4. Len(c.rows \o new) = Len(c.rows) + Len(new) /\ Len(c.rows) \in Nat
    BY <1>2, ConcatItems, SeqIs
<1>5. Len(c.rows \o new) # 0
    <2> DEFINE all == c.rows \o new
    <2>1. Len(all) = Len(c.rows) + Len(new) /\ Len(c.rows) \in Nat
        BY <1>4
    <2> HIDE DEF all
    <2>2. \A p, q \in Nat : q # 0 => p + q # 0
        OBVIOUS
    <2>3. Len(new) \in Nat /\ Len(new) # 0
        BY <1>1, <1>2
    <2>4. Len(all) # 0
        BY <2>1, <2>2, <2>3, Zenon
    <2> QED
        BY <2>4 DEF all
<1> QED
    BY <1>3, <1>5

LEMMA DrainItems ==
    ASSUME NEW c, IsSeq(c.rows), NEW n \in Nat, NEW keys
    PROVE  /\ Items(DrainChunk(c, n, keys).rows) \subseteq Items(c.rows)
           /\ DrainChunk(c, n, keys) = NewChunk \/ DrainChunk(c, n, keys).rows # << >>
<1>1. CASE n >= Len(c.rows)
    BY <1>1, EmptyIsSeq DEF DrainChunk, NewChunk
<1>2. CASE ~(n >= Len(c.rows))
    <2> DEFINE left == SubSeq(c.rows, n + 1, Len(c.rows))
    <2>1. Len(c.rows) \in Nat /\ DOMAIN c.rows = 1 .. Len(c.rows)
        BY SeqIs
    <2>2. /\ DOMAIN left = 1 .. Len(c.rows) - n
          /\ \A k \in DOMAIN left : k + n \in DOMAIN c.rows /\ left[k] = c.rows[k + n]
        BY <1>2, <2>1
    <2>3. 1 \in DOMAIN left
        BY <1>2, <2>1, <2>2
    <2>4. DrainChunk(c, n, keys).rows = left
        BY <1>2 DEF DrainChunk
    <2> HIDE DEF left
    <2>5. left # << >>
        BY <2>3
    <2> QED
        BY <2>2, <2>4, <2>5 DEF Items
<1> QED
    BY <1>1, <1>2

-----------------------------------------------------------------------------
(* What TypeOK says, and that batches and rows are proper ones. *)
LEMMA FormedInit == Init => Formed
<1> SUFFICES ASSUME Init PROVE Formed
    OBVIOUS
<1>1. /\ schema = NoSchema /\ \A w \in Windows : chunk[w] = NewChunk
      /\ snap.at = "idle" /\ snap.windows = {} /\ DOMAIN snap.rows = {}
    BY DEF Init, NoCycle
<1>2. \A w \in Windows : Items(chunk[w].rows) = {}
    BY <1>1, EmptyIsSeq DEF NewChunk
<1>3. Items(written) = {}
    BY EmptyIsSeq DEF Init
<1>4. Typed(NoSchema)
    BY DEF Typed, NoSchema, FieldNamesOf, Unique
<1> QED
    BY <1>1, <1>2, <1>3, <1>4, SchemaAssumption DEF Init, Formed

LEMMA FormedTypes == Formed => TypeOK
<1>1. /\ DOMAIN FieldNamesOf(schema) = DOMAIN schema.fields
      /\ \A i \in DOMAIN schema.fields : FieldNamesOf(schema)[i] = schema.fields[i].name
    BY DEF FieldNamesOf
<1>2. Unique(FieldNamesOf(schema)) =>
          \A i, j \in DOMAIN schema.fields :
              schema.fields[i].name = schema.fields[j].name => i = j
    BY <1>1, Zenon DEF Unique
<1> QED
    BY <1>2 DEF Formed, Typed, Unique, TypeOK

LEMMA FormedFlush ==
    ASSUME SchemaInv, Formed, NEW req \in Requests, Flush(req)
    PROVE  Formed'
<1> DEFINE n == NextFile
           bs == BatchesOf(req, n)
<1>1. /\ written' = written \o bs /\ pending' = pending \cup {n}
      /\ UNCHANGED <<schema, chunk, snap, restarts>>
    BY DEF Flush
<1>2. IsSeq(written)
    BY DEF SchemaInv, Shapes
<1>3. IsSeq(bs) /\ (\A b \in Items(bs) : Proper(b) /\ b.file = n) /\ Items(bs) # {}
    BY BatchesOfRequest, ProperBatches
<1> HIDE DEF bs, n
<1>4. Items(written') = Items(written) \cup Items(bs)
    BY <1>1, <1>2, <1>3, ConcatItems
<1>5. \A b \in Items(written') : Proper(b)
    BY <1>3, <1>4 DEF Formed
<1>6. pending' \subseteq FilesWritten'
    <2>1. FilesWritten = {b.file : b \in Items(written)}
        BY DEF FilesWritten, Items
    <2>2. FilesWritten' = {b.file : b \in Items(written')}
        BY DEF FilesWritten, Items
    <2>3. pending \subseteq FilesWritten
        BY DEF Formed
    <2> QED
        BY <1>1, <1>3, <1>4, <2>1, <2>2, <2>3
<1>7. Typed(schema)'
    BY <1>1 DEF Typed, FieldNamesOf, Formed
<1> QED
    BY <1>1, <1>5, <1>6, <1>7 DEF Formed

LEMMA FormedApply ==
    ASSUME SchemaInv, Formed, NEW i \in doing, ApplyBatch(i)
    PROVE  Formed'
<1> DEFINE b == written[i]
<1>1. /\ schema' = Ensure(schema, b)
      /\ chunk' = [chunk EXCEPT ![b.window] = Insert(@, b, schema')]
      /\ UNCHANGED <<written, pending, snap, restarts>>
    BY DEF ApplyBatch
<1>2. Proper(b) /\ IsBatch(b) /\ b.rows # << >>
    <2>1. b \in Items(written)
        BY DEF SchemaInv, Shapes, Items
    <2> HIDE DEF b
    <2> QED
        BY <2>1, ProperIsBatch DEF Proper, Formed
<1> HIDE DEF b
<1>3. Typed(schema')
    BY <1>1, <1>2, EnsureTyped DEF Formed
<1>4. \A w \in Windows : IsSeq(chunk[w].rows)
    BY DEF SchemaInv, Shapes
<1>5. \A l \in Items(b.rows) : HasCells(Stored(l, schema'))
    BY <1>2 DEF Proper, IsLine, Stored, HasCells
<1>6. ASSUME NEW w \in Windows
      PROVE  /\ chunk'[w] = NewChunk \/ chunk'[w].rows # << >>
             /\ \A r \in Items(chunk'[w].rows) : HasCells(r)
    <2>1. /\ chunk[w] = NewChunk \/ chunk[w].rows # << >>
          /\ \A r \in Items(chunk[w].rows) : HasCells(r)
        BY DEF Formed
    <2>2. chunk'[w] = IF w = b.window THEN Insert(chunk[w], b, schema') ELSE chunk[w]
        BY <1>1 DEF Formed
    <2>3. Insert(chunk[w], b, schema').rows # << >>
        BY <1>2, <1>4, InsertSome
    <2>4. ASSUME NEW r \in Items(Insert(chunk[w], b, schema').rows) PROVE HasCells(r)
        <3>1. Items(Insert(chunk[w], b, schema').rows)
                  = Items(chunk[w].rows) \cup {Stored(l, schema') : l \in Items(b.rows)}
            BY <1>2, <1>4, InsertItems
        <3> QED
            BY <1>5, <2>1, <3>1
    <2> QED
        BY <2>1, <2>2, <2>3, <2>4
<1>7. DOMAIN chunk' = Windows
    BY <1>1 DEF Formed
<1>8. (pending \subseteq FilesWritten)'
    BY <1>1 DEF FilesWritten, Formed
<1> QED
    BY <1>1, <1>3, <1>6, <1>7, <1>8 DEF Formed

LEMMA FormedCycle ==
    ASSUME SchemaInv, Formed, Collect \/ Clone \/ Serialize \/ Abandon
    PROVE  Formed'
<1>1. UNCHANGED <<schema, chunk, written, pending, restarts>>
    BY DEF Collect, Clone, Serialize, Abandon
<1>2. /\ snap'.at \in {"idle", "collected", "cloned", "stored"} /\ snap'.windows \subseteq Windows
      /\ DOMAIN snap'.rows \subseteq Windows
      /\ \A w \in DOMAIN snap'.rows : \/ snap'.rows[w] = chunk[w].rows
                                      \/ w \in DOMAIN snap.rows /\ snap'.rows[w] = snap.rows[w]
    <2>0. /\ snap = [at |-> snap.at, windows |-> snap.windows, rows |-> snap.rows]
          /\ snap.windows \subseteq Windows /\ DOMAIN snap.rows \subseteq Windows
        BY DEF SchemaInv, Shapes
    <2>1. CASE Collect
        <3>1. PICK closed \in SUBSET Windows :
                  snap' = [NoCycle EXCEPT !.at = "collected", !.windows = closed]
            BY <2>1 DEF Collect
        <3>2. snap' = [at |-> "collected", windows |-> closed, rows |-> [w \in {} |-> << >>]]
            BY <3>1 DEF NoCycle
        <3> QED
            BY <3>2
    <2>2. CASE Clone
        <3>1. snap' = [at |-> "cloned", windows |-> snap.windows,
                       rows |-> [w \in snap.windows |-> chunk[w].rows]]
            BY <2>0, <2>2 DEF Clone
        <3> QED
            BY <2>0, <3>1
    <2>3. CASE Serialize
        <3>1. snap' = [at |-> "stored", windows |-> snap.windows, rows |-> snap.rows]
            BY <2>0, <2>3 DEF Serialize
        <3> QED
            BY <2>0, <3>1
    <2>4. CASE Abandon
        BY <2>4 DEF Abandon, NoCycle
    <2> QED
        BY <2>1, <2>2, <2>3, <2>4
<1>3. \A w \in DOMAIN snap'.rows : \A r \in Items(snap'.rows[w]) : HasCells(r)
    BY <1>2 DEF Formed
<1>4. (pending \subseteq FilesWritten)'
    BY <1>1 DEF FilesWritten, Formed
<1>5. Typed(schema)'
    BY <1>1 DEF Formed
<1> QED
    BY <1>1, <1>2, <1>3, <1>4, <1>5 DEF Formed

LEMMA FormedHandoff ==
    ASSUME SchemaInv, Formed, Handoff
    PROVE  Formed'
<1>1. /\ snap' = NoCycle /\ UNCHANGED <<schema, written, pending, restarts>>
      /\ DOMAIN chunk' = Windows
      /\ \A w \in Windows : chunk'[w] = IF w \in snap.windows
              THEN DrainChunk(chunk[w], Len(snap.rows[w]), schema.tags) ELSE chunk[w]
    BY DEF Handoff
<1>2. ASSUME NEW w \in Windows
      PROVE  /\ chunk'[w] = NewChunk \/ chunk'[w].rows # << >>
             /\ \A r \in Items(chunk'[w].rows) : HasCells(r)
    <2>1. /\ chunk[w] = NewChunk \/ chunk[w].rows # << >>
          /\ \A r \in Items(chunk[w].rows) : HasCells(r)
        BY DEF Formed
    <2>2. IsSeq(chunk[w].rows)
        BY DEF SchemaInv, Shapes
    <2>3. w \in snap.windows => Len(snap.rows[w]) \in Nat
        BY SeqIs DEF SchemaInv, Shapes, Handoff
    <2>4. CASE w \in snap.windows
        <3> DEFINE d == DrainChunk(chunk[w], Len(snap.rows[w]), schema.tags)
        <3>1. chunk'[w] = d
            BY <1>1, <2>4
        <3>2. Items(d.rows) \subseteq Items(chunk[w].rows) /\ (d = NewChunk \/ d.rows # << >>)
            BY <2>2, <2>3, <2>4, DrainItems
        <3> HIDE DEF d
        <3> QED
            BY <2>1, <3>1, <3>2
    <2>5. CASE w \notin snap.windows
        BY <1>1, <2>1, <2>5
    <2> QED
        BY <2>4, <2>5
<1>3. (pending \subseteq FilesWritten)' /\ Typed(schema)'
    BY <1>1 DEF FilesWritten, Formed
<1>4. snap'.at = "idle" /\ snap'.windows = {} /\ DOMAIN snap'.rows = {}
    BY <1>1 DEF NoCycle
<1> QED
    BY <1>1, <1>2, <1>3, <1>4 DEF Formed

LEMMA FormedRestart ==
    ASSUME SchemaInv, Formed, Restart
    PROVE  Formed'
<1>1. /\ restarts < MaxRestarts /\ restarts' = restarts + 1
      /\ schema' = NoSchema /\ snap' = NoCycle /\ pending' = {}
      /\ chunk' = [w \in Windows |-> NewChunk] /\ UNCHANGED written
    BY DEF Restart
<1>2. Typed(NoSchema)
    BY DEF Typed, NoSchema, FieldNamesOf, Unique
<1>3. \A w \in Windows : chunk'[w] = NewChunk /\ Items(chunk'[w].rows) = {}
    BY <1>1, EmptyIsSeq DEF NewChunk
<1>4. snap'.at = "idle" /\ snap'.windows = {} /\ DOMAIN snap'.rows = {}
    BY <1>1 DEF NoCycle
<1>5. restarts' \in 0 .. MaxRestarts
    BY <1>1, SchemaAssumption DEF Formed
<1> QED
    BY <1>1, <1>2, <1>3, <1>4, <1>5 DEF Formed

LEMMA FormedStep ==
    ASSUME SchemaInv, Formed, [Next]_vars
    PROVE  Formed'
<1>1. ASSUME NEW n \in pending, ApplyBegin(n) PROVE Formed'
    <2>1. pending' \subseteq pending /\ UNCHANGED <<schema, chunk, written, snap, restarts>>
        BY <1>1 DEF ApplyBegin
    <2>2. (pending \subseteq FilesWritten)' /\ Typed(schema)'
        BY <2>1 DEF FilesWritten, Formed
    <2> QED
        BY <2>1, <2>2 DEF Formed
<1>2. CASE UNCHANGED vars
    <2>1. UNCHANGED <<schema, chunk, written, pending, snap, restarts>>
        BY <1>2 DEF vars
    <2>2. (pending \subseteq FilesWritten)' /\ Typed(schema)'
        BY <2>1 DEF FilesWritten, Formed
    <2> QED
        BY <2>1, <2>2 DEF Formed
<1> QED
    BY <1>1, <1>2, FormedFlush, FormedApply, FormedCycle, FormedHandoff, FormedRestart, Zenon
       DEF Next

(* No name is twice in a schema, whatever clients write, and what the state is made of. *)
THEOREM TypesHold == Spec => []TypeOK
<1> QED
    BY FormedTypes, InitInv, StepInv, FormedInit, FormedStep, PTL DEF Spec

-----------------------------------------------------------------------------
(* Beginnings of sequences *)

LEMMA PrefixesOfOne ==
    ASSUME NEW s, IsSeq(s), NEW t, IsSeq(t), NEW u, IsPrefix(s, u), IsPrefix(t, u)
    PROVE  IsPrefix(s, t) \/ IsPrefix(t, s)
<1>1. /\ Len(s) \in Nat /\ DOMAIN s = 1 .. Len(s)
      /\ Len(t) \in Nat /\ DOMAIN t = 1 .. Len(t)
    BY SeqIs
<1>2. DOMAIN s \subseteq DOMAIN t \/ DOMAIN t \subseteq DOMAIN s
    BY <1>1
<1> QED
    BY <1>2 DEF IsPrefix

(* Positions with which all earlier ones are, are the first ones. *)
LEMMA FirstOnes ==
    ASSUME NEW n \in Nat, NEW D \in SUBSET (1 .. n), \A i \in D : \A j \in 1 .. n : j <= i => j \in D
    PROVE  \E m \in Nat : m <= n /\ D = 1 .. m
<1> DEFINE S == {j \in 1 .. n + 1 : j \notin D}
<1>1. S \in SUBSET Nat /\ n + 1 \in S
    OBVIOUS
<1>2. PICK p \in S : \A j \in S : p <= j
    <2> HIDE DEF S
    <2> QED
        BY <1>1, LeastIn
<1>3. p \in 1 .. n + 1 /\ p \notin D
    BY <1>2
<1>4. D = 1 .. p - 1
    <2>1. ASSUME NEW i \in D PROVE i \in 1 .. p - 1
        <3>1. p <= i => p \in 1 .. n
            BY <1>3
        <3>2. ~(p <= i)
            BY <1>3, <3>1
        <3> QED
            BY <1>3, <3>2
    <2>2. ASSUME NEW i \in 1 .. p - 1 PROVE i \in D
        BY <1>2, <1>3
    <2> QED
        BY <2>1, <2>2
<1>5. p - 1 \in Nat /\ p - 1 <= n
    BY <1>3
<1> QED
    BY <1>4, <1>5

(* A sequence that grows with the new ones of the first names of t follows t, if it did. *)
LEMMA GrowFollows ==
    ASSUME NEW s, IsSeq(s), NEW t, IsSeq(t), Unique(t), IsPrefix(s, t) \/ IsPrefix(t, s),
           NEW m \in Nat, m <= Len(t),
           NEW I, I = {i \in 1 .. m : t[i] \notin Items(s)}
    PROVE  /\ \A i \in 1 .. m : i \in DOMAIN Grow(s, t, I) /\ Grow(s, t, I)[i] = t[i]
           /\ IsPrefix(Grow(s, t, I), t) \/ IsPrefix(Grow(s, t, I), s)
<1> DEFINE n == Len(s)
           g == Grow(s, t, I)
<1>1. /\ n \in Nat /\ DOMAIN s = 1 .. n
      /\ Len(t) \in Nat /\ DOMAIN t = 1 .. Len(t)
    BY SeqIs
<1>2. I \in SUBSET Nat /\ I \subseteq 1 .. m /\ IsFiniteSet(I) /\ Cardinality(I) \in Nat
    <2>1. IsFiniteSet(1 .. m)
        BY FS_Interval
    <2>2. I \in SUBSET (1 .. m)
        OBVIOUS
    <2>3. IsFiniteSet(I) /\ Cardinality(I) \in Nat
        BY <2>1, <2>2, FS_Subset, FS_CardinalityType, Zenon
    <2> QED
        BY <2>2, <2>3
<1>3. IsSeq(g) /\ \A i \in 1 .. n : i \in DOMAIN g /\ g[i] = s[i]
    <2>1. IsSeq(g) /\ IsPrefix(s, g)
        BY <1>2, GrowKeeps
    <2> HIDE DEF g
    <2> QED
        BY <1>1, <2>1 DEF IsPrefix
<1>4. CASE I = {}
    <2>1. DOMAIN g = 1 .. n
        <3>1. Cardinality(I) = 0
            BY <1>4, FS_EmptySet
        <3>2. DOMAIN g = 1 .. n + Cardinality(I)
            BY DEF Grow
        <3> QED
            BY <1>1, <3>1, <3>2
    <2> HIDE DEF g
    <2>2. ASSUME NEW i \in 1 .. m PROVE i \in DOMAIN g /\ g[i] = t[i]
        <3>1. t[i] \in Items(s) /\ i \in DOMAIN t
            BY <1>1, <1>4
        <3>2. CASE IsPrefix(t, s)
            BY <1>1, <1>3, <3>1, <3>2 DEF IsPrefix
        <3>3. CASE IsPrefix(s, t)
            <4>1. PICK j \in DOMAIN s : t[i] = s[j]
                BY <3>1 DEF Items
            <4>2. j \in DOMAIN t /\ t[j] = t[i]
                BY <3>3, <4>1 DEF IsPrefix
            <4>3. j = i
                BY <3>1, <4>2 DEF Unique
            <4> QED
                BY <1>1, <1>3, <4>1, <4>3
        <3> QED
            BY <3>2, <3>3
    <2>3. IsPrefix(g, s)
        BY <1>1, <1>3, <2>1 DEF IsPrefix
    <2> QED
        BY <2>2, <2>3 DEF g
<1>5. CASE I # {}
    <2>1. PICK i \in 1 .. m : t[i] \notin Items(s)
        BY <1>5
    <2>2. i \in DOMAIN t
        BY <1>1
    <2>3. IsPrefix(s, t)
        BY <2>1, <2>2 DEF IsPrefix, Items
    <2>4. i \notin 1 .. n /\ n < m /\ n + 1 .. m \subseteq DOMAIN t
        BY <1>1, <2>1, <2>3 DEF IsPrefix, Items
    <2>5. I = n + 1 .. m
        <3>1. ASSUME NEW j \in 1 .. m PROVE t[j] \in Items(s) <=> j <= n
            <4>1. j \in DOMAIN t
                BY <1>1
            <4>2. ASSUME t[j] \in Items(s) PROVE j <= n
                <5>1. PICK k \in DOMAIN s : t[j] = s[k]
                    BY <4>2 DEF Items
                <5>2. k \in DOMAIN t /\ t[k] = t[j]
                    BY <2>3, <5>1 DEF IsPrefix
                <5>3. k = j
                    BY <4>1, <5>2 DEF Unique
                <5> QED
                    BY <1>1, <5>3
            <4>3. ASSUME j <= n PROVE t[j] \in Items(s)
                <5>1. j \in DOMAIN s
                    BY <1>1, <4>3
                <5> QED
                    BY <2>3, <5>1 DEF IsPrefix, Items
            <4> QED
                BY <4>2, <4>3
        <3>2. \A j : j \in n + 1 .. m <=> j \in 1 .. m /\ ~(j <= n)
            BY <1>1
        <3> QED
            BY <3>1, <3>2
    <2>6. DOMAIN g = 1 .. m /\ \A j \in n + 1 .. m : g[j] = t[j]
        <3>1. Len(s) <= m /\ (Len(s) + 1 .. m) \subseteq DOMAIN t
            BY <1>1, <2>4
        <3>2. /\ DOMAIN Grow(s, t, Len(s) + 1 .. m) = 1 .. m
              /\ \A j \in Len(s) + 1 .. m : Grow(s, t, Len(s) + 1 .. m)[j] = t[j]
            BY <3>1, GrowExact
        <3>3. g = Grow(s, t, Len(s) + 1 .. m)
            BY <2>5
        <3> HIDE DEF g
        <3> QED
            BY <3>2, <3>3
    <2> HIDE DEF g
    <2>7. ASSUME NEW j \in 1 .. m PROVE g[j] = t[j] /\ j \in DOMAIN t
        <3>1. j \in DOMAIN t
            BY <1>1
        <3>2. CASE j <= n
            <4>1. j \in DOMAIN s
                BY <1>1, <3>2
            <4> QED
                BY <1>1, <1>3, <2>3, <3>1, <4>1 DEF IsPrefix
        <3>3. CASE ~(j <= n)
            <4>1. j \in n + 1 .. m
                BY <1>1, <3>3
            <4> QED
                BY <2>6, <3>1, <4>1
        <3> QED
            BY <3>2, <3>3
    <2> QED
        BY <2>6, <2>7 DEF IsPrefix, g
<1> QED
    BY <1>4, <1>5

-----------------------------------------------------------------------------
(* One layout *)

(* What OneLayout says of two batches. *)
Agree(b, c) ==
    /\ IsPrefix(b.tags, c.tags) \/ IsPrefix(c.tags, b.tags)
    /\ IsPrefix(b.fields, c.fields) \/ IsPrefix(c.fields, b.fields)
    /\ \A k \in DOMAIN b.rows :
          /\ IsPrefix(Firsts(b.rows[k].tags), b.tags)
          /\ IsPrefix(Firsts(b.rows[k].fields), b.fields)
          /\ \A m \in DOMAIN c.rows : \A p \in Items(b.rows[k].fields), q \in Items(c.rows[m].fields) :
                p[1] = q[1] => TypeOf[p[2]] = TypeOf[q[2]]

(* The names a row came with are the first ones of a schema, and its fields have
   the types of it. *)
Suits(sch, r) ==
    /\ IsPrefix(Firsts(r.tags), sch.tags)
    /\ IsPrefix(Firsts(r.fields), FieldNamesOf(sch))
    /\ \A i \in DOMAIN r.fields : TypeOf[r.fields[i][2]] = sch.fields[i].type

(* A field that was written has the name and the type of a definition. *)
TypeSeen(def) ==
    \E b \in Items(written) : \E l \in Items(b.rows) : \E p \in Items(l.fields) :
        p[1] = def.name /\ TypeOf[p[2]] = def.type

(* What the file says is what the captured rows mean. *)
KeepsAll(f) ==
    {[time |-> r.time, cells |-> MeantInFile(r)] : r \in f.captured}
        = {[time |-> r.time, cells |-> FileReading(f.file, r)] : r \in f.file.rows}

Followed ==
    /\ schema.tags = << >> \/ \E b \in Items(written) : IsPrefix(schema.tags, b.tags)
    /\ schema.fields = << >> \/ \E b \in Items(written) : IsPrefix(FieldNamesOf(schema), b.fields)
    /\ \A def \in Items(schema.fields) : TypeSeen(def)

Laid ==
    /\ Followed
    /\ \A w \in Windows : \A r \in Items(chunk[w].rows) : Suits(schema, r)
    /\ \A w \in DOMAIN snap.rows : \A r \in Items(snap.rows[w]) : Suits(schema, r)
    /\ \A f \in files : KeepsAll(f)

ReadInv == OneLayout => Laid

LEMMA LayoutIs == OneLayout <=> \A b, c \in Items(written) : Agree(b, c)
<1>1. OneLayout <=> \A i, j \in DOMAIN written : Agree(written[i], written[j])
    BY Zenon DEF OneLayout, Agree
<1>2. (\A i, j \in DOMAIN written : Agree(written[i], written[j]))
          <=> \A b, c \in Items(written) : Agree(b, c)
    <2> HIDE DEF Agree
    <2> QED
        BY Zenon DEF Items
<1> QED
    BY <1>1, <1>2

(* A schema that follows the layout can be compared with every batch. *)
LEMMA Compares ==
    ASSUME OneLayout, Followed, IsSeq(schema.tags), IsSeq(schema.fields),
           NEW b \in Items(written), Proper(b)
    PROVE  /\ IsPrefix(schema.tags, b.tags) \/ IsPrefix(b.tags, schema.tags)
           /\ \/ IsPrefix(FieldNamesOf(schema), b.fields)
              \/ IsPrefix(b.fields, FieldNamesOf(schema))
<1>1. IsSeq(b.tags) /\ IsSeq(b.fields)
    BY ProperIsBatch DEF IsBatch
<1>2. \A c \in Items(written) : Agree(b, c)
    BY LayoutIs
<1>3. \A s : IsPrefix(<< >>, s)
    BY DEF IsPrefix
<1>4. IsPrefix(schema.tags, b.tags) \/ IsPrefix(b.tags, schema.tags)
    <2>1. CASE schema.tags = << >>
        BY <1>3, <2>1
    <2>2. ASSUME NEW c \in Items(written), IsPrefix(schema.tags, c.tags)
          PROVE  IsPrefix(schema.tags, b.tags) \/ IsPrefix(b.tags, schema.tags)
        <3>1. IsPrefix(b.tags, c.tags) \/ IsPrefix(c.tags, b.tags)
            BY <1>2 DEF Agree
        <3> QED
            BY <1>1, <2>2, <3>1, PrefixesOfOne, PrefixTransitive
    <2> QED
        BY <2>1, <2>2 DEF Followed
<1>5. \/ IsPrefix(FieldNamesOf(schema), b.fields)
      \/ IsPrefix(b.fields, FieldNamesOf(schema))
    <2> DEFINE names == FieldNamesOf(schema)
    <2>1. IsSeq(names)
        BY NamesOf
    <2>2. CASE schema.fields = << >>
        <3>1. FieldNamesOf(schema) = << >>
            BY <2>2 DEF FieldNamesOf
        <3> QED
            BY <1>3, <3>1
    <2>3. ASSUME NEW c \in Items(written), IsPrefix(names, c.fields)
          PROVE  IsPrefix(names, b.fields) \/ IsPrefix(b.fields, names)
        <3> HIDE DEF names
        <3>1. IsPrefix(b.fields, c.fields) \/ IsPrefix(c.fields, b.fields)
            BY <1>2 DEF Agree
        <3> QED
            BY <1>1, <2>1, <2>3, <3>1, PrefixesOfOne, PrefixTransitive
    <2> QED
        BY <2>2, <2>3 DEF Followed
<1> QED
    BY <1>4, <1>5

(* The fields that get a definition are the first ones of the batch, those of
   any of its rows among them. *)
LEMMA DefsFirst ==
    ASSUME NEW b, Proper(b), Agree(b, b)
    PROVE  /\ \E m \in Nat : m <= Len(b.fields) /\ DOMAIN FieldDefs(b) = 1 .. m
           /\ \A l \in Items(b.rows) : DOMAIN l.fields \subseteq DOMAIN FieldDefs(b)
<1>1. IsSeq(b.fields) /\ Len(b.fields) \in Nat /\ DOMAIN b.fields = 1 .. Len(b.fields)
    BY ProperIsBatch, SeqIs DEF IsBatch
<1>2. ASSUME NEW k \in DOMAIN b.rows
      PROVE  /\ DOMAIN b.rows[k].fields \subseteq DOMAIN b.fields
             /\ Len(b.rows[k].fields) \in Nat
             /\ DOMAIN b.rows[k].fields = 1 .. Len(b.rows[k].fields)
    <2>1. IsLine(b.rows[k])
        BY DEF Proper, Items
    <2>2. IsSeq(b.rows[k].fields)
        BY <2>1, SeqIsSeq DEF IsLine
    <2>3. IsPrefix(Firsts(b.rows[k].fields), b.fields)
        BY DEF Agree
    <2>4. DOMAIN b.rows[k].fields \subseteq DOMAIN b.fields
        BY <2>3 DEF IsPrefix, Firsts
    <2> QED
        BY <2>2, <2>4, SeqIs
<1>3. DOMAIN FieldDefs(b) = {j \in DOMAIN b.fields : Having(b, j) # {}}
    BY DEF FieldDefs
<1>4. \A j : j \in DOMAIN FieldDefs(b)
               <=> \E k \in DOMAIN b.rows : j \in DOMAIN b.rows[k].fields
    BY <1>2, <1>3 DEF Having
<1> DEFINE D == DOMAIN FieldDefs(b)
<1>5. D \subseteq 1 .. Len(b.fields)
    BY <1>1, <1>3
<1> HIDE DEF D
<1>6. ASSUME NEW i \in D, NEW j \in 1 .. Len(b.fields), j <= i PROVE j \in D
    <2>1. PICK k \in DOMAIN b.rows : i \in DOMAIN b.rows[k].fields
        BY <1>4 DEF D
    <2>2. j \in DOMAIN b.rows[k].fields
        BY <1>2, <1>6, <2>1
    <2> QED
        BY <1>4, <2>2 DEF D
<1>7. \E m \in Nat : m <= Len(b.fields) /\ D = 1 .. m
    BY <1>1, <1>5, <1>6, FirstOnes
<1>8. \A l \in Items(b.rows) : DOMAIN l.fields \subseteq D
    BY <1>4 DEF Items, D
<1> QED
    BY <1>7, <1>8 DEF D

(* The schema that has taken a batch follows the layout, and the batch's rows suit it. *)
LEMMA EnsureFollows ==
    ASSUME OneLayout, Followed, Typed(schema),
           NEW b \in Items(written), Proper(b),
           NEW new, new = Ensure(schema, b)
    PROVE  /\ IsPrefix(b.tags, new.tags)
           /\ \A i \in DOMAIN FieldDefs(b) : /\ i \in DOMAIN FieldNamesOf(new)
                                             /\ FieldNamesOf(new)[i] = b.fields[i]
           /\ IsPrefix(new.tags, b.tags) \/ IsPrefix(new.tags, schema.tags)
           /\ \/ IsPrefix(FieldNamesOf(new), b.fields)
              \/ IsPrefix(FieldNamesOf(new), FieldNamesOf(schema))
<1>1. IsSeq(schema.tags) /\ IsSeq(schema.fields) /\ IsSeq(FieldNamesOf(schema))
    BY SeqIsSeq, NamesOf DEF Typed
<1>2. /\ IsPrefix(schema.tags, b.tags) \/ IsPrefix(b.tags, schema.tags)
      /\ \/ IsPrefix(FieldNamesOf(schema), b.fields)
         \/ IsPrefix(b.fields, FieldNamesOf(schema))
    BY <1>1, Compares
<1>3. /\ IsSeq(b.tags) /\ Len(b.tags) \in Nat /\ DOMAIN b.tags = 1 .. Len(b.tags)
      /\ IsSeq(b.fields) /\ Unique(b.tags) /\ Unique(b.fields)
    BY ProperIsBatch, SeqIs DEF IsBatch, Proper
<1>4. IsPrefix(b.tags, new.tags) /\ (IsPrefix(new.tags, b.tags) \/ IsPrefix(new.tags, schema.tags))
    <2> DEFINE I == NewTags(schema, b)
               m == Len(b.tags)
    <2>1. I = {i \in 1 .. m : b.tags[i] \notin Items(schema.tags)}
        BY <1>3 DEF NewTags
    <2>2. new.tags = Grow(schema.tags, b.tags, I)
        BY EnsureIs
    <2> HIDE DEF I
    <2>3. m \in Nat /\ m <= Len(b.tags)
        BY <1>3
    <2>4. /\ \A i \in 1 .. m : i \in DOMAIN new.tags /\ new.tags[i] = b.tags[i]
          /\ IsPrefix(new.tags, b.tags) \/ IsPrefix(new.tags, schema.tags)
        <3> HIDE DEF m
        <3> QED
            BY <1>1, <1>2, <1>3, <2>1, <2>2, <2>3, GrowFollows
    <2> QED
        BY <1>3, <2>4 DEF IsPrefix
<1>5. /\ \A i \in DOMAIN FieldDefs(b) : /\ i \in DOMAIN FieldNamesOf(new)
                                        /\ FieldNamesOf(new)[i] = b.fields[i]
      /\ \/ IsPrefix(FieldNamesOf(new), b.fields)
         \/ IsPrefix(FieldNamesOf(new), FieldNamesOf(schema))
    <2> DEFINE I == NewFields(schema, b)
               names == FieldNamesOf(schema)
               more == FieldNamesOf(new)
    <2>1. Agree(b, b)
        BY LayoutIs
    <2>2. PICK m \in Nat : m <= Len(b.fields) /\ DOMAIN FieldDefs(b) = 1 .. m
        BY <2>1, DefsFirst
    <2>3. I = {i \in 1 .. m : b.fields[i] \notin Items(names)}
        BY <2>2 DEF NewFields
    <2>4. more = Grow(names, b.fields, I)
        BY <1>1, NamesOfEnsure
    <2>5. IsSeq(names) /\ (IsPrefix(names, b.fields) \/ IsPrefix(b.fields, names))
        BY <1>1, <1>2
    <2> HIDE DEF I, names, more
    <2>6. /\ \A i \in 1 .. m : i \in DOMAIN more /\ more[i] = b.fields[i]
          /\ IsPrefix(more, b.fields) \/ IsPrefix(more, names)
        BY <1>3, <2>2, <2>3, <2>4, <2>5, GrowFollows
    <2> QED
        BY <2>2, <2>6 DEF more, names
<1> QED
    BY <1>4, <1>5

(* A definition has been seen, and will have been. *)
LEMMA TypesSeen ==
    ASSUME OneLayout, Followed, Typed(schema),
           NEW b \in Items(written), Proper(b),
           NEW new, new = Ensure(schema, b), NEW def \in Items(new.fields)
    PROVE  TypeSeen(def)
<1>1. IsSeq(schema.fields)
    BY SeqIsSeq DEF Typed
<1>2. new.fields = Grow(schema.fields, FieldDefs(b), NewFields(schema, b))
    BY EnsureIs
<1>3. PICK i \in DOMAIN new.fields : def = new.fields[i]
    BY DEF Items
<1>4. CASE i \in DOMAIN schema.fields
    <2>1. IsPrefix(schema.fields, new.fields)
        BY <1>1, <1>2, GrowKeeps, NewFinite, FS_CardinalityType
    <2>2. def \in Items(schema.fields)
        BY <1>3, <1>4, <2>1 DEF IsPrefix, Items
    <2> QED
        BY <2>2 DEF Followed
<1>5. CASE i \notin DOMAIN schema.fields
    <2>1. /\ NewFields(schema, b) \in SUBSET Nat /\ IsFiniteSet(NewFields(schema, b))
          /\ NewFields(schema, b) \subseteq DOMAIN FieldDefs(b)
        BY NewFinite
    <2>2. PICK j \in NewFields(schema, b) : new.fields[i] = FieldDefs(b)[j]
        BY <1>1, <1>2, <1>3, <1>5, <2>1, GrowAdds
    <2>3. j \in DOMAIN FieldDefs(b)
        BY <2>1
    <2>4. /\ j \in DOMAIN b.fields /\ FieldDefs(b)[j].name = b.fields[j]
          /\ \E k \in DOMAIN b.rows : /\ j \in DOMAIN b.rows[k].fields
                                      /\ FieldDefs(b)[j].type = TypeOf[b.rows[k].fields[j][2]]
        BY <2>3, DefsTyped
    <2>5. PICK k \in DOMAIN b.rows : /\ j \in DOMAIN b.rows[k].fields
                                     /\ FieldDefs(b)[j].type = TypeOf[b.rows[k].fields[j][2]]
        BY <2>4
    <2> DEFINE p == b.rows[k].fields[j]
    <2>6. p[1] = b.fields[j]
        <3>1. IsPrefix(Firsts(b.rows[k].fields), b.fields)
            BY LayoutIs DEF Agree
        <3> QED
            BY <2>5, <3>1 DEF IsPrefix, Firsts
    <2>7. p \in Items(b.rows[k].fields) /\ b.rows[k] \in Items(b.rows)
        BY <2>5 DEF Items
    <2>8. p[1] = def.name /\ TypeOf[p[2]] = def.type
        BY <1>3, <2>2, <2>4, <2>5, <2>6
    <2> HIDE DEF p
    <2> QED
        BY <2>7, <2>8 DEF TypeSeen
<1> QED
    BY <1>4, <1>5

(* A row of the batch suits it, as it is stored. *)
LEMMA StoredSuits ==
    ASSUME OneLayout, Followed, Typed(schema),
           NEW b \in Items(written), Proper(b),
           NEW new, new = Ensure(schema, b), NEW l \in Items(b.rows)
    PROVE  Suits(new, Stored(l, new))
<1> DEFINE r == Stored(l, new)
<1>1. r.tags = l.tags /\ r.fields = l.fields
    BY DEF Stored
<1>2. PICK k \in DOMAIN b.rows : l = b.rows[k]
    BY DEF Items
<1> HIDE DEF r
<1>3. \A c \in Items(written) : Agree(b, c)
    BY LayoutIs
<1>4. IsPrefix(Firsts(l.tags), b.tags) /\ IsPrefix(Firsts(l.fields), b.fields)
    BY <1>2, <1>3 DEF Agree
<1>5. /\ IsPrefix(b.tags, new.tags)
      /\ \A i \in DOMAIN FieldDefs(b) : /\ i \in DOMAIN FieldNamesOf(new)
                                        /\ FieldNamesOf(new)[i] = b.fields[i]
    BY EnsureFollows
<1>6. DOMAIN l.fields \subseteq DOMAIN FieldDefs(b)
    BY <1>3, DefsFirst
<1>7. IsPrefix(Firsts(r.tags), new.tags)
    BY <1>1, <1>4, <1>5, PrefixTransitive
<1>8. IsPrefix(Firsts(r.fields), FieldNamesOf(new))
    BY <1>1, <1>4, <1>5, <1>6 DEF IsPrefix, Firsts
<1>9. ASSUME NEW i \in DOMAIN r.fields
      PROVE  TypeOf[r.fields[i][2]] = new.fields[i].type
    <2> DEFINE q == l.fields[i]
    <2>1. i \in DOMAIN FieldNamesOf(new) /\ FieldNamesOf(new)[i] = q[1]
        BY <1>1, <1>8 DEF IsPrefix, Firsts
    <2>2. i \in DOMAIN new.fields /\ new.fields[i].name = q[1]
        BY <2>1 DEF FieldNamesOf
    <2>3. q \in Items(b.rows[k].fields)
        BY <1>1, <1>2 DEF Items
    <2> HIDE DEF q
    <2>4. TypeSeen(new.fields[i])
        BY <2>2, TypesSeen DEF Items
    <2>5. PICK c \in Items(written) : \E x \in Items(c.rows) : \E p \in Items(x.fields) :
              p[1] = new.fields[i].name /\ TypeOf[p[2]] = new.fields[i].type
        BY <2>4 DEF TypeSeen
    <2>6. PICK m \in DOMAIN c.rows : \E p \in Items(c.rows[m].fields) :
              p[1] = new.fields[i].name /\ TypeOf[p[2]] = new.fields[i].type
        BY <2>5 DEF Items
    <2>7. PICK p \in Items(c.rows[m].fields) :
              p[1] = new.fields[i].name /\ TypeOf[p[2]] = new.fields[i].type
        BY <2>6
    <2>8. TypeOf[q[2]] = TypeOf[p[2]]
        BY <1>3, <2>2, <2>3, <2>7 DEF Agree
    <2> QED
        BY <1>1, <2>7, <2>8 DEF q
<1> QED
    BY <1>7, <1>8, <1>9 DEF Suits, r

LEMMA SuitsStays ==
    ASSUME NEW old, NEW new, Extends(old, new), NEW r, Suits(old, r)
    PROVE  Suits(new, r)
<1>1. IsPrefix(Firsts(r.tags), new.tags) /\ IsPrefix(Firsts(r.fields), FieldNamesOf(new))
    BY NamesGrow, PrefixTransitive, Zenon DEF Suits, Extends
<1>2. \A i \in DOMAIN r.fields : i \in DOMAIN old.fields
    BY DEF Suits, IsPrefix, Firsts, FieldNamesOf
<1>3. \A i \in DOMAIN old.fields : old.fields[i] = new.fields[i]
    BY DEF Extends, IsPrefix
<1> QED
    BY <1>1, <1>2, <1>3 DEF Suits

(* The cells of a row that suits a schema are those at its names. *)
LEMMA SuitsCells ==
    ASSUME NEW sch, NEW r, HasCells(r), Suits(sch, r)
    PROVE  /\ \A i \in DOMAIN r.tags : /\ i \in DOMAIN sch.tags
                                     /\ r.tags[i] = <<sch.tags[i], r.tags[i][2]>>
                                     /\ r.tags[i][1] = sch.tags[i]
           /\ \A i \in DOMAIN r.fields : /\ i \in DOMAIN sch.fields
                                       /\ r.fields[i] = <<sch.fields[i].name, r.fields[i][2]>>
                                       /\ r.fields[i][1] = sch.fields[i].name
                                       /\ Fits(sch.fields[i].type, r.fields[i][2])
<1>1. \A p \in Cells : p = <<p[1], p[2]>>
    BY DEF Cells
<1>2. /\ \A i \in DOMAIN r.tags : r.tags[i] \in Cells
      /\ \A i \in DOMAIN r.fields : r.fields[i] \in Cells
    BY SeqIsSeq, SeqIs, ElementOfSeq DEF HasCells
<1>3. \A i \in DOMAIN r.tags : i \in DOMAIN sch.tags /\ r.tags[i][1] = sch.tags[i]
    BY DEF Suits, IsPrefix, Firsts
<1>4. \A i \in DOMAIN r.fields : i \in DOMAIN sch.fields /\ r.fields[i][1] = sch.fields[i].name
    BY DEF Suits, IsPrefix, Firsts, FieldNamesOf
<1>5. \A i \in DOMAIN r.fields : Fits(sch.fields[i].type, r.fields[i][2])
    BY DEF Suits, Fits
<1>6. \A i \in DOMAIN r.tags : r.tags[i] = <<sch.tags[i], r.tags[i][2]>>
    BY <1>1, <1>2, <1>3
<1>7. \A i \in DOMAIN r.fields : r.fields[i] = <<sch.fields[i].name, r.fields[i][2]>>
    BY <1>1, <1>2, <1>4
<1> QED
    BY <1>3, <1>4, <1>5, <1>6, <1>7

(* Such a row says in the columns of a file what it means for one. *)
LEMMA ReadsBack ==
    ASSUME NEW sch, NEW r, HasCells(r), Suits(sch, r)
    PROVE  FileReading(InColumns(sch), r) = MeantInFile(r)
<1> DEFINE f == InColumns(sch)
           tags == {c \in Items(r.tags) : c[2] \notin Empty}
<1>1. DOMAIN f.tags = DOMAIN sch.tags /\ \A i \in DOMAIN f.tags : f.tags[i] = ColumnName[sch.tags[i]]
    BY DEF InColumns, Columns
<1>2. /\ DOMAIN f.fields = DOMAIN sch.fields
      /\ \A i \in DOMAIN f.fields : /\ f.fields[i].name = ColumnName[sch.fields[i].name]
                                  /\ f.fields[i].type = sch.fields[i].type
    BY DEF InColumns
<1> HIDE DEF f
<1>3. \A i \in DOMAIN r.tags : i \in DOMAIN f.tags /\ f.tags[i] = ColumnName[r.tags[i][1]]
    BY <1>1, SuitsCells
<1>4. \A i \in DOMAIN r.fields : /\ i \in DOMAIN f.fields
                               /\ f.fields[i].name = ColumnName[r.fields[i][1]]
                               /\ Fits(f.fields[i].type, r.fields[i][2])
    BY <1>2, SuitsCells
<1>5. {<<f.tags[i], r.tags[i][2]>> :
           i \in {k \in DOMAIN f.tags \cap DOMAIN r.tags : r.tags[k][2] \notin Empty}}
          = {<<ColumnName[c[1]], c[2]>> : c \in tags}
    BY <1>3 DEF Items
<1>6. {<<f.fields[i].name, r.fields[i][2]>> :
          i \in {k \in DOMAIN f.fields \cap DOMAIN r.fields :
                     Fits(f.fields[k].type, r.fields[k][2])}}
          = {<<ColumnName[c[1]], c[2]>> : c \in Items(r.fields)}
    BY <1>4 DEF Items
<1>7. MeantInFile(r) = {<<ColumnName[c[1]], c[2]>> : c \in tags}
                           \cup {<<ColumnName[c[1]], c[2]>> : c \in Items(r.fields)}
    BY DEF MeantInFile
<1> QED
    BY <1>5, <1>6, <1>7 DEF FileReading, f

(* And in the buffer what its line said. *)
LEMMA BufferReadsBack ==
    ASSUME NEW r, HasCells(r), Suits(schema, r)
    PROVE  BufferReading(r) = Meant(r)
<1>1. {<<schema.tags[i], r.tags[i][2]>> : i \in DOMAIN schema.tags \cap DOMAIN r.tags}
          = Items(r.tags)
    <2>1. \A i \in DOMAIN r.tags : /\ i \in DOMAIN schema.tags
                                  /\ r.tags[i] = <<schema.tags[i], r.tags[i][2]>>
        BY SuitsCells
    <2> QED
        BY <2>1 DEF Items
<1>2. {<<schema.fields[i].name, r.fields[i][2]>> :
           i \in DOMAIN schema.fields \cap DOMAIN r.fields} = Items(r.fields)
    <2>1. \A i \in DOMAIN r.fields : /\ i \in DOMAIN schema.fields
                                    /\ r.fields[i] = <<schema.fields[i].name, r.fields[i][2]>>
        BY SuitsCells
    <2> QED
        BY <2>1 DEF Items
<1> QED
    BY <1>1, <1>2 DEF BufferReading, Meant

(* Of rows that are the same one is left. *)
LEMMA DedupedKeeps ==
    ASSUME NEW rows, DOMAIN rows \subseteq Nat, \A w \in DOMAIN rows : IsSeq(rows[w]),
           NEW p \in Places(rows)
    PROVE  \E d \in Deduped(rows) : SameRow(d, At(rows, p))
<1> DEFINE S == {q \in Places(rows) : SameRow(At(rows, q), At(rows, p))}
           W == {w \in DOMAIN rows : \E k \in DOMAIN rows[w] : <<w, k>> \in S}
           w0 == Least(W)
           K == {k \in DOMAIN rows[w0] : <<w0, k>> \in S}
           k0 == Least(K)
           x == <<w0, k0>>
<1>1. ASSUME NEW q \in Places(rows)
      PROVE  q[1] \in DOMAIN rows /\ q[2] \in DOMAIN rows[q[1]] /\ q = <<q[1], q[2]>>
             /\ q[1] \in Nat /\ q[2] \in Nat
    <2>1. PICK w \in DOMAIN rows : \E k \in DOMAIN rows[w] : q = <<w, k>>
        BY DEF Places
    <2>2. PICK k \in DOMAIN rows[w] : q = <<w, k>>
        BY <2>1
    <2>3. q[1] = w /\ q[2] = k
        BY <2>2
    <2>4. DOMAIN rows[w] = 1 .. Len(rows[w])
        BY SeqIs
    <2>5. w \in Nat /\ k \in Nat
        BY <2>4
    <2> QED
        BY <2>2, <2>3, <2>5
<1>2. p \in S
    BY DEF SameRow
<1>3. S \subseteq Places(rows)
    OBVIOUS
<1>4. \A q \in S : SameRow(At(rows, q), At(rows, p))
    OBVIOUS
<1>5. \A q \in Places(rows) : SameRow(At(rows, q), At(rows, p)) => q \in S
    OBVIOUS
<1> HIDE DEF S
<1>6. w0 \in W /\ \A w \in W : w0 <= w
    <2>1. p[1] \in W /\ W \in SUBSET Nat
        BY <1>1, <1>2
    <2> HIDE DEF W
    <2> QED
        BY <2>1, LeastIn
<1>7. \A w : w \in W <=> w \in DOMAIN rows /\ \E k \in DOMAIN rows[w] : <<w, k>> \in S
    OBVIOUS
<1> HIDE DEF W, w0
<1>8. k0 \in K /\ \A k \in K : k0 <= k
    <2>1. DOMAIN rows[w0] = 1 .. Len(rows[w0])
        BY <1>6, <1>7, SeqIs
    <2>2. K \in SUBSET Nat
        BY <2>1
    <2>3. PICK k \in DOMAIN rows[w0] : <<w0, k>> \in S
        BY <1>6, <1>7
    <2>4. k \in K
        BY <2>3
    <2> HIDE DEF K
    <2> QED
        BY <2>2, <2>4, LeastIn
<1>9. x \in S /\ x[1] = w0 /\ x[2] = k0
    BY <1>8
<1>10. \A k : k \in K <=> k \in DOMAIN rows[w0] /\ <<w0, k>> \in S
    OBVIOUS
<1> HIDE DEF K, k0, x
<1>11. ASSUME NEW q \in S PROVE ~Before(q, x)
    <2>1. /\ q[1] \in DOMAIN rows /\ q[2] \in DOMAIN rows[q[1]] /\ q = <<q[1], q[2]>>
          /\ q[1] \in Nat /\ q[2] \in Nat /\ x[1] \in Nat /\ x[2] \in Nat
        BY <1>1, <1>3, <1>9
    <2>2. w0 <= q[1]
        BY <1>6, <1>7, <2>1
    <2>3. q[1] = w0 => k0 <= q[2]
        BY <1>8, <1>10, <2>1
    <2> QED
        BY <1>9, <2>1, <2>2, <2>3 DEF Before
<1>12. ASSUME NEW q \in Neighbours(rows, x) PROVE ~SameRow(At(rows, q), At(rows, x))
    <2>1. q \in Places(rows) /\ Before(q, x)
        BY DEF Neighbours
    <2>2. q \notin S
        BY <1>11, <2>1
    <2>3. SameRow(At(rows, x), At(rows, p))
        BY <1>4, <1>9
    <2> QED
        BY <1>5, <2>1, <2>2, <2>3 DEF SameRow
<1>13. At(rows, x) \in Deduped(rows)
    BY <1>3, <1>9, <1>12 DEF Deduped
<1> QED
    BY <1>4, <1>9, <1>13

(* Rows with one meaning for a file are read the same. *)
LEMMA SameMeant ==
    ASSUME NEW sch, NEW r, HasCells(r), Suits(sch, r), NEW s, HasCells(s), Suits(sch, s),
           SameRow(r, s)
    PROVE  r.time = s.time /\ MeantInFile(r) = MeantInFile(s)
<1>1. \A p \in Cells : p = <<p[1], p[2]>>
    BY DEF Cells
<1>2. /\ \A i \in DOMAIN r.tags : r.tags[i] \in Cells
      /\ \A i \in DOMAIN r.fields : r.fields[i] \in Cells
      /\ \A i \in DOMAIN s.tags : s.tags[i] \in Cells
      /\ \A i \in DOMAIN s.fields : s.fields[i] \in Cells
    BY SeqIsSeq, SeqIs, ElementOfSeq DEF HasCells
<1>3. /\ DOMAIN r.tags = DOMAIN s.tags /\ \A i \in DOMAIN r.tags : r.tags[i][2] = s.tags[i][2]
      /\ DOMAIN r.fields = DOMAIN s.fields
      /\ \A i \in DOMAIN r.fields : r.fields[i][2] = s.fields[i][2]
    <2>1. Seconds(r.tags) = Seconds(s.tags) /\ Seconds(r.fields) = Seconds(s.fields)
        BY DEF SameRow
    <2> QED
        BY <2>1 DEF Seconds
<1>4. /\ \A i \in DOMAIN r.tags : r.tags[i][1] = s.tags[i][1]
      /\ \A i \in DOMAIN r.fields : r.fields[i][1] = s.fields[i][1]
    <2>1. /\ \A i \in DOMAIN r.tags : r.tags[i][1] = sch.tags[i]
          /\ \A i \in DOMAIN r.fields : r.fields[i][1] = FieldNamesOf(sch)[i]
        BY DEF Suits, IsPrefix, Firsts
    <2>2. /\ \A i \in DOMAIN s.tags : s.tags[i][1] = sch.tags[i]
          /\ \A i \in DOMAIN s.fields : s.fields[i][1] = FieldNamesOf(sch)[i]
        BY DEF Suits, IsPrefix, Firsts
    <2> QED
        BY <1>3, <2>1, <2>2
<1>5. /\ \A i \in DOMAIN r.tags : r.tags[i] = s.tags[i]
      /\ \A i \in DOMAIN r.fields : r.fields[i] = s.fields[i]
    BY <1>1, <1>2, <1>3, <1>4
<1>6. Items(r.tags) = Items(s.tags) /\ Items(r.fields) = Items(s.fields)
    BY <1>3, <1>5 DEF Items
<1> QED
    BY <1>6 DEF MeantInFile, SameRow

(* A file of rows that suit the schema of it keeps all of them. *)
LEMMA FileKeepsAll ==
    ASSUME NEW rows, DOMAIN rows \subseteq Nat, \A w \in DOMAIN rows : IsSeq(rows[w]), NEW sch,
           \A w \in DOMAIN rows : \A r \in Items(rows[w]) : HasCells(r) /\ Suits(sch, r),
           NEW f, f.file = FileOf(rows, sch),
           f.captured = UNION {Items(rows[w]) : w \in DOMAIN rows}
    PROVE  KeepsAll(f)
<1>1. /\ f.file.tags = InColumns(sch).tags /\ f.file.fields = InColumns(sch).fields
      /\ f.file.rows = Deduped(rows)
    BY DEF FileOf, InColumns
<1>2. \A r : FileReading(f.file, r) = FileReading(InColumns(sch), r)
    BY <1>1 DEF FileReading
<1>3. \A r \in f.captured : HasCells(r) /\ Suits(sch, r) /\ FileReading(f.file, r) = MeantInFile(r)
    <2>1. \A r \in f.captured : HasCells(r) /\ Suits(sch, r)
        OBVIOUS
    <2> QED
        BY <1>2, <2>1, ReadsBack
<1>4. ASSUME NEW r \in Deduped(rows) PROVE r \in f.captured
    <2>1. PICK q \in Places(rows) : r = At(rows, q)
        BY DEF Deduped
    <2>2. PICK w \in DOMAIN rows : \E k \in DOMAIN rows[w] : q = <<w, k>>
        BY DEF Places
    <2>3. PICK k \in DOMAIN rows[w] : q = <<w, k>>
        BY <2>2
    <2>4. r = rows[w][k]
        BY <2>1, <2>3 DEF At
    <2> QED
        BY <2>4 DEF Items
<1>5. ASSUME NEW r \in f.captured
      PROVE  \E d \in Deduped(rows) : d.time = r.time /\ MeantInFile(d) = MeantInFile(r)
    <2>1. PICK w \in DOMAIN rows : r \in Items(rows[w])
        OBVIOUS
    <2>2. PICK k \in DOMAIN rows[w] : r = rows[w][k]
        BY <2>1 DEF Items
    <2> DEFINE p == <<w, k>>
    <2>3. p \in Places(rows) /\ At(rows, p) = r
        BY <2>2 DEF Places, At
    <2> HIDE DEF p
    <2>4. PICK d \in Deduped(rows) : SameRow(d, r)
        BY <2>3, DedupedKeeps
    <2>5. HasCells(d) /\ Suits(sch, d) /\ HasCells(r) /\ Suits(sch, r)
        BY <1>3, <1>4
    <2> QED
        BY <2>4, <2>5, SameMeant
<1> DEFINE A == {[time |-> r.time, cells |-> MeantInFile(r)] : r \in f.captured}
           B == {[time |-> r.time, cells |-> FileReading(f.file, r)] : r \in f.file.rows}
<1>6. A \subseteq B
    <2>1. ASSUME NEW r \in f.captured
          PROVE  \E d \in f.file.rows : d.time = r.time /\ FileReading(f.file, d) = MeantInFile(r)
        BY <1>1, <1>3, <1>4, <1>5
    <2>2. ASSUME NEW r \in f.captured
          PROVE  \E d \in f.file.rows : [time |-> r.time, cells |-> MeantInFile(r)]
                                            = [time |-> d.time, cells |-> FileReading(f.file, d)]
        BY <2>1
    <2> QED
        BY <2>2
<1>7. B \subseteq A
    <2>1. ASSUME NEW d \in f.file.rows
          PROVE  \E r \in f.captured : [time |-> r.time, cells |-> MeantInFile(r)]
                                           = [time |-> d.time, cells |-> FileReading(f.file, d)]
        BY <1>1, <1>3, <1>4
    <2> QED
        BY <2>1
<1> QED
    BY <1>6, <1>7 DEF KeepsAll

-----------------------------------------------------------------------------
LEMMA ReadFlush ==
    ASSUME SchemaInv, Formed, ReadInv, NEW req \in Requests, Flush(req)
    PROVE  ReadInv'
<1> DEFINE bs == BatchesOf(req, NextFile)
<1>1. written' = written \o bs /\ UNCHANGED <<schema, chunk, snap, files>>
    BY DEF Flush
<1>2. IsSeq(written) /\ IsSeq(bs)
    BY BatchesOfRequest DEF SchemaInv, Shapes
<1> HIDE DEF bs
<1>3. Items(written) \subseteq Items(written')
    BY <1>1, <1>2, ConcatItems
<1>4. OneLayout' => OneLayout
    <2>1. OneLayout' <=> \A b, c \in Items(written') : Agree(b, c)
        <3>1. (OneLayout <=> \A b, c \in Items(written) : Agree(b, c))'
            BY LayoutIs, PTL
        <3> QED
            BY <3>1
    <2> QED
        BY <1>3, <2>1, LayoutIs
<1>5. Laid => Laid'
    BY <1>1, <1>3 DEF Laid, Followed, TypeSeen
<1> QED
    BY <1>4, <1>5 DEF ReadInv

LEMMA ReadApply ==
    ASSUME SchemaInv, Formed, ReadInv, NEW i \in doing, ApplyBatch(i)
    PROVE  ReadInv'
<1> DEFINE b == written[i]
<1>1. /\ schema' = Ensure(schema, b)
      /\ chunk' = [chunk EXCEPT ![b.window] = Insert(@, b, schema')]
      /\ UNCHANGED <<written, snap, files>>
    BY DEF ApplyBatch
<1>2. b \in Items(written)
    BY DEF SchemaInv, Shapes, Items
<1> HIDE DEF b
<1>3. Proper(b) /\ IsBatch(b) /\ Typed(schema) /\ DOMAIN chunk = Windows
    BY <1>2, ProperIsBatch DEF Formed
<1>4. OneLayout' => OneLayout
    BY <1>1 DEF OneLayout
<1> SUFFICES ASSUME OneLayout PROVE Laid'
    BY <1>4 DEF ReadInv
<1>5. Laid /\ Followed
    BY DEF ReadInv, Laid
<1>6. Extends(schema, schema')
    BY <1>1, <1>3, EnsureExtends, SeqIsSeq DEF Typed
<1>7. Followed'
    <2>1. /\ IsPrefix(schema'.tags, b.tags) \/ IsPrefix(schema'.tags, schema.tags)
          /\ \/ IsPrefix(FieldNamesOf(schema'), b.fields)
             \/ IsPrefix(FieldNamesOf(schema'), FieldNamesOf(schema))
        BY <1>1, <1>2, <1>3, <1>5, EnsureFollows
    <2>2. \A s : IsPrefix(s, << >>) /\ IsSeq(s) => s = << >>
        BY SeqIs, EmptySeq DEF IsPrefix, IsSeq
    <2>3. IsSeq(schema'.tags) /\ IsSeq(schema'.fields)
        BY <1>1, <1>3, EnsureExtends, SeqIsSeq DEF Typed
    <2>4. schema'.tags = << >> \/ \E c \in Items(written) : IsPrefix(schema'.tags, c.tags)
        BY <1>2, <1>5, <2>1, <2>2, <2>3, PrefixTransitive DEF Followed
    <2>5. schema'.fields = << >>
              \/ \E c \in Items(written) : IsPrefix(FieldNamesOf(schema'), c.fields)
        <3>1. CASE schema.fields = << >>
            <4>1. FieldNamesOf(schema) = << >>
                BY <3>1 DEF FieldNamesOf
            <4>2. FieldNamesOf(schema') = << >> => schema'.fields = << >>
                BY <2>3, NamesOf, SeqIs, EmptySeq DEF IsSeq
            <4>3. IsSeq(FieldNamesOf(schema'))
                BY <2>3, NamesOf
            <4> QED
                BY <1>2, <2>1, <2>2, <4>1, <4>2, <4>3
        <3>2. CASE schema.fields # << >>
            BY <1>2, <1>5, <2>1, <3>2, PrefixTransitive DEF Followed
        <3> QED
            BY <3>1, <3>2
    <2>6. \A def \in Items(schema'.fields) : TypeSeen(def)
        BY <1>1, <1>2, <1>3, <1>5, TypesSeen
    <2>7. \A def : TypeSeen(def) => TypeSeen(def)'
        BY <1>1 DEF TypeSeen
    <2> QED
        BY <1>1, <2>4, <2>5, <2>6, <2>7 DEF Followed
<1>8. ASSUME NEW w \in Windows, NEW r \in Items(chunk'[w].rows) PROVE Suits(schema', r)
    <2>1. \A s \in Items(chunk[w].rows) : Suits(schema', s)
        BY <1>5, <1>6, SuitsStays DEF Laid
    <2>2. CASE w = b.window
        <3>1. chunk'[w] = Insert(chunk[w], b, schema')
            BY <1>1, <1>3, <2>2
        <3>2. IsSeq(chunk[w].rows) /\ b.rows # << >>
            BY <1>3 DEF SchemaInv, Shapes, Proper
        <3>3. Items(Insert(chunk[w], b, schema').rows)
                  = Items(chunk[w].rows) \cup {Stored(l, schema') : l \in Items(b.rows)}
            BY <1>3, <3>2, InsertItems
        <3>4. \A l \in Items(b.rows) : Suits(schema', Stored(l, schema'))
            BY <1>1, <1>2, <1>3, <1>5, StoredSuits
        <3> QED
            BY <2>1, <3>1, <3>3, <3>4
    <2>3. CASE w # b.window
        BY <1>1, <1>3, <2>1, <2>3
    <2> QED
        BY <2>2, <2>3
<1>9. \A w \in DOMAIN snap.rows : \A r \in Items(snap.rows[w]) : Suits(schema', r)
    BY <1>5, <1>6, SuitsStays DEF Laid
<1> QED
    BY <1>1, <1>5, <1>7, <1>8, <1>9 DEF Laid

(* A step that leaves the schema and what was written, and has no rows of its own. *)
LEMMA ReadFrame ==
    ASSUME ReadInv, UNCHANGED <<schema, written>>,
           \A w \in Windows : Items(chunk'[w].rows) \subseteq Items(chunk[w].rows),
           \A w \in DOMAIN snap'.rows : \/ w \in Windows /\ snap'.rows[w] = chunk[w].rows
                                        \/ w \in DOMAIN snap.rows /\ snap'.rows[w] = snap.rows[w],
           OneLayout /\ Laid => \A f \in files' : KeepsAll(f)
    PROVE  ReadInv'
<1>1. OneLayout' => OneLayout
    BY DEF OneLayout
<1> SUFFICES ASSUME OneLayout PROVE Laid'
    BY <1>1 DEF ReadInv
<1>2. Laid
    BY DEF ReadInv
<1>3. Followed'
    BY <1>2 DEF Laid, Followed, TypeSeen
<1>4. \A w \in Windows : \A r \in Items(chunk'[w].rows) : Suits(schema', r)
    BY <1>2 DEF Laid
<1>5. \A w \in DOMAIN snap'.rows : \A r \in Items(snap'.rows[w]) : Suits(schema', r)
    BY <1>2 DEF Laid
<1>6. \A f \in files' : KeepsAll(f)
    BY <1>2
<1> QED
    BY <1>3, <1>4, <1>5, <1>6 DEF Laid

LEMMA ReadSerialize ==
    ASSUME SchemaInv, Formed, ReadInv, Serialize
    PROVE  ReadInv'
<1> DEFINE new == [file |-> FileOf(snap.rows, schema), life |-> restarts,
                   captured |-> UNION {Items(snap.rows[w]) : w \in DOMAIN snap.rows}]
<1>1. /\ files' = files \cup {new} /\ snap' = [snap EXCEPT !.at = "stored"]
      /\ UNCHANGED <<schema, chunk, written>>
    BY DEF Serialize
<1>2. snap'.rows = snap.rows
    BY <1>1 DEF SchemaInv, Shapes
<1>3. DOMAIN snap.rows \subseteq Nat /\ \A w \in DOMAIN snap.rows : IsSeq(snap.rows[w])
    BY SchemaAssumption DEF SchemaInv, Shapes
<1>4. ASSUME Laid PROVE KeepsAll(new)
    <2>1. \A w \in DOMAIN snap.rows : \A r \in Items(snap.rows[w]) : HasCells(r) /\ Suits(schema, r)
        BY <1>4 DEF Laid, Formed
    <2>2. /\ new.file = FileOf(snap.rows, schema)
          /\ new.captured = UNION {Items(snap.rows[w]) : w \in DOMAIN snap.rows}
        OBVIOUS
    <2> HIDE DEF new
    <2> QED
        BY <1>3, <2>1, <2>2, FileKeepsAll
<1> HIDE DEF new
<1>5. OneLayout /\ Laid => \A f \in files' : KeepsAll(f)
    BY <1>1, <1>4 DEF Laid
<1> QED
    BY <1>1, <1>2, <1>5, ReadFrame

LEMMA ReadCycle ==
    ASSUME SchemaInv, Formed, ReadInv, Collect \/ Clone \/ Abandon
    PROVE  ReadInv'
<1>1. UNCHANGED <<schema, chunk, written, files>>
    BY DEF Collect, Clone, Abandon
<1>2. \A w \in DOMAIN snap'.rows : w \in Windows /\ snap'.rows[w] = chunk[w].rows
    <2>0. /\ snap = [at |-> snap.at, windows |-> snap.windows, rows |-> snap.rows]
          /\ snap.windows \subseteq Windows
        BY DEF SchemaInv, Shapes
    <2>1. CASE Collect
        <3>1. PICK closed \in SUBSET Windows :
                  snap' = [NoCycle EXCEPT !.at = "collected", !.windows = closed]
            BY <2>1 DEF Collect
        <3>2. snap' = [at |-> "collected", windows |-> closed, rows |-> [w \in {} |-> << >>]]
            BY <3>1 DEF NoCycle
        <3> QED
            BY <3>2
    <2>2. CASE Clone
        <3>1. snap' = [at |-> "cloned", windows |-> snap.windows,
                       rows |-> [w \in snap.windows |-> chunk[w].rows]]
            BY <2>0, <2>2 DEF Clone
        <3> QED
            BY <2>0, <3>1
    <2>3. CASE Abandon
        BY <2>3 DEF Abandon, NoCycle
    <2> QED
        BY <2>1, <2>2, <2>3
<1>3. OneLayout /\ Laid => \A f \in files' : KeepsAll(f)
    BY <1>1 DEF Laid
<1> QED
    BY <1>1, <1>2, <1>3, ReadFrame

LEMMA ReadHandoff ==
    ASSUME SchemaInv, Formed, ReadInv, Handoff
    PROVE  ReadInv'
<1>1. /\ snap' = NoCycle /\ UNCHANGED <<schema, written, files>>
      /\ \A w \in Windows : chunk'[w] = IF w \in snap.windows
              THEN DrainChunk(chunk[w], Len(snap.rows[w]), schema.tags) ELSE chunk[w]
    BY DEF Handoff
<1>2. ASSUME NEW w \in Windows PROVE Items(chunk'[w].rows) \subseteq Items(chunk[w].rows)
    <2>1. IsSeq(chunk[w].rows)
        BY DEF SchemaInv, Shapes
    <2>2. w \in snap.windows => Len(snap.rows[w]) \in Nat
        BY SeqIs DEF SchemaInv, Shapes, Handoff
    <2> QED
        BY <1>1, <2>1, <2>2, DrainItems
<1>3. DOMAIN snap'.rows = {}
    BY <1>1 DEF NoCycle
<1>4. OneLayout /\ Laid => \A f \in files' : KeepsAll(f)
    BY <1>1 DEF Laid
<1> QED
    BY <1>1, <1>2, <1>3, <1>4, ReadFrame

LEMMA ReadRestart ==
    ASSUME SchemaInv, Formed, ReadInv, Restart
    PROVE  ReadInv'
<1>1. /\ schema' = NoSchema /\ snap' = NoCycle /\ chunk' = [w \in Windows |-> NewChunk]
      /\ UNCHANGED <<written, files>>
    BY DEF Restart
<1>2. OneLayout' => OneLayout
    BY <1>1 DEF OneLayout
<1> SUFFICES ASSUME OneLayout PROVE Laid'
    BY <1>2 DEF ReadInv
<1>3. Laid
    BY DEF ReadInv
<1>4. schema'.tags = << >> /\ schema'.fields = << >> /\ Items(schema'.fields) = {}
    BY <1>1, EmptyIsSeq DEF NoSchema
<1>5. Followed'
    BY <1>4 DEF Followed
<1>6. \A w \in Windows : Items(chunk'[w].rows) = {}
    BY <1>1, EmptyIsSeq DEF NewChunk
<1>7. DOMAIN snap'.rows = {}
    BY <1>1 DEF NoCycle
<1> QED
    BY <1>1, <1>3, <1>5, <1>6, <1>7 DEF Laid

LEMMA ReadStep ==
    ASSUME SchemaInv, Formed, ReadInv, [Next]_vars
    PROVE  ReadInv'
<1>1. ASSUME UNCHANGED <<schema, chunk, written, snap, files>> PROVE ReadInv'
    <2>1. OneLayout /\ Laid => \A f \in files' : KeepsAll(f)
        BY <1>1 DEF Laid
    <2>2. \A w \in DOMAIN snap.rows : w \in Windows
        BY DEF SchemaInv, Shapes
    <2> QED
        BY <1>1, <2>1, <2>2, ReadFrame
<1>2. ASSUME NEW n \in pending, ApplyBegin(n) PROVE ReadInv'
    BY <1>1, <1>2 DEF ApplyBegin
<1>3. CASE UNCHANGED vars
    BY <1>1, <1>3 DEF vars
<1> QED
    BY <1>2, <1>3, ReadFlush, ReadApply, ReadSerialize, ReadCycle, ReadHandoff, ReadRestart, Zenon
       DEF Next

LEMMA ReadInit == Init => ReadInv
<1> SUFFICES ASSUME Init PROVE Laid
    BY DEF ReadInv
<1>1. schema.tags = << >> /\ schema.fields = << >> /\ Items(schema.fields) = {}
    BY EmptyIsSeq DEF Init, NoSchema
<1>2. \A w \in Windows : Items(chunk[w].rows) = {}
    BY EmptyIsSeq DEF Init, NewChunk
<1>3. DOMAIN snap.rows = {} /\ files = {}
    BY DEF Init, NoCycle
<1> QED
    BY <1>1, <1>2, <1>3 DEF Laid, Followed

-----------------------------------------------------------------------------
(* One column for each name *)

(* The names of the schema are written ones, and so the files' columns differ. *)
Named ==
    /\ Items(schema.tags) \subseteq TagNames
    /\ Items(FieldNamesOf(schema)) \subseteq FieldsNamed

NameInv == Named /\ (OneColumnEach => \A f \in files : ColumnsDiffer(f.file))

LEMMA NamesWritten ==
    /\ TagNames = UNION {Items(b.tags) : b \in Items(written)}
    /\ FieldsNamed = UNION {Items(b.fields) : b \in Items(written)}
    BY DEF TagNames, FieldsNamed, Items

(* A sequence that grew has no items but its own and those it grew by. *)
LEMMA GrowItems ==
    ASSUME NEW s, IsSeq(s), NEW t, NEW I \in SUBSET Nat, IsFiniteSet(I), I \subseteq DOMAIN t
    PROVE  Items(Grow(s, t, I)) \subseteq Items(s) \cup Items(t)
<1> DEFINE g == Grow(s, t, I)
<1>1. \A i \in DOMAIN g \ DOMAIN s : \E k \in I : g[i] = t[k]
    BY GrowAdds
<1>2. \A i \in DOMAIN s : g[i] = s[i]
    BY GrowKeeps, FS_CardinalityType DEF IsPrefix
<1> HIDE DEF g
<1>3. \A i \in DOMAIN g : g[i] \in Items(s) \cup Items(t)
    BY <1>1, <1>2 DEF Items
<1>4. Items(g) \subseteq Items(s) \cup Items(t)
    BY <1>3 DEF Items
<1> QED
    BY <1>4 DEF g

LEMMA FileDiffers ==
    ASSUME Typed(schema), Named, OneColumnEach, NEW rows
    PROVE  ColumnsDiffer(FileOf(rows, schema))
<1> DEFINE f == FileOf(rows, schema)
           tag(i) == schema.tags[i]
           name(i) == schema.fields[i].name
<1>1. /\ DOMAIN f.tags = DOMAIN schema.tags
      /\ \A i \in DOMAIN f.tags : f.tags[i] = ColumnName[tag(i)]
    BY DEF FileOf, Columns
<1>2. /\ DOMAIN f.fields = DOMAIN schema.fields
      /\ \A i \in DOMAIN f.fields : f.fields[i].name = ColumnName[name(i)]
    BY DEF FileOf
<1>3. \A i \in DOMAIN schema.tags : tag(i) \in TagNames
    BY DEF Named, Items
<1>4. \A i \in DOMAIN schema.fields : name(i) \in FieldsNamed
    BY DEF Named, Items, FieldNamesOf
<1>5. /\ \A i, j \in DOMAIN schema.tags : tag(i) = tag(j) => i = j
      /\ \A i, j \in DOMAIN schema.fields : name(i) = name(j) => i = j
    BY DEF Typed, Unique, FieldNamesOf
<1> HIDE DEF f, tag, name
<1>6. /\ TagNames \cap FieldsNamed = {}
      /\ \A n \in TagNames \cup FieldsNamed :
            /\ ColumnName[n] # "time"
            /\ \A m \in TagNames \cup FieldsNamed : ColumnName[m] = ColumnName[n] => m = n
    BY DEF OneColumnEach
<1>7. \A i, j \in DOMAIN f.tags : f.tags[i] = f.tags[j] => i = j
    BY <1>1, <1>3, <1>5, <1>6
<1>8. \A i, j \in DOMAIN f.fields : f.fields[i].name = f.fields[j].name => i = j
    BY <1>2, <1>4, <1>5, <1>6
<1>9. \A i \in DOMAIN f.tags, j \in DOMAIN f.fields : f.tags[i] # f.fields[j].name
    BY <1>1, <1>2, <1>3, <1>4, <1>6
<1>10. "time" \notin Items(f.tags) \cup Items(FieldNamesOf(f))
    <2>1. \A i \in DOMAIN f.tags : f.tags[i] # "time"
        BY <1>1, <1>3, <1>6
    <2>2. \A i \in DOMAIN f.fields : f.fields[i].name # "time"
        BY <1>2, <1>4, <1>6
    <2>3. "time" \notin Items(f.tags)
        BY <2>1, Zenon DEF Items
    <2>4. "time" \notin Items(FieldNamesOf(f))
        BY <2>2 DEF Items, FieldNamesOf
    <2> QED
        BY <2>3, <2>4
<1>11. ColumnsDiffer(f)
    BY <1>7, <1>8, <1>9, <1>10 DEF ColumnsDiffer
<1> QED
    BY <1>11 DEF f

(* A step that writes nothing away, and leaves the schema or clears it. *)
LEMMA NameFrame ==
    ASSUME NameInv, Items(written) \subseteq Items(written'),
           schema' = schema \/ schema' = NoSchema,
           \A f \in files' : f \in files \/ (OneColumnEach => ColumnsDiffer(f.file))
    PROVE  NameInv'
<1>1. TagNames \subseteq TagNames' /\ FieldsNamed \subseteq FieldsNamed'
    <2>1. /\ TagNames' = UNION {Items(b.tags) : b \in Items(written')}
          /\ FieldsNamed' = UNION {Items(b.fields) : b \in Items(written')}
        BY DEF TagNames, FieldsNamed, Items
    <2> QED
        BY <2>1, NamesWritten
<1>2. Named'
    <2>1. CASE schema' = schema
        BY <1>1, <2>1 DEF NameInv, Named
    <2>2. CASE schema' = NoSchema
        <3>1. Items(schema'.tags) = {} /\ Items(FieldNamesOf(schema')) = {}
            BY <2>2 DEF NoSchema, FieldNamesOf, Items
        <3> QED
            BY <3>1 DEF Named
    <2> QED
        BY <2>1, <2>2
<1>3. OneColumnEach' => OneColumnEach
    BY <1>1 DEF OneColumnEach
<1>4. OneColumnEach' => \A f \in files' : ColumnsDiffer(f.file)
    BY <1>3 DEF NameInv
<1> QED
    BY <1>2, <1>4 DEF NameInv

LEMMA NameApply ==
    ASSUME SchemaInv, Formed, NameInv, NEW i \in doing, ApplyBatch(i)
    PROVE  NameInv'
<1> DEFINE b == written[i]
           T == NewTags(schema, b)
           F == NewFields(schema, b)
<1>1. schema' = Ensure(schema, b) /\ UNCHANGED <<written, files>>
    BY DEF ApplyBatch
<1>2. b \in Items(written) /\ IsSeq(schema.fields) /\ IsSeq(schema.tags)
    BY DEF SchemaInv, Shapes, Items
<1> HIDE DEF b
<1>3. Proper(b)
    BY <1>2 DEF Formed
<1>4. /\ T \in SUBSET Nat /\ IsFiniteSet(T) /\ T \subseteq DOMAIN b.tags
      /\ F \in SUBSET Nat /\ IsFiniteSet(F) /\ F \subseteq DOMAIN b.fields
    BY <1>3, NewFinite
<1>5. schema'.tags = Grow(schema.tags, b.tags, T)
    BY <1>1, EnsureIs
<1>6. FieldNamesOf(schema') = Grow(FieldNamesOf(schema), b.fields, F)
    BY <1>1, <1>2, <1>3, NamesOfEnsure
<1> HIDE DEF T, F
<1>7. Items(schema'.tags) \subseteq Items(schema.tags) \cup Items(b.tags)
    BY <1>2, <1>4, <1>5, GrowItems
<1>8. Items(FieldNamesOf(schema')) \subseteq Items(FieldNamesOf(schema)) \cup Items(b.fields)
    <2>1. IsSeq(FieldNamesOf(schema))
        BY <1>2, NamesOf
    <2> QED
        BY <1>4, <1>6, <2>1, GrowItems
<1>9. Items(b.tags) \subseteq TagNames /\ Items(b.fields) \subseteq FieldsNamed
    BY <1>2, NamesWritten
<1>10. TagNames' = TagNames /\ FieldsNamed' = FieldsNamed
    BY <1>1 DEF TagNames, FieldsNamed
<1>11. Named'
    BY <1>7, <1>8, <1>9, <1>10 DEF NameInv, Named
<1>12. OneColumnEach' = OneColumnEach
    BY <1>10 DEF OneColumnEach
<1> QED
    BY <1>1, <1>11, <1>12 DEF NameInv

LEMMA NameStep ==
    ASSUME SchemaInv, Formed, NameInv, [Next]_vars
    PROVE  NameInv'
<1>1. ASSUME UNCHANGED <<schema, written, files>> PROVE NameInv'
    BY <1>1, NameFrame
<1>2. ASSUME NEW req \in Requests, Flush(req) PROVE NameInv'
    <2> DEFINE bs == BatchesOf(req, NextFile)
    <2>1. written' = written \o bs /\ UNCHANGED <<schema, files>>
        BY <1>2 DEF Flush
    <2>2. IsSeq(written) /\ IsSeq(bs)
        BY BatchesOfRequest DEF SchemaInv, Shapes
    <2> HIDE DEF bs
    <2>3. Items(written) \subseteq Items(written')
        BY <2>1, <2>2, ConcatItems
    <2> QED
        BY <2>1, <2>3, NameFrame
<1>3. CASE Serialize
    <2> DEFINE new == [file |-> FileOf(snap.rows, schema), life |-> restarts,
                       captured |-> UNION {Items(snap.rows[w]) : w \in DOMAIN snap.rows}]
    <2>1. files' = files \cup {new} /\ UNCHANGED <<schema, written>>
        BY <1>3 DEF Serialize
    <2>2. OneColumnEach => ColumnsDiffer(new.file)
        BY FileDiffers DEF Formed, NameInv
    <2> HIDE DEF new
    <2> QED
        BY <2>1, <2>2, NameFrame
<1>4. CASE Restart
    <2>1. schema' = NoSchema /\ UNCHANGED <<written, files>>
        BY <1>4 DEF Restart
    <2> QED
        BY <2>1, NameFrame
<1>5. ASSUME NEW n \in pending, ApplyBegin(n) PROVE NameInv'
    BY <1>1, <1>5 DEF ApplyBegin
<1>6. CASE Collect \/ Clone \/ Abandon \/ Handoff
    BY <1>1, <1>6 DEF Collect, Clone, Abandon, Handoff
<1>7. CASE UNCHANGED vars
    BY <1>1, <1>7 DEF vars
<1> QED
    BY <1>2, <1>3, <1>4, <1>5, <1>6, <1>7, NameApply, Zenon DEF Next

LEMMA NameInit == Init => NameInv
<1> SUFFICES ASSUME Init PROVE NameInv
    OBVIOUS
<1>1. Items(schema.tags) = {} /\ Items(FieldNamesOf(schema)) = {} /\ files = {}
    BY DEF Init, NoSchema, FieldNamesOf, Items
<1> QED
    BY <1>1 DEF NameInv, Named

-----------------------------------------------------------------------------
(* With one layout every row is read as it was written, in the buffer and, under
   the names of columns and without its empty tags, in its file, and is left out of
   a file only if it is there already: for any number of requests, in any order,
   and through any snapshots, handoffs and replays.  If no two names that were
   written come to one column, the columns of every file have different names. *)
THEOREM ReadAsWritten == Spec => []WellRead
<1>1. Formed /\ ReadInv /\ NameInv => WellRead
    <2> SUFFICES ASSUME Formed, ReadInv, NameInv PROVE WellRead
        OBVIOUS
    <2>1. ASSUME OneLayout
          PROVE  /\ \A w \in Windows : \A r \in Items(chunk[w].rows) :
                       BufferReading(r) = Meant(r)
                 /\ \A f \in files : KeepsAll(f)
        BY <2>1, BufferReadsBack DEF Formed, ReadInv, Laid
    <2> QED
        BY <2>1, Zenon DEF WellRead, KeepsAll, NameInv
<1> QED
    BY <1>1, InitInv, StepInv, FormedInit, FormedStep, ReadInit, ReadStep, NameInit, NameStep, PTL
       DEF Spec
=============================================================================
