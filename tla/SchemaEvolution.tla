-------------------------- MODULE SchemaEvolution --------------------------
(***************************************************************************)
(* How the rows of one table keep their meaning.  A line of a request names *)
(* its tags and fields.  A row of the buffer holds their values only, in    *)
(* the order of its line; the names are those of the table's schema, which  *)
(* grows while rows are in the buffer, captured for a file, or read.        *)
(*                                                                         *)
(* A step is one hold of the buffer's lock, but for a batch, which is a     *)
(* step of its own: doing holds the batches, as positions in written, that  *)
(* the holder of the lock still has to apply, and nobody else gets at the   *)
(* buffer until it is empty.  Uploads and the WAL's files are in            *)
(* AgentIngest.                                                            *)
(***************************************************************************)
EXTENDS Naturals, Sequences, FiniteSets

CONSTANTS
    Names,        \* names of tags and fields
    Values,       \* values of tags and fields
    TypeOf,       \* the field type of a value
    TooBig,       \* the u64 values above i64::MAX
    Empty,        \* the empty values
    ColumnName,   \* the column of a name in a file: '-' and ' ' become '_'
    Windows,      \* chunk times
    Requests,     \* what clients may write, each a sequence of lines
    MaxWrites,    \* bound: requests served
    MaxRestarts   \* bound: restarts of the agent

Types == {"I64", "U64", "F64", "Bool", "String"}

Items(s) == {s[i] : i \in DOMAIN s}

(* A tag or field as its line has it: a name and a value. *)
Cells == Names \X Values

IsLine(l) ==
    /\ l.window \in Windows /\ l.time \in Nat
    /\ l.tags \in Seq(Cells) /\ l.fields \in Seq(Cells) /\ l.fields # << >>
    /\ \A i, j \in DOMAIN l.tags : l.tags[i][1] = l.tags[j][1] => i = j
    /\ \A i, j \in DOMAIN l.fields : l.fields[i][1] = l.fields[j][1] => i = j

ASSUME SchemaAssumption ==
    /\ Windows \subseteq Nat
    /\ TypeOf \in [Values -> Types]
    /\ TooBig \subseteq {v \in Values : TypeOf[v] = "U64"}
    /\ Empty \subseteq Values
    /\ ColumnName \in [Names -> Names]
    /\ \A req \in Requests : /\ req \in Seq(Items(req)) /\ req # << >>
                             /\ \A l \in Items(req) : IsLine(l)
    /\ MaxWrites \in Nat /\ MaxRestarts \in Nat

Least(I) == CHOOSE i \in I : \A j \in I : i <= j

Firsts(s) == [i \in DOMAIN s |-> s[i][1]]
Seconds(s) == [i \in DOMAIN s |-> s[i][2]]

(* The elements of t at the positions I, in order, after s. *)
Grow(s, t, I) ==
    [i \in 1 .. Len(s) + Cardinality(I) |->
        IF i <= Len(s) THEN s[i]
        ELSE t[CHOOSE k \in I : Cardinality({j \in I : j <= k}) = i - Len(s)]]

IsPrefix(s, t) == DOMAIN s \subseteq DOMAIN t /\ \A i \in DOMAIN s : s[i] = t[i]

-----------------------------------------------------------------------------
(* A request becomes a batch for every window its lines fall in.  All of them
   have the tag keys of the first line with tags, and the field names of the
   first line; the names a row came with are kept with it for the properties. *)

TagKeys(req) ==
    LET tagged == {i \in DOMAIN req : req[i].tags # << >>} IN
    IF tagged = {} THEN << >> ELSE Firsts(req[Least(tagged)].tags)

FieldNames(req) == Firsts(req[1].fields)

Batch(req, w, n) ==
    [file |-> n, window |-> w, tags |-> TagKeys(req), fields |-> FieldNames(req),
     rows |-> Grow(<< >>, req, {i \in DOMAIN req : req[i].window = w})]

BatchesOf(req, n) ==
    LET ws == {req[i].window : i \in DOMAIN req}
        Nth(k) == CHOOSE w \in ws : Cardinality({x \in ws : x <= w}) = k
    IN  [k \in 1 .. Cardinality(ws) |-> Batch(req, Nth(k), n)]

FieldNamesOf(schema) == [i \in DOMAIN schema.fields |-> schema.fields[i].name]

(* The type of a new field is the one of its first value in the batch; a name
   without any is not registered. *)
Having(b, i) == {k \in DOMAIN b.rows : i \in DOMAIN b.rows[k].fields}
FieldDefs(b) ==
    [i \in {j \in DOMAIN b.fields : Having(b, j) # {}} |->
        [name |-> b.fields[i], type |-> TypeOf[b.rows[Least(Having(b, i))].fields[i][2]]]]

(* Mutant: a name is added each time it is seen. *)
EnsureAlways(schema, b) ==
    [tags |-> Grow(schema.tags, b.tags, DOMAIN b.tags),
     fields |-> Grow(schema.fields, FieldDefs(b), DOMAIN FieldDefs(b))]

(* Mutant: new tag keys go in front. *)
EnsureInFront(schema, b) ==
    [tags |-> LET new == {i \in DOMAIN b.tags : b.tags[i] \notin Items(schema.tags)} IN
              Grow(<< >>, b.tags, new) \o schema.tags,
     fields |-> Grow(schema.fields, FieldDefs(b),
                     {i \in DOMAIN FieldDefs(b) : b.fields[i] \notin Items(FieldNamesOf(schema))})]

(* ensure_tag_key and ensure_field for every name of the batch *)
Ensure(schema, b) ==
    [tags |-> Grow(schema.tags, b.tags,
                   {i \in DOMAIN b.tags : b.tags[i] \notin Items(schema.tags)}),
     fields |-> Grow(schema.fields, FieldDefs(b),
                     {i \in DOMAIN FieldDefs(b) : b.fields[i] \notin Items(FieldNamesOf(schema))})]

(* A row in the buffer.  under is history: the schema's names when it came. *)
Stored(l, schema) ==
    [time |-> l.time, tags |-> l.tags, fields |-> l.fields,
     under |-> [tags |-> schema.tags, fields |-> FieldNamesOf(schema)]]

(* The entries of the tag index for rows, of which base come before. *)
Entries(rows, base, keys) ==
    UNION {{<<keys[i], rows[k].tags[i][2], base + k>> :
                i \in DOMAIN keys \cap DOMAIN rows[k].tags} : k \in DOMAIN rows}

NewChunk == [rows |-> << >>, index |-> {}]

Insert(c, b, schema) ==
    LET new == [i \in DOMAIN b.rows |-> Stored(b.rows[i], schema)] IN
    [rows |-> c.rows \o new, index |-> c.index \cup Entries(new, Len(c.rows), schema.tags)]

(* Mutant: the positions in the index stay those of before. *)
DrainKeepsIndex(c, n, keys) ==
    IF n >= Len(c.rows) THEN NewChunk
    ELSE [rows |-> SubSeq(c.rows, n + 1, Len(c.rows)), index |-> c.index]

(* The captured rows go, and the index is built again. *)
DrainChunk(c, n, keys) ==
    IF n >= Len(c.rows) THEN NewChunk
    ELSE LET left == SubSeq(c.rows, n + 1, Len(c.rows)) IN
         [rows |-> left, index |-> Entries(left, 0, keys)]

-----------------------------------------------------------------------------
(* flush_chunks_to_parquet, for the rows of some windows.  A place is a window
   and a position in its chunk; sorting by time is stable. *)

Places(rows) == UNION {{<<w, k>> : k \in DOMAIN rows[w]} : w \in DOMAIN rows}
At(rows, p) == rows[p[1]][p[2]]
Before(p, q) == p[1] < q[1] \/ (p[1] = q[1] /\ p[2] < q[2])

(* The place that comes just before p in the order of times, if its time is the same. *)
Neighbours(rows, p) ==
    LET same == {q \in Places(rows) : Before(q, p) /\ At(rows, q).time = At(rows, p).time} IN
    {q \in same : \A x \in same : ~Before(q, x)}

(* Mutant: rows with one time and the same tags are one row. *)
SameTimeAndTags(r, s) == r.time = s.time /\ Seconds(r.tags) = Seconds(s.tags)

SameRow(r, s) ==
    /\ r.time = s.time
    /\ Seconds(r.tags) = Seconds(s.tags) /\ Seconds(r.fields) = Seconds(s.fields)

Deduped(rows) ==
    {At(rows, p) : p \in {x \in Places(rows) :
        \A q \in Neighbours(rows, x) : ~SameRow(At(rows, q), At(rows, x))}}

Columns(names) == [i \in DOMAIN names |-> ColumnName[names[i]]]

(* The file: a column for each name of the schema, the rows that are left. *)
FileOf(rows, schema) ==
    [tags |-> Columns(schema.tags),
     fields |-> [i \in DOMAIN schema.fields |->
                    [name |-> ColumnName[schema.fields[i].name], type |-> schema.fields[i].type]],
     rows |-> Deduped(rows)]

IntTypes == {"I64", "U64"}

(* What a column keeps of a value; NULL for the others. *)
Fits(type, v) == TypeOf[v] = type \/ {TypeOf[v], type} \subseteq IntTypes

(* A value that is in an integer column and is no i64 fails the file. *)
Unwritable(rows, schema) ==
    \E w \in DOMAIN rows : \E k \in DOMAIN rows[w] :
        \E i \in DOMAIN rows[w][k].fields \cap DOMAIN schema.fields :
            schema.fields[i].type \in IntTypes /\ rows[w][k].fields[i][2] \in TooBig

-----------------------------------------------------------------------------
VARIABLES
    schema,    \* the table's: sequences of tag keys and of field definitions
    chunk,     \* the table's chunks, by window; one without rows is not there
    written,   \* the batches in the WAL's files
    pending,   \* files flushed by handlers that have not applied them yet
    doing,     \* those the holder of the buffer's lock has still to apply
    snap,      \* the snapshot cycle
    files,     \* history: the files written
    restarts

vars == <<schema, chunk, written, pending, doing, snap, files, restarts>>

NoSchema == [tags |-> << >>, fields |-> << >>]
NoCycle == [at |-> "idle", windows |-> {}, rows |-> [w \in {} |-> << >>]]

Init ==
    /\ schema = NoSchema /\ chunk = [w \in Windows |-> NewChunk]
    /\ written = << >> /\ pending = {} /\ doing = {}
    /\ snap = NoCycle /\ files = {} /\ restarts = 0

FilesWritten == {written[i].file : i \in DOMAIN written}
NextFile == Cardinality(FilesWritten) + 1

(* A handler parses its request and flushes it to the WAL.  That another one is
   applying makes no difference to it. *)
Flush(req) ==
    /\ doing = {} /\ NextFile <= MaxWrites
    /\ written' = written \o BatchesOf(req, NextFile)
    /\ pending' = pending \cup {NextFile}
    /\ UNCHANGED <<schema, chunk, doing, snap, files, restarts>>

(* It takes the buffer's lock, perhaps after one that flushed later, ... *)
ApplyBegin(n) ==
    /\ doing = {} /\ n \in pending
    /\ doing' = {i \in DOMAIN written : written[i].file = n}
    /\ pending' = pending \ {n}
    /\ UNCHANGED <<schema, chunk, written, snap, files, restarts>>

(* ... and applies its batches one after the other. *)
ApplyBatch(i) ==
    /\ \A j \in doing : i <= j
    /\ doing' = doing \ {i}
    /\ LET b == written[i] IN
       /\ schema' = Ensure(schema, b)
       /\ chunk' = [chunk EXCEPT ![b.window] = Insert(@, b, schema')]
    /\ UNCHANGED <<written, pending, snap, files, restarts>>

(* do_snapshot finds the closed windows, ... *)
Collect ==
    /\ doing = {} /\ snap.at = "idle"
    /\ \E marker \in {w + 1 : w \in Windows} :
          LET closed == {w \in Windows : w < marker /\ chunk[w].rows # << >>} IN
          /\ closed # {}
          /\ snap' = [NoCycle EXCEPT !.at = "collected", !.windows = closed]
    /\ UNCHANGED <<schema, chunk, written, pending, doing, files, restarts>>

(* ... clones their chunks ... *)
Clone ==
    /\ doing = {} /\ snap.at = "collected"
    /\ snap' = [snap EXCEPT !.at = "cloned",
                            !.rows = [w \in snap.windows |-> chunk[w].rows]]
    /\ UNCHANGED <<schema, chunk, written, pending, doing, files, restarts>>

(* ... and the table for its schema under the next hold of the lock, and uploads
   or stages the file.  A file that cannot be written, or neither uploaded nor
   staged, ends the cycle. *)
Serialize ==
    /\ doing = {} /\ snap.at = "cloned"
    /\ ~Unwritable(snap.rows, schema)
    /\ snap' = [snap EXCEPT !.at = "stored"]
    /\ files' = files \cup {[file |-> FileOf(snap.rows, schema), life |-> restarts,
                             captured |-> UNION {Items(snap.rows[w]) : w \in DOMAIN snap.rows}]}
    /\ UNCHANGED <<schema, chunk, written, pending, doing, restarts>>

Abandon ==
    /\ doing = {} /\ snap.at = "cloned"
    /\ snap' = NoCycle
    /\ UNCHANGED <<schema, chunk, written, pending, doing, files, restarts>>

(* Mutant: a table without rows is dropped, with its schema. *)
HandoffDropsTable ==
    /\ doing = {} /\ snap.at = "stored"
    /\ chunk' = [w \in Windows |->
                    IF w \in snap.windows
                    THEN DrainChunk(chunk[w], Len(snap.rows[w]), schema.tags) ELSE chunk[w]]
    /\ schema' = IF \A w \in Windows : chunk'[w] = NewChunk THEN NoSchema ELSE schema
    /\ snap' = NoCycle
    /\ UNCHANGED <<written, pending, doing, files, restarts>>

(* complete_chunk_handoff *)
Handoff ==
    /\ doing = {} /\ snap.at = "stored"
    /\ chunk' = [w \in Windows |->
                    IF w \in snap.windows
                    THEN DrainChunk(chunk[w], Len(snap.rows[w]), schema.tags) ELSE chunk[w]]
    /\ snap' = NoCycle
    /\ UNCHANGED <<schema, written, pending, doing, files, restarts>>

(* The agent stops at any point and replays the files its watermark leaves; which
   those are is AgentIngest's subject: here, those from any one on. *)
Restart ==
    /\ restarts < MaxRestarts /\ restarts' = restarts + 1
    /\ schema' = NoSchema /\ chunk' = [w \in Windows |-> NewChunk]
    /\ \E n \in 1 .. NextFile : doing' = {i \in DOMAIN written : written[i].file >= n}
    /\ pending' = {} /\ snap' = NoCycle
    /\ UNCHANGED <<written, files>>

Next ==
    \/ \E req \in Requests : Flush(req)
    \/ \E n \in pending : ApplyBegin(n)
    \/ \E i \in doing : ApplyBatch(i)
    \/ Collect \/ Clone \/ Serialize \/ Abandon \/ Handoff
    \/ Restart

Spec == Init /\ [][Next]_vars

-----------------------------------------------------------------------------
(* What is read back *)

(* From a file: a name and a value for each column that is not NULL, as that of
   an empty tag is. *)
FileReading(f, r) ==
    {<<f.tags[i], r.tags[i][2]>> :
         i \in {k \in DOMAIN f.tags \cap DOMAIN r.tags : r.tags[k][2] \notin Empty}}
      \cup {<<f.fields[i].name, r.fields[i][2]>> :
                i \in {k \in DOMAIN f.fields \cap DOMAIN r.fields :
                           Fits(f.fields[k].type, r.fields[k][2])}}

(* From the buffer, by query_table. *)
BufferReading(r) ==
    {<<schema.tags[i], r.tags[i][2]>> : i \in DOMAIN schema.tags \cap DOMAIN r.tags}
      \cup {<<schema.fields[i].name, r.fields[i][2]>> :
                i \in DOMAIN schema.fields \cap DOMAIN r.fields}

(* The rows query_table takes from a chunk for a tag filter. *)
Candidates(c, key, value) == {e[3] : e \in {x \in c.index : x[1] = key /\ x[2] = value}}

(* QueryHandler, which applies the first of the filters of a request only. *)
Selected(c, filters) ==
    IF filters = << >> THEN DOMAIN c.rows
    ELSE Candidates(c, filters[1][1], filters[1][2])

Meant(r) == Items(r.tags) \cup Items(r.fields)

(* The same in the names of columns, without its empty tags. *)
MeantInFile(r) ==
    {<<ColumnName[c[1]], c[2]>> :
         c \in {t \in Items(r.tags) : t[2] \notin Empty} \cup Items(r.fields)}

-----------------------------------------------------------------------------
TypeOK ==
    /\ \A i, j \in DOMAIN schema.tags : schema.tags[i] = schema.tags[j] => i = j
    /\ \A i, j \in DOMAIN schema.fields : schema.fields[i].name = schema.fields[j].name => i = j
    /\ schema.tags \in Seq(Names) /\ schema.fields \in Seq([name : Names, type : Types])
    /\ DOMAIN chunk = Windows /\ \A w \in Windows : chunk[w] = NewChunk \/ chunk[w].rows # << >>
    /\ pending \subseteq FilesWritten
    /\ snap.at \in {"idle", "collected", "cloned", "stored"} /\ snap.windows \subseteq Windows
    /\ restarts \in 0 .. MaxRestarts

(* All clients write their tags and fields in one order, of which a request may
   leave out the end, and a field with one type. *)
OneLayout ==
    \A i, j \in DOMAIN written :
        LET b == written[i] c == written[j] IN
        /\ IsPrefix(b.tags, c.tags) \/ IsPrefix(c.tags, b.tags)
        /\ IsPrefix(b.fields, c.fields) \/ IsPrefix(c.fields, b.fields)
        /\ \A k \in DOMAIN b.rows :
              /\ IsPrefix(Firsts(b.rows[k].tags), b.tags)
              /\ IsPrefix(Firsts(b.rows[k].fields), b.fields)
              /\ \A m \in DOMAIN c.rows : \A p \in Items(b.rows[k].fields), q \in Items(c.rows[m].fields) :
                    p[1] = q[1] => TypeOf[p[2]] = TypeOf[q[2]]

TagNames == UNION {Items(written[i].tags) : i \in DOMAIN written}
FieldsNamed == UNION {Items(written[i].fields) : i \in DOMAIN written}

(* No two of their names come to one column, as data-center and data_center do,
   or a tag and a field of one name, and none is that of the time. *)
OneColumnEach ==
    /\ TagNames \cap FieldsNamed = {}
    /\ \A n \in TagNames \cup FieldsNamed :
          /\ ColumnName[n] # "time"
          /\ \A m \in TagNames \cup FieldsNamed : ColumnName[m] = ColumnName[n] => m = n

(* The columns of the file, that of the time among them, have different names. *)
ColumnsDiffer(f) ==
    /\ \A i, j \in DOMAIN f.tags : f.tags[i] = f.tags[j] => i = j
    /\ \A i, j \in DOMAIN f.fields : f.fields[i].name = f.fields[j].name => i = j
    /\ \A i \in DOMAIN f.tags, j \in DOMAIN f.fields : f.tags[i] # f.fields[j].name
    /\ "time" \notin Items(f.tags) \cup Items(FieldNamesOf(f))

(* With one layout every row says in the buffer what its line said, and in its
   file too, under the names of columns and without empty tags: in whatever order
   requests are applied, chunks and schema are captured, and the WAL is replayed;
   and a row is left out of a file only if it is there already.  And if no two
   names come to one column, a file has no two columns of one name. *)
WellRead ==
    /\ OneLayout =>
          /\ \A w \in Windows : \A r \in Items(chunk[w].rows) : BufferReading(r) = Meant(r)
          /\ \A f \in files :
                {[time |-> r.time, cells |-> MeantInFile(r)] : r \in f.captured}
                    = {[time |-> r.time, cells |-> FileReading(f.file, r)] : r \in f.file.rows}
    /\ OneColumnEach => \A f \in files : ColumnsDiffer(f.file)

(* Whatever clients write, a value that has a name when its row comes in is read
   under that name for good, in the buffer and in the file (there as the name of a
   column), although the schema is captured after the rows.  A value that has
   none, as its line had more of them than the schema, may get one later. *)
ReadingStable ==
    /\ \A w \in Windows : \A r \in Items(chunk[w].rows) :
          IsPrefix(r.under.tags, schema.tags) /\ IsPrefix(r.under.fields, FieldNamesOf(schema))
    /\ \A f \in files : \A r \in f.captured :
          /\ IsPrefix(Columns(r.under.tags), f.file.tags)
          /\ IsPrefix(Columns(r.under.fields), FieldNamesOf(f.file))

(* Of two files written between two restarts one has the columns of the other,
   with the same names and types, and perhaps more. *)
ColumnsAgree ==
    \A f, g \in files : f.life = g.life =>
        \/ IsPrefix(f.file.tags, g.file.tags) /\ IsPrefix(f.file.fields, g.file.fields)
        \/ IsPrefix(g.file.tags, f.file.tags) /\ IsPrefix(g.file.fields, f.file.fields)

(* A query with a tag filter gets rows that have the tag, also after a handoff
   moved them, and misses only those whose line had more tags than the schema
   had keys when they came. *)
IndexExact ==
    \A w \in Windows :
        LET rows == chunk[w].rows IN
        /\ \A e \in chunk[w].index :
              /\ e[3] \in DOMAIN rows
              /\ \E i \in DOMAIN rows[e[3]].tags \cap DOMAIN schema.tags :
                    e[1] = schema.tags[i] /\ e[2] = rows[e[3]].tags[i][2]
        /\ \A k \in DOMAIN rows : \A i \in DOMAIN rows[k].tags \cap DOMAIN schema.tags :
              i <= Len(rows[k].under.tags)
                  => k \in Selected(chunk[w], <<<<schema.tags[i], rows[k].tags[i][2]>>>>)
=============================================================================
