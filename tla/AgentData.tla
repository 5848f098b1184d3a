----------------------------- MODULE AgentData -----------------------------
(***************************************************************************)
(* The data an agent handles, and the operators on it.                     *)
(*                                                                         *)
(* A batch (WriteBatch, agent/wal/mod.rs) is the rows of one request that   *)
(* fall in one window of one table.  A batch is a model value: which table *)
(* it is for and the smallest time of its rows are given by TableOf and    *)
(* TimeOf.  A file, of whatever kind, is the set of batches in it.          *)
(***************************************************************************)
EXTENDS Integers, Sequences, FiniteSets

CONSTANTS
    Batches,    \* the batches clients may send
    Tables,     \* the (database, table) pairs
    TableOf,    \* the table of a batch
    TimeOf,     \* the smallest timestamp of the rows of a batch
    Interval,   \* snapshot_interval: the width of a chunk's window
    Requests,   \* the write requests clients may send, each a set of batches
    Unwritable, \* the batches that cannot be written as Parquet
    Backend     \* flush.backend: "http", "s3" or "local"

ASSUME DataAssumption ==
    /\ TableOf \in [Batches -> Tables]
    /\ TimeOf \in [Batches -> Nat]
    /\ Interval \in Nat \ {0}
    /\ Requests \subseteq SUBSET Batches
    /\ {} \notin Requests
    /\ Unwritable \subseteq Batches
    /\ Backend \in {"http", "s3", "local"}

Least(S) == CHOOSE n \in S : \A m \in S : n <= m

Greatest(S) == CHOOSE n \in S : \A m \in S : m <= n

(* u64::saturating_sub(1) *)
Pred(n) == IF n = 0 THEN 0 ELSE n - 1

Bind(f, x, v) == [y \in DOMAIN f \cup {x} |-> IF y = x THEN v ELSE f[y]]

Without(f, S) == [y \in DOMAIN f \ S |-> f[y]]

EmptyFcn == [x \in {} |-> {}]

-----------------------------------------------------------------------------
(* Windows and chunks *)

WindowOf(b) == (TimeOf[b] \div Interval) * Interval

Windows == {WindowOf(b) : b \in Batches}

Keys == Tables \X Windows

BatchesOf(k, S) == {b \in S : TableOf[b] = k[1] /\ WindowOf(b) = k[2]}

(***************************************************************************)
(* A chunk.  One lock hold appends at most one group of rows to a chunk,   *)
(* and only whole groups are ever captured or drained, so rows are counted *)
(* in groups: rows is the sequence of the groups, each a set of batches.   *)
(* lo, hi are min_wal_seq, max_wal_seq, and since is time_min.  A chunk    *)
(* with no rows is one the table does not have.                            *)
(***************************************************************************)
NewChunk == [rows |-> << >>, lo |-> 0, hi |-> 0, since |-> 0]

Chunk == [rows : Seq(SUBSET Batches), lo : Nat, hi : Nat, since : Nat]

RowsOf(c) == UNION {c.rows[i] : i \in DOMAIN c.rows}

Lower(a, b) == IF a < b THEN a ELSE b
Higher(a, b) == IF a < b THEN b ELSE a

(* Chunk::insert for each row of a group flushed under sequence n. *)
Insert(c, group, n) ==
    LET earliest == Least({TimeOf[b] : b \in group})
    IN  IF group = {} THEN c
        ELSE IF c.rows = << >>
        THEN [rows |-> <<group>>, lo |-> n, hi |-> n, since |-> earliest]
        ELSE [rows |-> Append(c.rows, group),
              lo |-> Lower(c.lo, n),
              hi |-> Higher(c.hi, n),
              since |-> Lower(c.since, earliest)]

(* apply_write_batch for every operation of one WAL file. *)
ApplyOps(chunks, ops, n) ==
    [k \in Keys |-> Insert(chunks[k], BatchesOf(k, ops), n)]

(* Mutant: the handoff empties the chunk, with the rows that came since. *)
DrainWhole(c, captured) ==
    IF captured > 0 THEN NewChunk ELSE c

(***************************************************************************)
(* The handoff's drain: exactly the captured rows go, counted from the     *)
(* front; a chunk with rows left keeps its bounds, an empty one is dropped.*)
(***************************************************************************)
DrainChunk(c, captured) ==
    IF captured >= Len(c.rows) THEN NewChunk
    ELSE [c EXCEPT !.rows = SubSeq(c.rows, captured + 1, Len(c.rows))]

-----------------------------------------------------------------------------
(* The store: what the upload backend holds, a function from names to the  *)
(* sets of batches in the files.                                           *)

(* s3_key: the time of the first row, no sequence number *)
S3Key(t, since) == <<t, since, 0>>

(* Mutant: the name of a window's file is the same for every flush of it. *)
NameWithoutSeq(t, window, hi, since) ==
    IF Backend = "s3" THEN S3Key(t, since) ELSE <<t, window, 0>>

UploadName(t, window, hi, since) ==
    IF Backend = "s3" THEN S3Key(t, since) ELSE <<t, window, hi>>

(* upload_to_s3's PUT replaces an object that is there, like fs::write a file. *)
Overwrite(store, name, rows) == Bind(store, name, rows)

(* The http server skips a name it has. *)
Put(store, name, rows) ==
    IF Backend = "http" /\ name \in DOMAIN store THEN store
    ELSE Overwrite(store, name, rows)

(* The batches a Put fails to keep because the name was taken by other ones. *)
Clobbered(store, name, rows) ==
    IF name \notin DOMAIN store THEN {}
    ELSE IF Backend = "http" THEN rows \ store[name]
    ELSE store[name] \ rows

Contents(f) == UNION {f[n] : n \in DOMAIN f}
=============================================================================
