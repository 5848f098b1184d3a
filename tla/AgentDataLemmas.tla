-------------------------- MODULE AgentDataLemmas --------------------------
(***************************************************************************)
(* What the operators of AgentData return, preserve and bound.             *)
(***************************************************************************)
EXTENDS AgentData, TLAPS

INSTANCE WellFoundedInduction

-----------------------------------------------------------------------------
(* Numbers *)

(* A nonempty set of naturals has a least element. *)
LEMMA LeastIn ==
    ASSUME NEW S \in SUBSET Nat, S # {}
    PROVE  Least(S) \in S /\ \A m \in S : Least(S) <= m
<1> DEFINE less == {p \in Nat \X Nat : p[1] < p[2]}
<1>1. less = OpToRel(<, Nat)
    BY Zenon DEF OpToRel
<1>2. IsWellFoundedOn(less, Nat)
    BY <1>1, NatLessThanWellFounded, Zenon
<1>3. PICK n \in S : \A m \in S : <<m, n>> \notin less
    <2> HIDE DEF less
    <2> QED BY <1>2, WFMin
<1>4. ASSUME NEW m \in S PROVE n <= m
    <2>1. m \in Nat /\ n \in Nat
        OBVIOUS
    <2>2. m < n => <<m, n>> \in less
        BY <2>1
    <2> QED
        BY <1>3, <2>1, <2>2
<1> QED
    BY <1>4 DEF Least

(* A nonempty set of naturals below a bound has a greatest element. *)
LEMMA GreatestIn ==
    ASSUME NEW S \in SUBSET Nat, S # {}, NEW bound \in Nat,
           \A n \in S : n <= bound
    PROVE  Greatest(S) \in S /\ \A m \in S : m <= Greatest(S)
<1> DEFINE gaps == {bound - n : n \in S}
<1>1. gaps \in SUBSET Nat /\ gaps # {}
    <2>1. \A n \in S : n \in Nat /\ bound - n \in Nat
        OBVIOUS
    <2> QED
        BY <2>1, Zenon
<1>2. PICK n \in S : Least(gaps) = bound - n
    BY <1>1, LeastIn
<1>3. \A m \in S : bound - n <= bound - m
    BY <1>1, <1>2, LeastIn
<1>4. \A m \in S : m <= n
    BY <1>3
<1> QED
    BY <1>4 DEF Greatest

(* Windows are naturals, and a batch's key is a key. *)
LEMMA WindowsAreNat ==
    /\ Windows \in SUBSET Nat
    /\ \A b \in Batches : <<TableOf[b], WindowOf(b)>> \in Keys
<1>1. \A b \in Batches : WindowOf(b) \in Nat
    <2> TAKE b \in Batches
    <2>1. TimeOf[b] \in Nat /\ Interval \in Nat /\ Interval > 0
        BY DataAssumption
    <2>2. TimeOf[b] \div Interval \in Nat
        BY <2>1
    <2> HIDE DEF Windows
    <2> QED
        BY <2>1, <2>2 DEF WindowOf
<1> QED
    BY <1>1, DataAssumption DEF Windows, Keys

-----------------------------------------------------------------------------
(* Chunks *)

(* A chunk starts without rows, and is a chunk. *)
LEMMA NewChunkEmpty == NewChunk \in Chunk /\ RowsOf(NewChunk) = {}
    BY DEF NewChunk, Chunk, RowsOf

(* Inserting a group adds exactly its rows, at the end, and widens the bounds
   just enough to hold its sequence number. *)
LEMMA InsertGroup ==
    ASSUME NEW c \in Chunk, NEW group \in SUBSET Batches, NEW n \in Nat
    PROVE  LET d == Insert(c, group, n)
           IN  /\ d \in Chunk
               /\ RowsOf(d) = RowsOf(c) \cup group
               /\ Len(c.rows) <= Len(d.rows)
               /\ \A i \in 1 .. Len(c.rows) : d.rows[i] = c.rows[i]
               /\ group = {} => d = c
               /\ group # {} /\ c.rows = << >> => d.lo = n /\ d.hi = n
               /\ group # {} /\ c.rows # << >> =>
                     d.lo = Lower(c.lo, n) /\ d.hi = Higher(c.hi, n)
<1> DEFINE d == Insert(c, group, n)
<1>1. CASE group = {}
    BY <1>1 DEF Insert
<1>2. CASE group # {}
    <2> DEFINE earliest == Least({TimeOf[b] : b \in group})
    <2>1. earliest \in Nat
        <3>1. {TimeOf[b] : b \in group} \in SUBSET Nat
            BY DataAssumption
        <3> QED
            BY <1>2, <3>1, LeastIn
    <2>2. c.rows \in Seq(SUBSET Batches) /\ c.lo \in Nat /\ c.hi \in Nat
              /\ c.since \in Nat
        BY DEF Chunk
    <2> HIDE DEF earliest
    <2>3. CASE c.rows = << >>
        <3>1. d = [rows |-> <<group>>, lo |-> n, hi |-> n, since |-> earliest]
            BY <1>2, <2>3 DEF Insert, earliest
        <3> QED
            BY <1>2, <2>1, <2>3, <3>1 DEF RowsOf, Chunk
    <2>4. CASE c.rows # << >>
        <3> DEFINE rs == Append(c.rows, group)
        <3>1. d = [rows |-> rs, lo |-> Lower(c.lo, n), hi |-> Higher(c.hi, n),
                   since |-> Lower(c.since, earliest)]
            BY <1>2, <2>4 DEF Insert, earliest
        <3>2. /\ rs \in Seq(SUBSET Batches)
              /\ Len(rs) = Len(c.rows) + 1
              /\ rs[Len(rs)] = group
              /\ \A i \in 1 .. Len(c.rows) : rs[i] = c.rows[i]
            BY <2>2
        <3>3. d \in Chunk
            BY <2>1, <2>2, <3>1, <3>2 DEF Chunk, Lower, Higher
        <3>4. RowsOf(d) = RowsOf(c) \cup group
            <4>1. DOMAIN rs = DOMAIN c.rows \cup {Len(rs)}
                BY <2>2, <3>2
            <4>2. DOMAIN c.rows = 1 .. Len(c.rows)
                BY <2>2
            <4> HIDE DEF rs
            <4> QED
                BY <3>1, <3>2, <4>1, <4>2 DEF RowsOf
        <3> HIDE DEF rs
        <3> QED
            BY <1>2, <2>2, <2>4, <3>1, <3>2, <3>3, <3>4
    <2> QED
        BY <2>3, <2>4
<1> QED
    BY <1>1, <1>2

(* A group inserted into a chunk adds its batches and nothing else. *)
LEMMA InsertRows ==
    ASSUME NEW c, c \in Chunk, NEW group, group \subseteq Batches, NEW n \in Nat
    PROVE  /\ Insert(c, group, n) \in Chunk
           /\ RowsOf(Insert(c, group, n)) = RowsOf(c) \cup group
    BY InsertGroup, ZenonT(60)

(* The rows a chunk holds keep their places when a group is inserted: what a
   capture counted from the front stays at the front. *)
LEMMA InsertPrefix ==
    ASSUME NEW c, c \in Chunk, NEW group, group \subseteq Batches, NEW n \in Nat
    PROVE  /\ Len(c.rows) <= Len(Insert(c, group, n).rows)
           /\ \A i \in 1 .. Len(c.rows) : Insert(c, group, n).rows[i] = c.rows[i]
<1>1. group \in SUBSET Batches
    OBVIOUS
<1> QED
    BY <1>1, InsertGroup, ZenonT(60)

(* Bounds that contain a chunk and the file inserted contain the result. *)
LEMMA InsertBounds ==
    ASSUME NEW c, c \in Chunk, NEW group, group \subseteq Batches,
           NEW n, n \in Nat, 0 < n, NEW next, next \in Nat, n < next,
           c.hi < next, c.rows # << >> => 0 < c.lo /\ c.lo <= c.hi,
           NEW d, d = Insert(c, group, n)
    PROVE  /\ d.hi < next
           /\ d.rows # << >> => 0 < d.lo /\ d.lo <= d.hi
           /\ c.rows # << >> => d.lo <= c.lo
           /\ group # {} => d.lo <= n
<1>0. c.lo \in Nat /\ c.hi \in Nat
    BY DEF Chunk
<1>1. /\ group = {} => d = c
      /\ group # {} /\ c.rows = << >> => d.lo = n /\ d.hi = n
      /\ group # {} /\ c.rows # << >> =>
            d.lo = Lower(c.lo, n) /\ d.hi = Higher(c.hi, n)
    <2>1. group \in SUBSET Batches
        OBVIOUS
    <2> QED
        BY <2>1, InsertGroup, ZenonT(60)
<1> QED
    BY <1>0, <1>1 DEF Lower, Higher

(* A group that is inserted comes last ... *)
LEMMA InsertLast ==
    ASSUME NEW c, c \in Chunk, NEW group, group \subseteq Batches, NEW n, n \in Nat,
           NEW d, d = Insert(c, group, n), NEW i \in 1 .. Len(d.rows)
    PROVE  \/ i <= Len(c.rows) /\ d.rows[i] = c.rows[i]
           \/ group # {} /\ d.rows[i] = group
<1>1. c.rows \in Seq(SUBSET Batches) /\ Len(c.rows) \in Nat
    BY DEF Chunk
<1>2. CASE group = {}
    <2>1. d = c
        BY <1>2 DEF Insert
    <2> QED
        BY <1>1, <2>1
<1>3. CASE group # {} /\ c.rows = << >>
    <2>1. d.rows = <<group>>
        BY <1>3 DEF Insert
    <2> QED
        BY <1>3, <2>1
<1>4. CASE group # {} /\ c.rows # << >>
    <2>1. d.rows = Append(c.rows, group)
        BY <1>4 DEF Insert
    <2> QED
        BY <1>1, <1>4, <2>1
<1> QED
    BY <1>2, <1>3, <1>4

(* ... and the high bound covers it. *)
LEMMA InsertHigh ==
    ASSUME NEW c, c \in Chunk, NEW group, group \subseteq Batches, NEW n, n \in Nat,
           NEW d, d = Insert(c, group, n)
    PROVE  /\ d.hi = c.hi \/ (group # {} /\ d.hi = n)
           /\ group # {} => n <= d.hi
           /\ c.rows # << >> => c.hi <= d.hi /\ d.rows # << >>
<1>1. c.rows \in Seq(SUBSET Batches) /\ c.hi \in Nat
    BY DEF Chunk
<1>2. CASE group = {}
    <2>1. d = c
        BY <1>2 DEF Insert
    <2> QED
        BY <1>1, <1>2, <2>1
<1>3. CASE group # {} /\ c.rows = << >>
    <2>1. d.hi = n
        BY <1>3 DEF Insert
    <2> QED
        BY <1>3, <2>1
<1>4. CASE group # {} /\ c.rows # << >>
    <2>1. d.rows = Append(c.rows, group) /\ d.hi = Higher(c.hi, n)
        BY <1>4 DEF Insert
    <2>2. d.hi \in {c.hi, n} /\ c.hi <= d.hi /\ n <= d.hi
        BY <1>1, <2>1 DEF Higher
    <2> QED
        BY <1>1, <1>4, <2>1, <2>2
<1> QED
    BY <1>2, <1>3, <1>4

(* Applying a file puts each of its rows into the chunk of its key. *)
LEMMA ApplyOpsRows ==
    ASSUME NEW chunks \in [Keys -> Chunk], NEW ops \in SUBSET Batches,
           NEW n \in Nat
    PROVE  LET new == ApplyOps(chunks, ops, n)
           IN  /\ new \in [Keys -> Chunk]
               /\ \A k \in Keys :
                     /\ BatchesOf(k, ops) \subseteq ops
                     /\ new[k] = Insert(chunks[k], BatchesOf(k, ops), n)
                     /\ RowsOf(new[k]) = RowsOf(chunks[k]) \cup BatchesOf(k, ops)
               /\ \A b \in ops : \E k \in Keys : b \in RowsOf(new[k])
<1> DEFINE new == ApplyOps(chunks, ops, n)
<1>1. ASSUME NEW k \in Keys
      PROVE  /\ BatchesOf(k, ops) \subseteq ops
             /\ new[k] = Insert(chunks[k], BatchesOf(k, ops), n)
             /\ new[k] \in Chunk
             /\ RowsOf(new[k]) = RowsOf(chunks[k]) \cup BatchesOf(k, ops)
    <2>1. BatchesOf(k, ops) \subseteq ops
        BY DEF BatchesOf
    <2>2. new[k] = Insert(chunks[k], BatchesOf(k, ops), n)
        BY DEF ApplyOps
    <2>3. BatchesOf(k, ops) \subseteq Batches /\ chunks[k] \in Chunk
        BY <2>1
    <2> HIDE DEF new
    <2>4. Insert(chunks[k], BatchesOf(k, ops), n) \in Chunk
        BY <2>3, InsertRows, Zenon
    <2>5. RowsOf(Insert(chunks[k], BatchesOf(k, ops), n))
             = RowsOf(chunks[k]) \cup BatchesOf(k, ops)
        BY <2>3, InsertRows, Zenon
    <2> QED
        BY <2>1, <2>2, <2>4, <2>5
<1>2. new \in [Keys -> Chunk]
    BY <1>1 DEF ApplyOps
<1>3. ASSUME NEW b \in ops PROVE \E k \in Keys : b \in RowsOf(new[k])
    <2>1. b \in Batches
        OBVIOUS
    <2>2. <<TableOf[b], WindowOf(b)>> \in Keys
        BY <2>1, WindowsAreNat
    <2>3. b \in BatchesOf(<<TableOf[b], WindowOf(b)>>, ops)
        BY <2>1 DEF BatchesOf
    <2> QED
        BY <1>1, <2>2, <2>3
<1> QED
    BY <1>1, <1>2, <1>3

(* Applying a WAL file leaves a buffer of chunks. *)
LEMMA ApplyOpsType ==
    ASSUME NEW chunks, chunks \in [Keys -> Chunk], NEW ops, ops \subseteq Batches,
           NEW n, n \in Nat
    PROVE  ApplyOps(chunks, ops, n) \in [Keys -> Chunk]
<1>1. ops \in SUBSET Batches
    OBVIOUS
<1> QED
    BY <1>1, ApplyOpsRows, Zenon

(* Each chunk gains the batches of the file that fall in its window. *)
LEMMA ApplyOpsAt ==
    ASSUME NEW chunks, chunks \in [Keys -> Chunk], NEW ops, ops \subseteq Batches,
           NEW n, n \in Nat, NEW k, k \in Keys
    PROVE  /\ BatchesOf(k, ops) \subseteq ops
           /\ ApplyOps(chunks, ops, n)[k] = Insert(chunks[k], BatchesOf(k, ops), n)
           /\ RowsOf(ApplyOps(chunks, ops, n)[k])
                 = RowsOf(chunks[k]) \cup BatchesOf(k, ops)
<1>1. ops \in SUBSET Batches
    OBVIOUS
<1> QED
    BY <1>1, ApplyOpsRows, ZenonT(60)

(* Every batch of an applied file is then in the buffer. *)
LEMMA ApplyOpsAll ==
    ASSUME NEW chunks, chunks \in [Keys -> Chunk], NEW ops, ops \subseteq Batches,
           NEW n, n \in Nat, NEW b, b \in ops
    PROVE  \E k \in Keys : b \in RowsOf(ApplyOps(chunks, ops, n)[k])
<1>1. ops \in SUBSET Batches
    OBVIOUS
<1> QED
    BY <1>1, ApplyOpsRows, Zenon

(* A drain takes nothing but captured rows. *)
LEMMA DrainCaptured ==
    ASSUME NEW c \in Chunk, NEW captured \in Nat, NEW d,
           d = DrainChunk(c, captured)
    PROVE  /\ d \in Chunk
           /\ RowsOf(d) \subseteq RowsOf(c)
           /\ \A b \in RowsOf(c) \ RowsOf(d) :
                 \E i \in 1 .. captured : i <= Len(c.rows) /\ b \in c.rows[i]
           /\ d.hi <= c.hi
           /\ d.rows # << >> => c.rows # << >> /\ d.lo = c.lo /\ d.hi = c.hi
<1>1. c.rows \in Seq(SUBSET Batches) /\ DOMAIN c.rows = 1 .. Len(c.rows)
          /\ Len(c.rows) \in Nat
    BY DEF Chunk
<1>2. CASE captured >= Len(c.rows)
    <2>1. d = NewChunk
        BY <1>2 DEF DrainChunk
    <2>2. d.rows = << >> /\ d.hi <= c.hi
        BY <2>1 DEF NewChunk, Chunk
    <2> QED
        BY <1>1, <1>2, <2>1, <2>2, NewChunkEmpty DEF RowsOf
<1>3. CASE captured < Len(c.rows)
    <2> DEFINE rs == SubSeq(c.rows, captured + 1, Len(c.rows))
    <2>1. /\ rs \in Seq(SUBSET Batches)
          /\ Len(rs) = Len(c.rows) - captured
          /\ \A i \in 1 .. Len(c.rows) - captured : rs[i] = c.rows[i + captured]
        BY <1>1, <1>3
    <2>2. DOMAIN rs = 1 .. Len(c.rows) - captured
        BY <2>1
    <2>3. d = [c EXCEPT !.rows = rs]
        BY <1>1, <1>3 DEF DrainChunk
    <2> HIDE DEF rs
    <2>4. /\ d \in Chunk /\ d.rows = rs
          /\ d.lo = c.lo /\ d.hi = c.hi /\ d.hi <= c.hi
          /\ c.rows # << >>
        BY <1>1, <1>3, <2>1, <2>3 DEF Chunk
    <2>5. ASSUME NEW b \in RowsOf(d) PROVE b \in RowsOf(c)
        <3>1. PICK i \in 1 .. Len(c.rows) - captured : b \in rs[i]
            BY <2>2, <2>4 DEF RowsOf
        <3>2. i + captured \in DOMAIN c.rows
            BY <1>1, <1>3
        <3> QED
            BY <2>1, <3>1, <3>2 DEF RowsOf
    <2>6. ASSUME NEW b \in RowsOf(c), b \notin RowsOf(d)
          PROVE  \E i \in 1 .. captured : i <= Len(c.rows) /\ b \in c.rows[i]
        <3>1. PICK i \in 1 .. Len(c.rows) : b \in c.rows[i]
            BY <1>1 DEF RowsOf
        <3>2. ASSUME i > captured PROVE FALSE
            <4>1. /\ i - captured \in 1 .. Len(c.rows) - captured
                  /\ (i - captured) + captured = i
                BY <1>1, <3>2
            <4>2. b \in rs[i - captured]
                BY <2>1, <3>1, <4>1
            <4> QED
                BY <2>2, <2>4, <2>6, <4>1, <4>2 DEF RowsOf
        <3> QED
            BY <1>1, <3>1, <3>2
    <2> QED
        BY <2>4, <2>5, <2>6
<1> QED
    BY <1>1, <1>2, <1>3

-----------------------------------------------------------------------------
(* Files *)

(* Whatever the backend, what is in the store and what is put there is in the
   store afterwards or accounted for in Clobbered. *)
LEMMA PutKeeps ==
    ASSUME NEW store, NEW N, NEW name \in N, NEW rows \in SUBSET Batches,
           DOMAIN store \subseteq N, store \in [DOMAIN store -> SUBSET Batches]
    PROVE  /\ DOMAIN Put(store, name, rows) \subseteq N
           /\ Put(store, name, rows)
                 \in [DOMAIN Put(store, name, rows) -> SUBSET Batches]
           /\ Clobbered(store, name, rows) \subseteq Batches
           /\ Contents(store) \cup rows
                 \subseteq Contents(Put(store, name, rows))
                              \cup Clobbered(store, name, rows)
<1> DEFINE new == Put(store, name, rows)
           lost == Clobbered(store, name, rows)
<1>1. CASE Backend = "http" /\ name \in DOMAIN store
    BY <1>1 DEF Put, Clobbered, Contents
<1>2. CASE ~(Backend = "http" /\ name \in DOMAIN store)
    <2>1. new = Bind(store, name, rows)
        BY <1>2 DEF Put, Overwrite
    <2>2. /\ DOMAIN new = DOMAIN store \cup {name}
          /\ new \in [DOMAIN new -> SUBSET Batches]
          /\ new[name] = rows
          /\ \A y \in DOMAIN store \ {name} : new[y] = store[y]
        BY <2>1 DEF Bind
    <2>3. /\ name \in DOMAIN store => lost = store[name] \ rows
          /\ lost \subseteq Batches
        BY <1>2 DEF Clobbered
    <2> HIDE DEF new, lost
    <2>4. Contents(store) \cup rows \subseteq Contents(new) \cup lost
        BY <2>2, <2>3 DEF Contents
    <2> QED
        BY <2>2, <2>3, <2>4 DEF new, lost
<1> QED
    BY <1>1, <1>2
=============================================================================
