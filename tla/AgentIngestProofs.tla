------------------------- MODULE AgentIngestProofs -------------------------
(***************************************************************************)
(* The safety of AgentIngest, for every set of batches, tables, handlers   *)
(* and requests, every backend and every number of crashes and faults.     *)
(*                                                                         *)
(* IInv is inductive: one lemma per action, and in it one step per part of *)
(* IInv the action can disturb.  The parts about the WAL hold together: a   *)
(* row may leave the set of files above the watermark only when its chunk  *)
(* is gone (BufferInv), so its task must have had it applied (GapInv), or  *)
(* it is in uncovered.  The parts about the capture (JobInv) carry a        *)
(* drained row over to its durable copy (AckedInv).                         *)
(***************************************************************************)
EXTENDS AgentIngest, AgentDataLemmas, FiniteSetTheorems

-----------------------------------------------------------------------------
(* Frames: steps that leave a part of the invariant alone. *)

(* A step that leaves the files and the buffer alone, and raises no watermark,
   keeps the invariants about them. *)
LEMMA WalFrame ==
    ASSUME IInv, UNCHANGED <<curSeq, wal, late, unread, abandoned, meta, gap, chunks, crashes>>,
           safe' \in Nat, safe' <= safe, uncovered \subseteq uncovered',
           Running => Running'
    PROVE  FreshSequence' /\ BoundsInv' /\ LateInv' /\ UnreadInv' /\ BufferInv' /\ GapInv'
<1>1. FreshSequence'
    BY DEF IInv, FreshSequence
<1>2. BoundsInv'
    BY DEF IInv, TypeOK, BoundsInv, InGap, Running
<1>6. LateInv'
    BY DEF IInv, LateInv, Running
<1>3. ASSUME NEW n, Kept(n) PROVE Kept(n)'
    BY <1>3 DEF IInv, TypeOK, Kept
<1>4. BufferInv'
    BY <1>3 DEF IInv, BufferInv
<1>5. GapInv'
    BY <1>3 DEF IInv, GapInv, InGap
<1>7. UnreadInv'
    BY <1>3 DEF IInv, UnreadInv
<1> QED
    BY <1>1, <1>2, <1>4, <1>5, <1>6, <1>7

(* A step that only moves rows between buffer, staging and store keeps every
   acknowledged row in reach. *)
LEMMA AckedFrame ==
    ASSUME AckedInv, acked' = acked, crashes' = crashes,
           Running \/ UNCHANGED <<pc, wal, meta, cursor>>,
           uncovered \subseteq uncovered', clobbered \subseteq clobbered',
           UNCHANGED <<wal, unread>> \/ Unread \subseteq Unread' \cup Lost',
           Buffered \cup Staged \cup Delivered
              \subseteq Buffered' \cup Staged' \cup Delivered' \cup clobbered'
    PROVE  AckedInv'
<1>1. Lost \subseteq Lost' /\ clobbered' \subseteq Lost'
    BY DEF Lost
<1>2. Unread \subseteq Unread' \cup Lost'
    BY DEF Unread
<1>3. (pc = "replay" => UNCHANGED <<pc, wal, ToReplay>>)
    BY DEF Running, ToReplay
<1> HIDE DEF Unread, Lost, ToReplay
<1> QED
    BY <1>1, <1>2, <1>3 DEF AckedInv, Running

(* A step that changes neither buffer nor capture keeps JobInv, as long as it
   does not enter the phases the capture is for. *)
LEMMA JobFrame ==
    ASSUME JobInv, UNCHANGED <<chunks, job>>, pc' \notin {"upload", "drain"},
           pc' = "stage" => pc \in {"upload", "stage"}
    PROVE  JobInv'
    BY DEF JobInv, Buffered

(* The invariant holds when an agent starts with an empty data directory. *)
LEMMA InitIInv == Init => IInv
<1> SUFFICES ASSUME Init PROVE IInv
    OBVIOUS
<1> USE DEF Init
<1>1. TypeOK
    <2>1. Cardinality({}) = 0
        BY FS_EmptySet
    <2>2. chunks \in [Keys -> Chunk]
        BY NewChunkEmpty
    <2>3. gap \in [Tasks -> [ops : SUBSET Batches, seq : Nat, req : SUBSET Batches]]
        BY DEF NoGap
    <2>4. todo \in [Tables -> SUBSET Windows]
        BY DEF NoTodo
    <2>5. EmptyFcn \in [DOMAIN EmptyFcn -> SUBSET Batches] /\ DOMAIN EmptyFcn = {}
        BY DEF EmptyFcn
    <2>6. /\ DOMAIN wal \subseteq Nat \ {0} /\ wal \in [DOMAIN wal -> SUBSET Batches]
          /\ DOMAIN staged \subseteq Names /\ staged \in [DOMAIN staged -> SUBSET Batches]
          /\ DOMAIN store \subseteq Names /\ store \in [DOMAIN store -> SUBSET Batches]
        BY <2>5, Zenon
    <2>7. OpLimit \in Nat /\ MaxCrashes \in Nat /\ MaxFaults \in Nat
        BY AgentAssumption
    <2> QED
        BY <2>1, <2>2, <2>3, <2>4, <2>6, <2>7 DEF TypeOK
<1>2. FreshSequence /\ BoundsInv /\ LateInv /\ UnreadInv
    BY DEF FreshSequence, BoundsInv, LateInv, UnreadInv, Running, InGap, EmptyFcn, NoGap, NewChunk
<1>3. BufferInv /\ GapInv /\ JobInv /\ AckedInv
    BY NewChunkEmpty DEF BufferInv, GapInv, InGap, NoGap, JobInv, AckedInv
<1> QED
    BY <1>1, <1>2, <1>3 DEF IInv

-----------------------------------------------------------------------------
(* Writes *)

(* A write to the file of number curSeq, complete or torn. *)
LEMMA WalWrite ==
    ASSUME IInv, NEW ops, ops \subseteq Batches,
           wal' = Bind(wal, curSeq, ops)
    PROVE  /\ DOMAIN wal' = DOMAIN wal \cup {curSeq}
           /\ DOMAIN wal' \subseteq Nat \ {0} /\ wal' \in [DOMAIN wal' -> SUBSET Batches]
           /\ wal'[curSeq] = ops
           /\ \A n \in DOMAIN wal : n < curSeq => wal'[n] = wal[n]
<1>1. /\ DOMAIN wal \subseteq Nat \ {0} /\ wal \in [DOMAIN wal -> SUBSET Batches]
      /\ curSeq \in Nat \ {0}
    BY DEF IInv, TypeOK
<1> QED
    BY <1>1 DEF Bind

(* A successful WAL flush: the new file is above the watermark and holds what
   the task goes on to apply. *)
LEMMA FlushFileStep ==
    ASSUME IInv, Running, NEW t \in Tasks, NEW ops, ops \subseteq Batches,
           NEW req, req \subseteq ops, FlushFile(t, ops, req),
           UNCHANGED <<meta, chunks, schedVars, uncovered, crashes>>
    PROVE  /\ DOMAIN wal' \subseteq Nat \ {0} /\ wal' \in [DOMAIN wal' -> SUBSET Batches]
           /\ FreshSequence' /\ BoundsInv' /\ LateInv' /\ UnreadInv' /\ BufferInv' /\ GapInv'
           /\ Unread \subseteq Unread'
<1> USE DEF schedVars
<1>1. /\ wal' = Bind(wal, curSeq, ops) /\ curSeq' = curSeq + 1 /\ unread' = unread
      /\ gap' = [gap EXCEPT ![t] = [ops |-> ops, seq |-> curSeq, req |-> req]]
    BY DEF FlushFile
<1>2. /\ DOMAIN wal' = DOMAIN wal \cup {curSeq}
      /\ DOMAIN wal' \subseteq Nat \ {0} /\ wal' \in [DOMAIN wal' -> SUBSET Batches]
      /\ wal'[curSeq] = ops
      /\ \A n \in DOMAIN wal : n < curSeq => wal'[n] = wal[n]
    BY <1>1, WalWrite
<1>3. /\ curSeq \in Nat \ {0} /\ meta \in Nat /\ safe \in Nat
      /\ DOMAIN wal \subseteq Nat \ {0}
      /\ gap \in [Tasks -> [ops : SUBSET Batches, seq : Nat, req : SUBSET Batches]]
      /\ chunks \in [Keys -> Chunk]
    BY DEF IInv, TypeOK
<1>4. /\ meta < curSeq /\ safe < curSeq
      /\ \A n \in DOMAIN wal : n <= curSeq
    BY <1>3 DEF IInv, FreshSequence, BoundsInv
<1>5. FreshSequence'
    BY <1>1, <1>2, <1>3, <1>4 DEF FreshSequence
<1>6. BoundsInv'
    <2>1. \A k \in Keys : chunks[k].lo \in Nat /\ chunks[k].hi \in Nat
        BY <1>3 DEF Chunk
    <2>2. \A u \in Tasks : gap'[u].seq <= curSeq
        BY <1>1, <1>3 DEF IInv, BoundsInv
    <2>3. \A u \in Tasks : InGap(u)' => 0 < gap'[u].seq
        BY <1>1, <1>3 DEF IInv, BoundsInv, InGap
    <2> QED
        BY <1>1, <1>3, <1>4, <2>1, <2>2, <2>3 DEF IInv, BoundsInv
<1>10. LateInv'
    <2>1. late \subseteq [seq : Nat \ {0}, ops : SUBSET Batches]
        BY DEF IInv, TypeOK
    <2> QED
        BY <1>1, <1>3, <2>1 DEF IInv, LateInv, Running, FlushFile
<1>7. ASSUME NEW n \in DOMAIN wal, Kept(n) PROVE Kept(n)' /\ wal'[n] = wal[n]
    <2>1. n < curSeq /\ n \in Nat
        BY <1>3, <1>7 DEF Kept
    <2> QED
        BY <1>1, <1>2, <1>3, <1>7, <2>1 DEF Kept
<1>11. UnreadInv' /\ Unread \subseteq Unread'
    <2>1. \A n \in unread : n \in DOMAIN wal /\ Kept(n)
        BY DEF IInv, UnreadInv, Kept
    <2> QED
        BY <1>1, <1>7, <2>1 DEF IInv, UnreadInv, Unread, Running
<1>8. BufferInv'
    <2>1. SUFFICES ASSUME NEW k \in Keys, NEW b \in RowsOf(chunks[k]) \ uncovered
                   PROVE  \E n \in DOMAIN wal' :
                            b \in wal'[n] /\ Kept(n)' /\ chunks[k].lo <= n
        BY DEF BufferInv
    <2>2. PICK n \in DOMAIN wal : b \in wal[n] /\ Kept(n) /\ chunks[k].lo <= n
        BY DEF IInv, BufferInv
    <2> QED
        BY <1>2, <1>7, <2>2
<1>9. GapInv'
    <2>1. SUFFICES ASSUME NEW u \in Tasks, InGap(u)'
                   PROVE  \/ gap'[u].ops \subseteq uncovered
                          \/ Kept(gap[u].seq)' /\ wal'[gap'[u].seq] = gap'[u].ops
        <3>1. \A u \in Tasks : gap'[u].req \subseteq gap'[u].ops
            BY <1>1, <1>3 DEF IInv, GapInv
        <3> QED
            BY <3>1 DEF GapInv, Running
    <2>2. CASE u = t
        <3>1. gap'[u].ops = ops /\ gap'[u].seq = curSeq
            BY <1>1, <1>3, <2>2
        <3> QED
            BY <1>1, <1>2, <1>3, <1>4, <3>1 DEF Kept
    <2>3. CASE u # t
        <3>1. gap'[u] = gap[u]
            BY <1>1, <1>3, <2>3
        <3>2. gap[u].ops # {}
            BY <2>1, <3>1 DEF InGap
        <3>3. \/ gap[u].ops \subseteq uncovered
              \/ Kept(gap[u].seq) /\ wal[gap[u].seq] = gap[u].ops
            BY <3>2 DEF IInv, GapInv, InGap
        <3>4. Kept(gap[u].seq) => gap[u].seq \in DOMAIN wal
            BY DEF Kept
        <3> QED
            BY <1>2, <1>7, <3>1, <3>2, <3>3, <3>4
    <2> QED
        BY <2>2, <2>3
<1> QED
    BY <1>2, <1>5, <1>6, <1>8, <1>9, <1>10, <1>11

(* A failed WAL flush: at most a torn file appears, under the number that the
   next flush uses. *)
LEMMA FlushFailsStep ==
    ASSUME IInv, Running, FlushFails,
           UNCHANGED <<meta, chunks, schedVars, uncovered, crashes>>
    PROVE  /\ DOMAIN wal' \subseteq Nat \ {0} /\ wal' \in [DOMAIN wal' -> SUBSET Batches]
           /\ FreshSequence' /\ BoundsInv' /\ LateInv' /\ UnreadInv' /\ BufferInv' /\ GapInv'
           /\ Unread \subseteq Unread'
<1> USE DEF schedVars
<1>1. /\ UNCHANGED <<curSeq, late, unread, abandoned, gap>>
      /\ wal' = wal \/ wal' = Bind(wal, curSeq, {})
    BY DEF FlushFails
<1>2. CASE wal' = wal
    <2>1. safe \in Nat
        BY DEF IInv, TypeOK
    <2>2. FreshSequence' /\ BoundsInv' /\ LateInv' /\ UnreadInv' /\ BufferInv' /\ GapInv'
        BY <1>1, <1>2, <2>1, WalFrame DEF Running
    <2>3. DOMAIN wal \subseteq Nat \ {0} /\ wal \in [DOMAIN wal -> SUBSET Batches]
        BY DEF IInv, TypeOK
    <2> QED
        BY <1>1, <1>2, <2>2, <2>3 DEF Unread
<1>3. CASE wal' = Bind(wal, curSeq, {})
    <2>1. /\ DOMAIN wal' = DOMAIN wal \cup {curSeq}
          /\ DOMAIN wal' \subseteq Nat \ {0} /\ wal' \in [DOMAIN wal' -> SUBSET Batches]
          /\ wal'[curSeq] = {}
          /\ \A n \in DOMAIN wal : n < curSeq => wal'[n] = wal[n]
        <3> DEFINE torn == {}
        <3>1. torn \subseteq Batches /\ wal' = Bind(wal, curSeq, torn)
            BY <1>3
        <3> HIDE DEF torn
        <3>2. /\ DOMAIN wal' = DOMAIN wal \cup {curSeq}
              /\ DOMAIN wal' \subseteq Nat \ {0}
              /\ wal' \in [DOMAIN wal' -> SUBSET Batches]
              /\ wal'[curSeq] = torn
              /\ \A n \in DOMAIN wal : n < curSeq => wal'[n] = wal[n]
            BY <3>1, WalWrite
        <3> QED
            BY <3>2 DEF torn
    <2>2. FreshSequence'
        BY <1>1, <2>1 DEF IInv, FreshSequence
    <2>3. BoundsInv'
        BY <1>1 DEF IInv, BoundsInv, InGap
    <2>7. LateInv'
        BY <1>1, <2>1 DEF IInv, LateInv, Running
    <2>4. ASSUME NEW n \in DOMAIN wal, Kept(n) PROVE Kept(n)' /\ wal'[n] = wal[n]
        BY <1>1, <2>1, <2>4 DEF Kept
    <2>8. UnreadInv' /\ Unread \subseteq Unread'
        <3>1. \A n \in unread : n \in DOMAIN wal /\ Kept(n)
            BY DEF IInv, UnreadInv, Kept
        <3> QED
            BY <1>1, <2>4, <3>1 DEF IInv, UnreadInv, Unread, Running
    <2>5. BufferInv'
        <3>1. SUFFICES ASSUME NEW k \in Keys, NEW b \in RowsOf(chunks[k]) \ uncovered
                       PROVE  \E n \in DOMAIN wal' :
                                b \in wal'[n] /\ Kept(n)' /\ chunks[k].lo <= n
            BY DEF BufferInv
        <3>2. PICK n \in DOMAIN wal : b \in wal[n] /\ Kept(n) /\ chunks[k].lo <= n
            BY DEF IInv, BufferInv
        <3> QED
            BY <2>1, <2>4, <3>2
    <2>6. GapInv'
        <3>1. SUFFICES ASSUME NEW u \in Tasks, InGap(u)
                       PROVE  \/ gap[u].ops \subseteq uncovered
                              \/ Kept(gap[u].seq)' /\ wal'[gap[u].seq] = gap[u].ops
            BY <1>1 DEF IInv, GapInv, InGap, Running
        <3>2. CASE gap[u].ops \subseteq uncovered
            BY <3>2
        <3>3. CASE Kept(gap[u].seq) /\ wal[gap[u].seq] = gap[u].ops
            <4>1. gap[u].seq \in DOMAIN wal
                BY <3>3 DEF Kept
            <4>2. wal'[gap[u].seq] = gap[u].ops
                BY <2>4, <3>3, <4>1
            <4>3. Kept(gap[u].seq)'
                BY <1>1, <2>4, <3>3, <4>1
            <4> QED
                BY <4>2, <4>3
        <3> QED
            BY <3>1, <3>2, <3>3 DEF IInv, GapInv
    <2> QED
        BY <2>1, <2>2, <2>3, <2>5, <2>6, <2>7, <2>8
<1> QED
    BY <1>1, <1>2, <1>3

(* A flush whose client goes away: for now nothing is written. *)
LEMMA FlushAbandonedStep ==
    ASSUME IInv, Running, NEW ops, ops \subseteq Batches, FlushAbandoned(ops),
           UNCHANGED <<meta, chunks, schedVars, uncovered, crashes>>
    PROVE  /\ DOMAIN wal' \subseteq Nat \ {0} /\ wal' \in [DOMAIN wal' -> SUBSET Batches]
           /\ late' \subseteq [seq : Nat \ {0}, ops : SUBSET Batches]
           /\ abandoned' \subseteq Batches
           /\ FreshSequence' /\ BoundsInv' /\ LateInv' /\ UnreadInv' /\ BufferInv' /\ GapInv'
           /\ Unread \subseteq Unread'
<1> USE DEF schedVars
<1>1. /\ late' = late \cup {[seq |-> curSeq, ops |-> ops]}
      /\ abandoned' = abandoned \cup ops
      /\ UNCHANGED <<curSeq, wal, unread, gap>>
    BY DEF FlushAbandoned
<1>2. /\ DOMAIN wal \subseteq Nat \ {0} /\ wal \in [DOMAIN wal -> SUBSET Batches]
      /\ late \subseteq [seq : Nat \ {0}, ops : SUBSET Batches] /\ abandoned \subseteq Batches
      /\ curSeq \in Nat \ {0}
    BY DEF IInv, TypeOK
<1>3. FreshSequence'
    BY <1>1 DEF IInv, FreshSequence
<1>4. BoundsInv'
    BY <1>1 DEF IInv, BoundsInv, InGap
<1>5. LateInv'
    BY <1>1, <1>2 DEF IInv, LateInv, Running
<1>6. BufferInv' /\ GapInv'
    BY <1>1 DEF IInv, BufferInv, GapInv, InGap, Kept, Running
<1>7. UnreadInv' /\ Unread \subseteq Unread'
    BY <1>1 DEF IInv, UnreadInv, Unread, Kept, Running
<1> QED
    BY <1>1, <1>2, <1>3, <1>4, <1>5, <1>6, <1>7

(* A step that leaves the scheduler, the buffer and the copies alone keeps
   JobInv. *)
LEMMA JobSame ==
    ASSUME JobInv, UNCHANGED <<pc, chunks, job, staged, store, clobbered>>
    PROVE  JobInv'
    BY DEF JobInv, Staged, Delivered, Buffered

(* A request that is flushed, or whose flush fails, keeps the invariant. *)
LEMMA WriteStep ==
    ASSUME IInv, NEW h \in Handlers, NEW req \in Requests, Write(h, req)
    PROVE  IInv'
<1> DEFINE ops == pending \cup req
<1>1. /\ Running /\ req \subseteq Batches /\ ops \subseteq Batches
      /\ pending' = {} /\ sent' = sent \cup req
      /\ FlushFile(h, ops, req) \/ FlushFails \/ FlushAbandoned(ops)
      /\ UNCHANGED <<meta, chunks, pc, todo, job, safe, cursor, staged, net, store,
                     crashes, acked, uncovered, overtaken, clobbered, aborted>>
    BY DataAssumption DEF Write, schedVars, FlushFile, FlushFails, FlushAbandoned, IInv, TypeOK
<1>2. /\ DOMAIN wal' \subseteq Nat \ {0} /\ wal' \in [DOMAIN wal' -> SUBSET Batches]
      /\ late' \subseteq [seq : Nat \ {0}, ops : SUBSET Batches] /\ abandoned' \subseteq Batches
      /\ FreshSequence' /\ BoundsInv' /\ LateInv' /\ UnreadInv' /\ BufferInv' /\ GapInv'
      /\ Unread \subseteq Unread'
    <2>1. UNCHANGED <<meta, chunks, schedVars, uncovered, crashes>> /\ h \in Tasks
        BY <1>1 DEF schedVars, Tasks
    <2>2. req \subseteq ops
        OBVIOUS
    <2> HIDE DEF ops
    <2>5. FlushFile(h, ops, req) \/ FlushFails =>
             /\ late' \subseteq [seq : Nat \ {0}, ops : SUBSET Batches]
             /\ abandoned' \subseteq Batches
        BY DEF FlushFile, FlushFails, IInv, TypeOK
    <2>3. CASE FlushFails
        BY <1>1, <2>1, <2>3, <2>5, FlushFailsStep
    <2>4. CASE FlushFile(h, ops, req)
        BY <1>1, <2>1, <2>2, <2>4, <2>5, FlushFileStep, Zenon
    <2>6. CASE FlushAbandoned(ops)
        BY <1>1, <2>1, <2>6, FlushAbandonedStep, Zenon
    <2> QED
        BY <1>1, <2>3, <2>4, <2>6
<1>3. TypeOK'
    <2>1. Cardinality({}) <= OpLimit
        BY FS_EmptySet, AgentAssumption
    <2>2. /\ curSeq' \in Nat \ {0} /\ faults' \in 0 .. MaxFaults /\ unread' \subseteq Nat
          /\ gap' \in [Tasks -> [ops : SUBSET Batches, seq : Nat, req : SUBSET Batches]]
        BY <1>1, AgentAssumption DEF IInv, TypeOK, FlushFile, FlushFails, FlushAbandoned, Fault
    <2> QED
        BY <1>1, <1>2, <2>1, <2>2 DEF IInv, TypeOK
<1>4. JobInv'
    BY <1>1, JobSame DEF IInv
<1>5. AckedInv'
    <2>1. Buffered' = Buffered /\ Staged' = Staged /\ Delivered' = Delivered
        BY <1>1 DEF Buffered, Staged, Delivered
    <2> QED
        BY <1>1, <1>2, <2>1, AckedFrame DEF IInv, Running
<1> QED
    BY <1>2, <1>3, <1>4, <1>5 DEF IInv

(* A request answered 503 for a full buffer keeps the invariant. *)
LEMMA WriteRejectedStep ==
    ASSUME IInv, NEW h \in Handlers, NEW req \in Requests, WriteRejected(h, req)
    PROVE  IInv'
<1>1. /\ Running /\ sent' = sent \cup req /\ req \subseteq Batches
      /\ UNCHANGED <<curSeq, wal, late, unread, abandoned, meta, gap, chunks, pc, todo, job, safe, cursor,
                     staged, net, store, crashes, faults, acked, uncovered,
                     overtaken, clobbered, aborted>>
    BY DataAssumption DEF WriteRejected, schedVars
<1>2. FreshSequence' /\ BoundsInv' /\ LateInv' /\ UnreadInv' /\ BufferInv' /\ GapInv'
    <2>1. safe \in Nat
        BY DEF IInv, TypeOK
    <2> QED
        BY <1>1, <2>1, WalFrame DEF Running
<1>3. TypeOK'
    <2>1. PICK fit \in SUBSET req : /\ Cardinality(pending \cup fit) = OpLimit
                                   /\ pending' = pending \cup fit
        BY DEF WriteRejected
    <2>2. Cardinality(pending') <= OpLimit /\ pending' \subseteq Batches
        BY <1>1, <2>1, AgentAssumption DEF IInv, TypeOK
    <2> QED
        BY <1>1, <2>2 DEF IInv, TypeOK
<1>4. JobInv'
    BY <1>1, JobSame DEF IInv
<1>5. AckedInv'
    <2>1. Buffered' = Buffered /\ Staged' = Staged /\ Delivered' = Delivered
        BY <1>1 DEF Buffered, Staged, Delivered
    <2> QED
        BY <1>1, <2>1, AckedFrame DEF IInv
<1> QED
    BY <1>2, <1>3, <1>4, <1>5 DEF IInv

(* The first half of the periodic flush keeps the invariant. *)
LEMMA TickStep ==
    ASSUME IInv, Tick
    PROVE  IInv'
<1>1. /\ Running /\ pending \subseteq Batches /\ pending' = {}
      /\ FlushFile(Ticker, pending, {}) \/ FlushFails
      /\ UNCHANGED <<late, unread, abandoned>>
      /\ UNCHANGED <<meta, chunks, pc, todo, job, safe, cursor, staged, net, store,
                     crashes, sent, acked, uncovered, overtaken, clobbered, aborted>>
    BY DEF Tick, schedVars, FlushFile, FlushFails, IInv, TypeOK
<1>2. /\ DOMAIN wal' \subseteq Nat \ {0} /\ wal' \in [DOMAIN wal' -> SUBSET Batches]
      /\ FreshSequence' /\ BoundsInv' /\ LateInv' /\ UnreadInv' /\ BufferInv' /\ GapInv'
      /\ Unread \subseteq Unread'
    <2>1. UNCHANGED <<meta, chunks, schedVars, uncovered, crashes>> /\ Ticker \in Tasks
        BY <1>1 DEF schedVars, Tasks
    <2>2. CASE FlushFails
        BY <1>1, <2>1, <2>2, FlushFailsStep
    <2>3. CASE FlushFile(Ticker, pending, {})
        <3> DEFINE req == {}
        <3>1. FlushFile(Ticker, pending, req) /\ req \subseteq pending
            BY <2>3
        <3> HIDE DEF req
        <3> QED
            BY <1>1, <2>1, <3>1, FlushFileStep, Zenon
    <2> QED
        BY <1>1, <2>2, <2>3
<1>3. TypeOK'
    <2>1. Cardinality({}) <= OpLimit
        BY FS_EmptySet, AgentAssumption
    <2>2. /\ curSeq' \in Nat \ {0} /\ faults' \in 0 .. MaxFaults /\ unread' \subseteq Nat
          /\ gap' \in [Tasks -> [ops : SUBSET Batches, seq : Nat, req : SUBSET Batches]]
        BY <1>1, AgentAssumption DEF IInv, TypeOK, FlushFile, FlushFails, Fault
    <2> QED
        BY <1>1, <1>2, <2>1, <2>2 DEF IInv, TypeOK
<1>4. JobInv'
    BY <1>1, JobSame DEF IInv
<1>5. AckedInv'
    <2>1. Buffered' = Buffered /\ Staged' = Staged /\ Delivered' = Delivered
        BY <1>1 DEF Buffered, Staged, Delivered
    <2> QED
        BY <1>1, <1>2, <2>1, AckedFrame DEF IInv, Running
<1> QED
    BY <1>2, <1>3, <1>4, <1>5 DEF IInv

(* An abandoned write that gets to the disk keeps the invariant: whatever it goes
   over is noted, and the next number is still one that holds nothing of use. *)
LEMMA LateWriteStep ==
    ASSUME IInv, NEW w \in late, LateWrite(w)
    PROVE  IInv'
<1>1. /\ late' = late \ {w}
      /\ uncovered' = uncovered \cup (IF w.seq \in DOMAIN wal THEN wal[w.seq] ELSE {})
      /\ UNCHANGED <<pending, curSeq, unread, abandoned, meta, gap, chunks, pc, todo, job,
                     safe, cursor, staged, net, store, crashes, faults, sent, acked, overtaken,
                     clobbered, aborted>>
    BY DEF LateWrite, schedVars
<1>2. PICK left \in {w.ops, {}} : wal' = Bind(wal, w.seq, left)
    BY DEF LateWrite
<1>3. /\ DOMAIN wal \subseteq Nat \ {0} /\ wal \in [DOMAIN wal -> SUBSET Batches]
      /\ w.seq \in Nat \ {0} /\ w.seq <= curSeq /\ Running
      /\ left \subseteq abandoned /\ left \subseteq Batches /\ uncovered \subseteq Batches
    BY DEF IInv, TypeOK, LateInv, Running
<1>4. /\ DOMAIN wal' = DOMAIN wal \cup {w.seq}
      /\ wal' \in [DOMAIN wal' -> SUBSET Batches]
      /\ wal'[w.seq] = left
      /\ \A n \in DOMAIN wal : n # w.seq => wal'[n] = wal[n]
    BY <1>2, <1>3 DEF Bind
<1>5. ASSUME NEW n, Kept(n) PROVE Kept(n)'
    BY <1>1, <1>4, <1>5 DEF Kept
<1>6. TypeOK'
    <2>1. /\ DOMAIN wal' \subseteq Nat \ {0} /\ uncovered' \subseteq Batches
          /\ late' \subseteq [seq : Nat \ {0}, ops : SUBSET Batches]
        BY <1>1, <1>3, <1>4 DEF IInv, TypeOK
    <2> QED
        BY <1>1, <1>4, <2>1 DEF IInv, TypeOK
<1>7. FreshSequence'
    <2>1. curSeq \in Nat
        BY DEF IInv, TypeOK
    <2> QED
        BY <1>1, <1>3, <1>4, <2>1 DEF IInv, FreshSequence
<1>8. BoundsInv' /\ LateInv' /\ UnreadInv'
    BY <1>1, <1>3, <1>5 DEF IInv, BoundsInv, LateInv, UnreadInv, InGap, Running
<1>9. BufferInv'
    <2> SUFFICES ASSUME NEW k \in Keys, NEW b \in RowsOf(chunks[k]), b \notin uncovered'
                 PROVE  \E n \in DOMAIN wal' :
                          b \in wal'[n] /\ Kept(n)' /\ chunks[k].lo <= n
        BY <1>1 DEF BufferInv
    <2>1. PICK n \in DOMAIN wal : b \in wal[n] /\ Kept(n) /\ chunks[k].lo <= n
        BY <1>1 DEF IInv, BufferInv
    <2>2. n # w.seq
        BY <1>1, <2>1
    <2> QED
        BY <1>4, <1>5, <2>1, <2>2
<1>10. GapInv'
    <2> SUFFICES ASSUME NEW u \in Tasks, InGap(u)
                 PROVE  \/ gap[u].ops \subseteq uncovered'
                        \/ Kept(gap[u].seq)' /\ wal'[gap[u].seq] = gap[u].ops
        BY <1>1 DEF IInv, GapInv, InGap, Running
    <2>1. \/ gap[u].ops \subseteq uncovered
          \/ Kept(gap[u].seq) /\ wal[gap[u].seq] = gap[u].ops
        BY DEF IInv, GapInv
    <2>2. CASE Kept(gap[u].seq) /\ wal[gap[u].seq] = gap[u].ops
        <3>1. gap[u].seq \in DOMAIN wal
            BY <2>2 DEF Kept
        <3>2. CASE gap[u].seq = w.seq
            BY <1>1, <2>2, <3>1, <3>2
        <3>3. CASE gap[u].seq # w.seq
            <4>1. Kept(gap[u].seq)'
                BY <1>1, <1>5, <2>2
            <4> QED
                BY <1>4, <2>2, <3>1, <3>3, <4>1
        <3> QED
            BY <3>2, <3>3
    <2> QED
        BY <1>1, <2>1, <2>2
<1>11. JobInv'
    BY <1>1, JobSame DEF IInv
<1>12. AckedInv'
    <2>1. Buffered' = Buffered /\ Staged' = Staged /\ Delivered' = Delivered
        BY <1>1 DEF Buffered, Staged, Delivered
    <2>2. Unread \subseteq Unread' \cup Lost'
        <3> SUFFICES ASSUME NEW n \in unread, NEW b \in wal[n]
                     PROVE  b \in Unread' \cup Lost'
            BY DEF Unread
        <3>1. crashes # 0 /\ n \in DOMAIN wal
            BY DEF IInv, UnreadInv, Kept
        <3>2. CASE n = w.seq
            BY <1>1, <3>1, <3>2 DEF Lost
        <3>3. CASE n # w.seq
            BY <1>1, <1>4, <3>1, <3>3 DEF Unread
        <3> QED
            BY <3>2, <3>3
    <2> QED
        BY <1>1, <1>3, <2>1, <2>2, AckedFrame DEF IInv
<1> QED
    BY <1>6, <1>7, <1>8, <1>9, <1>10, <1>11, <1>12 DEF IInv

(* What applying a file does to the buffer, by a task or in recovery. *)
LEMMA AppliedRows ==
    ASSUME IInv, NEW ops, ops \subseteq Batches, NEW n, n \in Nat,
           chunks' = ApplyOps(chunks, ops, n)
    PROVE  /\ chunks' \in [Keys -> Chunk]
           /\ \A k \in Keys :
                 /\ BatchesOf(k, ops) \subseteq ops
                 /\ chunks'[k] = Insert(chunks[k], BatchesOf(k, ops), n)
                 /\ RowsOf(chunks'[k]) = RowsOf(chunks[k]) \cup BatchesOf(k, ops)
           /\ \A b \in ops : \E k \in Keys : b \in RowsOf(chunks'[k])
<1>1. chunks \in [Keys -> Chunk]
    BY DEF IInv, TypeOK
<1>2. ApplyOps(chunks, ops, n) \in [Keys -> Chunk]
    BY <1>1, ApplyOpsType, Zenon
<1>3. ASSUME NEW k \in Keys
      PROVE  /\ BatchesOf(k, ops) \subseteq ops
             /\ ApplyOps(chunks, ops, n)[k]
                   = Insert(chunks[k], BatchesOf(k, ops), n)
             /\ RowsOf(ApplyOps(chunks, ops, n)[k])
                   = RowsOf(chunks[k]) \cup BatchesOf(k, ops)
    BY <1>1, ApplyOpsAt, Zenon
<1>4. ASSUME NEW b \in ops
      PROVE  \E k \in Keys : b \in RowsOf(ApplyOps(chunks, ops, n)[k])
    BY <1>1, ApplyOpsAll, Zenon
<1> QED
    BY <1>2, <1>3, <1>4, Zenon

(* Applying a file written before keeps chunk bounds in order, and lowers the
   low bound to the number of the file at most. *)
LEMMA AppliedBounds ==
    ASSUME IInv, NEW ops, ops \subseteq Batches, NEW n, n \in Nat,
           chunks' = ApplyOps(chunks, ops, n), 0 < n, ops = {} \/ n < curSeq,
           NEW k \in Keys
    PROVE  /\ chunks'[k].hi < curSeq
           /\ chunks'[k].rows # << >> => /\ 0 < chunks'[k].lo
                                         /\ chunks'[k].lo <= chunks'[k].hi
           /\ chunks[k].rows # << >> => chunks'[k].lo <= chunks[k].lo
           /\ BatchesOf(k, ops) # {} => chunks'[k].lo <= n
           /\ Len(chunks[k].rows) <= Len(chunks'[k].rows)
           /\ \A i \in 1 .. Len(chunks[k].rows) :
                 chunks'[k].rows[i] = chunks[k].rows[i]
<1> DEFINE c == chunks[k]
           d == chunks'[k]
           group == BatchesOf(k, ops)
<1>1. c \in Chunk /\ curSeq \in Nat
    BY DEF IInv, TypeOK
<1>2. group \subseteq ops /\ d = Insert(c, group, n)
    BY AppliedRows, Zenon
<1>3. c.hi < curSeq /\ (c.rows # << >> => 0 < c.lo /\ c.lo <= c.hi)
    BY DEF IInv, BoundsInv
<1>4. c.lo \in Nat
    BY <1>1 DEF Chunk
<1> HIDE DEF c, d, group
<1>5. /\ d.hi < curSeq
      /\ d.rows # << >> => 0 < d.lo /\ d.lo <= d.hi
      /\ c.rows # << >> => d.lo <= c.lo
      /\ group # {} => d.lo <= n
    <2>1. CASE n < curSeq
        BY <1>1, <1>2, <1>3, <2>1, InsertBounds
    <2>2. CASE ops = {}
        <3>1. group = {} /\ d = c
            BY <1>2, <2>2 DEF Insert
        <3> QED
            BY <1>3, <1>4, <3>1
    <2> QED
        BY <2>1, <2>2
<1>6. /\ Len(c.rows) <= Len(d.rows)
      /\ \A i \in 1 .. Len(c.rows) : d.rows[i] = c.rows[i]
    <2>1. group \subseteq Batches
        BY <1>2
    <2> QED
        BY <1>1, <1>2, <2>1, InsertPrefix, Zenon
<1> QED
    BY <1>5, <1>6 DEF c, d, group

(* Applying what a task flushed keeps the invariant: the rows leave the gap and
   enter the buffer, and their file was kept until then. *)
LEMMA ApplyStep ==
    ASSUME IInv, NEW t \in Tasks, Apply(t)
    PROVE  IInv'
<1> DEFINE ops == gap[t].ops
           n == gap[t].seq
<1>1. /\ InGap(t)
      /\ chunks' = ApplyOps(chunks, ops, n)
      /\ acked' = acked \cup gap[t].req
      /\ gap' = [gap EXCEPT ![t] = NoGap]
      /\ UNCHANGED <<pending, curSeq, wal, late, unread, abandoned, meta, pc, todo, job, safe, cursor, staged,
                     net, store, crashes, faults, sent, uncovered, clobbered, aborted>>
    BY DEF Apply, walVars, schedVars
<1>2. /\ curSeq \in Nat \ {0} /\ ops \subseteq Batches /\ n \in Nat
      /\ gap \in [Tasks -> [ops : SUBSET Batches, seq : Nat, req : SUBSET Batches]]
      /\ chunks \in [Keys -> Chunk]
    BY DEF IInv, TypeOK
<1>3. /\ Running /\ 0 < n /\ n < curSeq /\ gap[t].req \subseteq ops
      /\ ops \subseteq uncovered \/ (Kept(n) /\ wal[n] = ops)
    BY <1>1 DEF IInv, GapInv, BoundsInv
<1> HIDE DEF ops, n
<1>4. /\ chunks' \in [Keys -> Chunk]
      /\ \A k \in Keys :
            /\ BatchesOf(k, ops) \subseteq ops
            /\ RowsOf(chunks'[k]) = RowsOf(chunks[k]) \cup BatchesOf(k, ops)
      /\ \A b \in ops : \E k \in Keys : b \in RowsOf(chunks'[k])
    BY <1>1, <1>2, <1>3, AppliedRows, Zenon
<1>5. \A k \in Keys :
            /\ chunks'[k].hi < curSeq
            /\ chunks'[k].rows # << >> => /\ 0 < chunks'[k].lo
                                          /\ chunks'[k].lo <= chunks'[k].hi
            /\ chunks[k].rows # << >> => chunks'[k].lo <= chunks[k].lo
            /\ BatchesOf(k, ops) # {} => chunks'[k].lo <= n
            /\ Len(chunks[k].rows) <= Len(chunks'[k].rows)
            /\ \A i \in 1 .. Len(chunks[k].rows) :
                  chunks'[k].rows[i] = chunks[k].rows[i]
    BY <1>1, <1>2, <1>3, AppliedBounds, Zenon
<1>6. TypeOK'
    <2>1. gap' \in [Tasks -> [ops : SUBSET Batches, seq : Nat, req : SUBSET Batches]]
        BY <1>1, <1>2 DEF NoGap
    <2>2. acked' \subseteq Batches
        BY <1>1, <1>2 DEF IInv, TypeOK
    <2>3. overtaken' \subseteq Batches
        BY <1>2 DEF Apply, IInv, TypeOK
    <2> QED
        BY <1>1, <1>4, <2>1, <2>2, <2>3 DEF IInv, TypeOK
<1>7. FreshSequence' /\ LateInv' /\ UnreadInv'
    BY <1>1 DEF IInv, FreshSequence, LateInv, UnreadInv, Kept, Running
<1>8. BoundsInv'
    BY <1>1, <1>2, <1>5 DEF IInv, BoundsInv, NoGap, InGap
<1>9. \A m : Kept(m) => Kept(m)'
    BY <1>1 DEF Kept
<1>10. BufferInv'
    <2> SUFFICES ASSUME NEW k \in Keys, NEW b \in RowsOf(chunks'[k]), b \notin uncovered
                 PROVE  \E m \in DOMAIN wal :
                          b \in wal[m] /\ Kept(m)' /\ chunks'[k].lo <= m
        BY <1>1 DEF BufferInv
    <2>1. CASE b \in RowsOf(chunks[k])
        <3>1. PICK m \in DOMAIN wal : b \in wal[m] /\ Kept(m) /\ chunks[k].lo <= m
            BY <2>1 DEF IInv, BufferInv
        <3>2. chunks[k].rows # << >>
            BY <2>1 DEF RowsOf
        <3>3. /\ chunks[k].lo \in Nat /\ chunks'[k].lo \in Nat /\ m \in Nat
              /\ chunks'[k].lo <= chunks[k].lo
            BY <1>2, <1>4, <1>5, <3>2 DEF Chunk, IInv, TypeOK
        <3> QED
            BY <1>9, <3>1, <3>3
    <2>2. CASE b \in BatchesOf(k, ops)
        BY <1>3, <1>4, <1>5, <1>9, <2>2 DEF Kept
    <2> QED
        BY <1>4, <2>1, <2>2
<1>11. GapInv'
    <2> SUFFICES ASSUME NEW u \in Tasks
                 PROVE  /\ gap'[u].req \subseteq gap'[u].ops
                        /\ InGap(u)' =>
                             /\ Running
                             /\ \/ gap'[u].ops \subseteq uncovered
                                \/ Kept(gap[u].seq)' /\ wal[gap'[u].seq] = gap'[u].ops
        BY <1>1 DEF GapInv, Running
    <2>1. CASE u = t
        BY <1>1, <1>2, <2>1 DEF InGap, NoGap
    <2>2. CASE u # t
        BY <1>1, <1>2, <2>2 DEF IInv, GapInv, InGap, Kept
    <2> QED
        BY <2>1, <2>2
<1>12. JobInv'
    <2>1. ASSUME pc \in {"upload", "stage", "drain"}, NEW w \in Windows
          PROVE  LET rows == chunks'[<<job.table, w>>].rows
                 IN  /\ job.taken[w] <= Len(rows)
                     /\ \A i \in 1 .. job.taken[w] : rows[i] \subseteq job.rows
        <3>1. job \in Job /\ <<job.table, w>> \in Keys /\ job.taken[w] \in Nat
            BY <2>1 DEF IInv, TypeOK, Job, Keys
        <3> DEFINE old == chunks[<<job.table, w>>].rows
                   new == chunks'[<<job.table, w>>].rows
        <3>2. /\ job.taken[w] <= Len(old)
              /\ \A i \in 1 .. job.taken[w] : old[i] \subseteq job.rows
            BY <2>1 DEF IInv, JobInv
        <3>3. /\ Len(old) <= Len(new) /\ Len(old) \in Nat /\ Len(new) \in Nat
              /\ \A i \in 1 .. Len(old) : new[i] = old[i]
            <4> DEFINE k == <<job.table, w>>
            <4>1. k \in Keys
                BY <3>1
            <4> HIDE DEF k
            <4>2. chunks[k].rows \in Seq(SUBSET Batches)
                      /\ chunks'[k].rows \in Seq(SUBSET Batches)
                BY <1>2, <1>4, <4>1 DEF Chunk
            <4>3. /\ Len(chunks[k].rows) <= Len(chunks'[k].rows)
                  /\ \A i \in 1 .. Len(chunks[k].rows) :
                        chunks'[k].rows[i] = chunks[k].rows[i]
                BY <1>5, <4>1
            <4>4. Len(chunks[k].rows) \in Nat /\ Len(chunks'[k].rows) \in Nat
                BY <4>2
            <4> QED
                BY <4>3, <4>4 DEF k
        <3> HIDE DEF old, new
        <3>4. /\ job.taken[w] <= Len(new)
              /\ \A i \in 1 .. job.taken[w] : new[i] \subseteq job.rows
            BY <3>1, <3>2, <3>3
        <3> QED
            BY <3>4 DEF new
    <2>2. pc = "drain" => job.rows \subseteq Delivered \cup Staged \cup clobbered
        BY DEF IInv, JobInv
    <2>3. Buffered \subseteq Buffered'
        BY <1>4 DEF Buffered
    <2>4. pc \in {"upload", "stage", "drain"} => job.rows \subseteq Buffered'
        BY <2>3 DEF IInv, JobInv
    <2> HIDE DEF Buffered
    <2> QED
        BY <1>1, <2>1, <2>2, <2>4 DEF JobInv, Delivered, Staged
<1>13. AckedInv'
    <2>1. Buffered \cup ops \subseteq Buffered'
        BY <1>4 DEF Buffered
    <2>2. Staged' = Staged /\ Delivered' = Delivered
        BY <1>1 DEF Staged, Delivered
    <2> QED
        BY <1>1, <1>3, <2>1, <2>2 DEF IInv, AckedInv, Lost, Unread, Running
<1> QED
    BY <1>6, <1>7, <1>8, <1>10, <1>11, <1>12, <1>13 DEF IInv

(* A client that goes away in the gap keeps the invariant. *)
LEMMA DisconnectStep ==
    ASSUME IInv, NEW h \in Handlers, Disconnect(h)
    PROVE  IInv'
<1>1. /\ InGap(h) /\ h \in Tasks /\ Fault
      /\ gap' = [gap EXCEPT ![h] = NoGap]
      /\ UNCHANGED <<pending, curSeq, wal, late, unread, abandoned, meta, chunks, pc, todo, job, safe, cursor,
                     staged, net, store, crashes, sent, acked, uncovered, overtaken,
                     clobbered, aborted>>
    BY DEF Disconnect, walVars, schedVars, Tasks
<1>2. gap \in [Tasks -> [ops : SUBSET Batches, seq : Nat, req : SUBSET Batches]]
    BY DEF IInv, TypeOK
<1>3. ASSUME NEW t \in Tasks PROVE gap'[t] = IF t = h THEN NoGap ELSE gap[t]
    BY <1>1, <1>2
<1>4. TypeOK'
    <2>1. gap' \in [Tasks -> [ops : SUBSET Batches, seq : Nat, req : SUBSET Batches]]
        BY <1>1, <1>2 DEF NoGap
    <2>2. faults' \in 0 .. MaxFaults
        BY <1>1, AgentAssumption DEF Fault, IInv, TypeOK
    <2> QED
        BY <1>1, <2>1, <2>2 DEF IInv, TypeOK
<1>5. FreshSequence' /\ LateInv' /\ UnreadInv' /\ BufferInv'
    BY <1>1 DEF IInv, FreshSequence, LateInv, UnreadInv, BufferInv, Kept, Running
<1>6. BoundsInv'
    <2>1. curSeq \in Nat \ {0}
        BY DEF IInv, TypeOK
    <2> QED
        BY <1>1, <1>3, <2>1 DEF IInv, BoundsInv, InGap, NoGap
<1>7. GapInv'
    <2> SUFFICES ASSUME NEW u \in Tasks
                 PROVE  /\ gap'[u].req \subseteq gap'[u].ops
                        /\ InGap(u)' =>
                             /\ Running
                             /\ \/ gap'[u].ops \subseteq uncovered
                                \/ Kept(gap[u].seq)' /\ wal[gap'[u].seq] = gap'[u].ops
        BY <1>1 DEF GapInv, Running
    <2>1. CASE u = h
        BY <1>3, <2>1 DEF InGap, NoGap
    <2>2. CASE u # h
        BY <1>1, <1>3, <2>2 DEF IInv, GapInv, InGap, Kept
    <2> QED
        BY <2>1, <2>2
<1>8. JobInv'
    BY <1>1, JobSame DEF IInv
<1>9. AckedInv'
    <2>1. Buffered' = Buffered /\ Staged' = Staged /\ Delivered' = Delivered
        BY <1>1 DEF Buffered, Staged, Delivered
    <2> QED
        BY <1>1, <2>1, AckedFrame DEF IInv
<1> QED
    BY <1>4, <1>5, <1>6, <1>7, <1>8, <1>9 DEF IInv

-----------------------------------------------------------------------------
(* Snapshot cycles *)

(* The start of a cycle only notes which windows to take. *)
LEMMA SnapshotCollectStep ==
    ASSUME IInv, NEW marker, SnapshotCollect(marker)
    PROVE  IInv'
<1>1. /\ pc = "idle" /\ pc' = "work"
      /\ todo' \in [Tables -> SUBSET Windows]
      /\ UNCHANGED <<pending, curSeq, wal, late, unread, abandoned, meta, gap, chunks, job, safe, cursor,
                     staged, net, store, crashes, faults, sent, acked, uncovered,
                     overtaken, clobbered, aborted>>
    BY DEF SnapshotCollect, walVars, history
<1>2. FreshSequence' /\ BoundsInv' /\ LateInv' /\ UnreadInv' /\ BufferInv' /\ GapInv'
    <2>1. safe \in Nat
        BY DEF IInv, TypeOK
    <2> QED
        BY <1>1, <2>1, WalFrame DEF Running
<1>3. TypeOK'
    BY <1>1 DEF IInv, TypeOK
<1>4. JobInv'
    BY <1>1, JobFrame DEF IInv
<1>5. AckedInv'
    <2>1. Buffered' = Buffered /\ Staged' = Staged /\ Delivered' = Delivered
        BY <1>1 DEF Buffered, Staged, Delivered
    <2> QED
        BY <1>1, <2>1, AckedFrame DEF IInv, Running
<1> QED
    BY <1>2, <1>3, <1>4, <1>5 DEF IInv

(* A capture counts the rows of the chunks and takes all of them. *)
LEMMA CaptureStep ==
    ASSUME IInv, NEW t \in Tables, Capture(t)
    PROVE  IInv'
<1> DEFINE of(w)  == chunks[<<t, w>>]
           first  == Least(todo[t])
           his    == {of(w).hi : w \in todo[t]}
           newest == Greatest(his)
           taken  == [w \in Windows |->
                        IF w \in todo[t] THEN Len(of(w).rows) ELSE 0]
           rows   == UNION {RowsOf(of(w)) : w \in todo[t]}
<1>1. /\ pc = "work" /\ pc' = "upload" /\ todo[t] # {}
      /\ todo' = [todo EXCEPT ![t] = {}]
      /\ job' = [table |-> t, taken |-> taken,
                 name |-> UploadName(t, first, newest, of(first).since),
                 stageName |-> <<t, first, newest>>, rows |-> rows]
      /\ UNCHANGED <<pending, curSeq, wal, late, unread, abandoned, meta, gap, chunks, safe, cursor, staged,
                     net, store, crashes, faults, sent, acked, uncovered, overtaken,
                     clobbered, aborted>>
    BY DEF Capture, walVars, history
<1>2. /\ todo \in [Tables -> SUBSET Windows] /\ chunks \in [Keys -> Chunk]
      /\ curSeq \in Nat
    BY DEF IInv, TypeOK
<1>3. ASSUME NEW w \in Windows
      PROVE  /\ of(w) \in Chunk /\ <<t, w>> \in Keys
             /\ of(w).rows \in Seq(SUBSET Batches) /\ Len(of(w).rows) \in Nat
             /\ of(w).hi \in Nat /\ of(w).since \in Nat
             /\ RowsOf(of(w)) \subseteq Batches
    <2>1. of(w) \in Chunk /\ <<t, w>> \in Keys
        BY <1>2 DEF Keys
    <2> HIDE DEF of
    <2>2. /\ of(w).rows \in Seq(SUBSET Batches)
          /\ of(w).hi \in Nat /\ of(w).since \in Nat
        BY <2>1 DEF Chunk
    <2>3. RowsOf(of(w)) \subseteq Batches
        BY <2>2 DEF RowsOf
    <2> QED
        BY <2>1, <2>2, <2>3 DEF of
<1> HIDE DEF of
<1>4. first \in Windows /\ first \in Nat
    <2>1. todo[t] \in SUBSET Nat /\ todo[t] \subseteq Windows
        BY <1>2, WindowsAreNat
    <2> QED
        BY <1>1, <2>1, LeastIn
<1>5. newest \in Nat
    <2>1. his \in SUBSET Nat /\ his # {}
        BY <1>1, <1>2, <1>3
    <2>2. \A w \in Windows : of(w).hi <= curSeq
        BY <1>2, <1>3 DEF IInv, BoundsInv, of
    <2>3. \A n \in his : n <= curSeq
        BY <1>2, <2>2
    <2> HIDE DEF his
    <2>4. Greatest(his) \in his
        BY <1>2, <2>1, <2>3, GreatestIn, Zenon
    <2> QED
        BY <2>1, <2>4
<1> HIDE DEF first, his, newest
<1>6. UploadName(t, first, newest, of(first).since) \in Names
      /\ <<t, first, newest>> \in Names
    <2>1. of(first).since \in Nat
        BY <1>3, <1>4
    <2> QED
        BY <1>4, <1>5, <2>1 DEF UploadName, S3Key, Names
<1>7. taken \in [Windows -> Nat] /\ rows \subseteq Batches
    <2>1. \A w \in Windows : IF w \in todo[t] THEN Len(of(w).rows) \in Nat ELSE 0 \in Nat
        BY <1>3
    <2>2. \A w \in todo[t] : RowsOf(of(w)) \subseteq Batches
        BY <1>2, <1>3
    <2> QED
        BY <2>1, <2>2
<1>8. TypeOK'
    <2>1. job' \in Job
        <3> HIDE DEF taken, rows
        <3> QED
            BY <1>1, <1>6, <1>7 DEF Job
    <2>2. todo' \in [Tables -> SUBSET Windows]
        BY <1>1, <1>2
    <2> HIDE DEF taken, rows
    <2> QED
        BY <1>1, <2>1, <2>2 DEF IInv, TypeOK
<1>9. FreshSequence' /\ BoundsInv' /\ LateInv' /\ UnreadInv' /\ BufferInv' /\ GapInv'
    <2>1. safe \in Nat
        BY DEF IInv, TypeOK
    <2> QED
        BY <1>1, <2>1, WalFrame DEF Running
<1>10. JobInv'
    <2>1. ASSUME NEW w \in Windows
          PROVE  /\ taken[w] <= Len(of(w).rows)
                 /\ \A i \in 1 .. taken[w] : of(w).rows[i] \subseteq rows
        <3>1. CASE w \in todo[t]
            <4>1. taken[w] = Len(of(w).rows) /\ Len(of(w).rows) \in Nat
                BY <1>3, <3>1
            <4>2. DOMAIN of(w).rows = 1 .. Len(of(w).rows)
                BY <1>3
            <4>3. RowsOf(of(w)) \subseteq rows
                BY <3>1
            <4> HIDE DEF taken, rows
            <4> QED
                BY <4>1, <4>2, <4>3 DEF RowsOf
        <3>2. CASE w \notin todo[t]
            <4>1. taken[w] = 0 /\ Len(of(w).rows) \in Nat
                BY <1>3, <3>2
            <4> HIDE DEF taken, rows
            <4> QED
                BY <4>1
        <3> QED
            BY <3>1, <3>2
    <2>2. /\ job'.table = t /\ job'.taken = taken /\ job'.rows = rows
          /\ \A w \in Windows : chunks'[<<t, w>>] = of(w)
        BY <1>1 DEF of
    <2>3. rows \subseteq Buffered'
        <3>1. ASSUME NEW w \in todo[t] PROVE RowsOf(of(w)) \subseteq Buffered'
            <4>1. w \in Windows
                BY <1>2
            <4>2. <<t, w>> \in Keys /\ chunks'[<<t, w>>] = of(w)
                BY <1>3, <2>2, <4>1
            <4> QED
                BY <4>2 DEF Buffered
        <3> QED
            BY <3>1
    <2> HIDE DEF taken, rows
    <2> QED
        BY <1>1, <2>1, <2>2, <2>3 DEF JobInv
<1>11. AckedInv'
    <2>1. Buffered' = Buffered /\ Staged' = Staged /\ Delivered' = Delivered
        BY <1>1 DEF Buffered, Staged, Delivered
    <2> QED
        BY <1>1, <2>1, AckedFrame DEF IInv, Running
<1> QED
    BY <1>8, <1>9, <1>10, <1>11 DEF IInv

(* A cycle abandoned before the upload keeps the invariant. *)
LEMMA CaptureFailsStep ==
    ASSUME IInv, NEW t \in Tables, CaptureFails(t)
    PROVE  IInv'
<1>1. /\ pc = "work" /\ pc' = "idle" /\ todo' = NoTodo
      /\ UNCHANGED <<pending, curSeq, wal, late, unread, abandoned, meta, gap, chunks, job, safe, cursor, staged,
                     net, store, crashes, faults, sent, acked, uncovered, overtaken, clobbered,
                     aborted>>
    BY DEF CaptureFails, walVars, history
<1>2. FreshSequence' /\ BoundsInv' /\ LateInv' /\ UnreadInv' /\ BufferInv' /\ GapInv'
    <2>1. safe \in Nat
        BY DEF IInv, TypeOK
    <2> QED
        BY <1>1, <2>1, WalFrame DEF Running
<1>3. TypeOK'
    <2>1. todo' \in [Tables -> SUBSET Windows]
        BY <1>1 DEF NoTodo
    <2> QED
        BY <1>1, <2>1 DEF IInv, TypeOK
<1>4. JobInv'
    BY <1>1, JobFrame DEF IInv
<1>5. AckedInv'
    <2>1. Buffered' = Buffered /\ Staged' = Staged /\ Delivered' = Delivered
        BY <1>1 DEF Buffered, Staged, Delivered
    <2> QED
        BY <1>1, <2>1, AckedFrame DEF IInv, Running
<1> QED
    BY <1>2, <1>3, <1>4, <1>5 DEF IInv

-----------------------------------------------------------------------------
(* Uploads *)

(* What a step stores is in the store, or noted as lost to the name. *)
LEMMA StoreKeeps ==
    ASSUME IInv, NEW name, name \in Names, NEW rows, rows \subseteq Batches,
           Store(name, rows)
    PROVE  /\ DOMAIN store' \subseteq Names /\ store' \in [DOMAIN store' -> SUBSET Batches]
           /\ clobbered \subseteq clobbered' /\ clobbered' \subseteq Batches
           /\ Delivered \cup rows \subseteq Delivered' \cup clobbered'
<1> DEFINE new == Put(store, name, rows)
           lost == Clobbered(store, name, rows)
<1>1. /\ DOMAIN store \subseteq Names /\ store \in [DOMAIN store -> SUBSET Batches]
      /\ clobbered \subseteq Batches /\ rows \in SUBSET Batches
    BY DEF IInv, TypeOK
<1>2. store' = new /\ clobbered' = clobbered \cup lost
    BY DEF Store
<1>3. /\ DOMAIN new \subseteq Names /\ new \in [DOMAIN new -> SUBSET Batches]
      /\ lost \subseteq Batches
      /\ Contents(store) \cup rows \subseteq Contents(new) \cup lost
    BY <1>1, PutKeeps, Zenon
<1> HIDE DEF new, lost
<1>4. Delivered = Contents(store) /\ Delivered' = Contents(new)
    BY <1>2 DEF Delivered
<1> QED
    BY <1>1, <1>2, <1>3, <1>4

(* A failed upload loses nothing but what it was to upload that is not noted either. *)
LEMMA UploadErrorKeeps ==
    ASSUME IInv, NEW name, name \in Names, NEW rows, rows \subseteq Batches,
           UploadError(name, rows)
    PROVE  /\ DOMAIN store' \subseteq Names /\ store' \in [DOMAIN store' -> SUBSET Batches]
           /\ net' \subseteq [name : Names, rows : SUBSET Batches]
           /\ clobbered \subseteq clobbered' /\ clobbered' \subseteq Batches
           /\ Delivered \subseteq Delivered' \cup clobbered' \cup rows
<1>1. /\ DOMAIN store \subseteq Names /\ store \in [DOMAIN store -> SUBSET Batches]
      /\ net \subseteq [name : Names, rows : SUBSET Batches]
      /\ clobbered \subseteq Batches
    BY DEF IInv, TypeOK
<1>2. CASE UNCHANGED <<net, store, clobbered>>
    BY <1>1, <1>2 DEF Delivered
<1>3. CASE /\ net' = net \cup {[name |-> name, rows |-> rows]}
           /\ UNCHANGED <<store, clobbered>>
    BY <1>1, <1>3 DEF Delivered
<1>4. CASE /\ Backend = "local" /\ store' = Put(store, name, {}) /\ UNCHANGED net
           /\ clobbered' = clobbered \cup Clobbered(store, name, rows)
    <2> DEFINE new  == Bind(store, name, {})
               lost == Clobbered(store, name, rows)
    <2>1. store' = new
        BY <1>4 DEF Put, Overwrite
    <2>2. /\ DOMAIN new = DOMAIN store \cup {name} /\ new \in [DOMAIN new -> SUBSET Batches]
          /\ \A y \in DOMAIN store \ {name} : new[y] = store[y]
        BY <1>1 DEF Bind
    <2>3. /\ name \notin DOMAIN store => lost = {}
          /\ name \in DOMAIN store => lost = store[name] \ rows
        BY <1>4 DEF Clobbered
    <2>4. lost \subseteq Batches
        BY <1>1, <2>3
    <2> HIDE DEF new, lost
    <2>5. \A y \in DOMAIN store : \A b \in store[y] :
              b \in lost \cup rows \/ (y \in DOMAIN new /\ b \in new[y])
        BY <2>2, <2>3
    <2>6. Contents(store) \subseteq Contents(new) \cup lost \cup rows
        BY <2>5 DEF Contents
    <2>7. Delivered = Contents(store) /\ Delivered' = Contents(new)
        BY <2>1 DEF Delivered
    <2>8. clobbered' = clobbered \cup lost
        BY <1>4 DEF lost
    <2> QED
        BY <1>1, <1>4, <2>1, <2>2, <2>4, <2>6, <2>7, <2>8
<1> QED
    BY <1>2, <1>3, <1>4 DEF UploadError

(* The capture under upload has types. *)
LEMMA JobType ==
    ASSUME IInv, pc \in {"upload", "stage", "drain"}
    PROVE  /\ job.table \in Tables /\ job.taken \in [Windows -> Nat]
           /\ job.name \in Names /\ job.stageName \in Names
           /\ job.rows \subseteq Batches
<1>1. job \in Job
    BY DEF IInv, TypeOK
<1> QED
    BY <1>1 DEF Job

(* A successful upload puts the captured rows in the store, or accounts for
   them as clobbered, before anything is drained. *)
LEMMA UploadOKStep ==
    ASSUME IInv, UploadOK
    PROVE  IInv'
<1>1. /\ pc = "upload" /\ pc' = "drain" /\ Store(job.name, job.rows)
      /\ UNCHANGED <<pending, curSeq, wal, late, unread, abandoned, meta, gap, chunks, todo, job, safe, cursor,
                     staged, net, crashes, faults, sent, acked, uncovered, overtaken,
                     aborted>>
    BY DEF UploadOK, walVars
<1>2. job.name \in Names /\ job.rows \subseteq Batches
    BY <1>1, JobType
<1>3. /\ DOMAIN store' \subseteq Names /\ store' \in [DOMAIN store' -> SUBSET Batches]
      /\ clobbered \subseteq clobbered' /\ clobbered' \subseteq Batches
      /\ Delivered \cup job.rows \subseteq Delivered' \cup clobbered'
    BY <1>1, <1>2, StoreKeeps, Zenon
<1>4. FreshSequence' /\ BoundsInv' /\ LateInv' /\ UnreadInv' /\ BufferInv' /\ GapInv'
    <2>1. safe \in Nat
        BY DEF IInv, TypeOK
    <2> QED
        BY <1>1, <2>1, WalFrame DEF Running
<1>5. TypeOK'
    BY <1>1, <1>3 DEF IInv, TypeOK
<1>6. JobInv'
    <2>1. Staged' = Staged
        BY <1>1 DEF Staged
    <2>2. job.rows \subseteq Delivered' \cup Staged' \cup clobbered'
        BY <1>3
    <2>3. Buffered' = Buffered
        BY <1>1 DEF Buffered
    <2> HIDE DEF Staged, Delivered
    <2> QED
        BY <1>1, <2>2, <2>3 DEF IInv, JobInv
<1>7. AckedInv'
    <2>1. Buffered' = Buffered /\ Staged' = Staged
        BY <1>1 DEF Buffered, Staged
    <2> QED
        BY <1>1, <1>3, <2>1, AckedFrame DEF IInv, Running
<1> QED
    BY <1>4, <1>5, <1>6, <1>7 DEF IInv

(* A failed upload leads to staging, and the buffer keeps the rows. *)
LEMMA UploadFailsStep ==
    ASSUME IInv, UploadFails
    PROVE  IInv'
<1>1. /\ pc = "upload" /\ pc' = "stage" /\ Fault /\ UploadError(job.name, job.rows)
      /\ UNCHANGED <<pending, curSeq, wal, late, unread, abandoned, meta, gap, chunks, todo, job, safe, cursor,
                     staged, crashes, sent, acked, uncovered, overtaken, aborted>>
    BY DEF UploadFails, walVars
<1>2. job.name \in Names /\ job.rows \subseteq Batches
    BY <1>1, JobType
<1>3. /\ DOMAIN store' \subseteq Names /\ store' \in [DOMAIN store' -> SUBSET Batches]
      /\ net' \subseteq [name : Names, rows : SUBSET Batches]
      /\ clobbered \subseteq clobbered' /\ clobbered' \subseteq Batches
      /\ Delivered \subseteq Delivered' \cup clobbered' \cup job.rows
    BY <1>1, <1>2, UploadErrorKeeps, Zenon
<1>4. FreshSequence' /\ BoundsInv' /\ LateInv' /\ UnreadInv' /\ BufferInv' /\ GapInv'
    <2>1. safe \in Nat
        BY DEF IInv, TypeOK
    <2> QED
        BY <1>1, <2>1, WalFrame DEF Running
<1>5. TypeOK'
    <2>1. faults' \in 0 .. MaxFaults
        BY <1>1, AgentAssumption DEF Fault, IInv, TypeOK
    <2> QED
        BY <1>1, <1>3, <2>1 DEF IInv, TypeOK
<1>6. JobInv'
    BY <1>1, JobFrame DEF IInv
<1>7. AckedInv'
    <2>1. Buffered' = Buffered /\ Staged' = Staged
        BY <1>1 DEF Buffered, Staged
    <2>2. job.rows \subseteq Buffered
        BY <1>1 DEF IInv, JobInv
    <2> QED
        BY <1>1, <1>3, <2>1, <2>2, AckedFrame DEF IInv, Running
<1> QED
    BY <1>4, <1>5, <1>6, <1>7 DEF IInv

(* A staged file is the durable copy of what is drained next. *)
LEMMA StageOKStep ==
    ASSUME IInv, StageOK
    PROVE  IInv'
<1> DEFINE new  == Bind(staged, job.stageName, job.rows)
           lost == IF job.stageName \in DOMAIN staged
                   THEN staged[job.stageName] \ job.rows ELSE {}
<1>1. /\ pc = "stage" /\ pc' = "drain" /\ staged' = new
      /\ clobbered' = clobbered \cup lost
      /\ UNCHANGED <<pending, curSeq, wal, late, unread, abandoned, meta, gap, chunks, todo, job, safe, cursor,
                     net, store, crashes, faults, sent, acked, uncovered, overtaken,
                     aborted>>
    BY DEF StageOK, walVars
<1>2. /\ job.stageName \in Names /\ job.rows \in SUBSET Batches
      /\ DOMAIN staged \subseteq Names /\ staged \in [DOMAIN staged -> SUBSET Batches]
      /\ clobbered \subseteq Batches
    BY <1>1, JobType DEF IInv, TypeOK
<1>3. /\ DOMAIN new = DOMAIN staged \cup {job.stageName}
      /\ DOMAIN new \subseteq Names /\ new \in [DOMAIN new -> SUBSET Batches]
      /\ new[job.stageName] = job.rows
      /\ \A y \in DOMAIN staged \ {job.stageName} : new[y] = staged[y]
    BY <1>2 DEF Bind
<1>4. /\ job.stageName \in DOMAIN staged => lost = staged[job.stageName] \ job.rows
      /\ lost \subseteq Batches
    BY <1>2
<1> HIDE DEF new, lost
<1>5. Staged \cup job.rows \subseteq Staged' \cup clobbered'
    BY <1>1, <1>2, <1>3, <1>4 DEF Staged, Contents
<1>6. FreshSequence' /\ BoundsInv' /\ LateInv' /\ UnreadInv' /\ BufferInv' /\ GapInv'
    <2>1. safe \in Nat
        BY DEF IInv, TypeOK
    <2> QED
        BY <1>1, <2>1, WalFrame DEF Running
<1>7. TypeOK'
    <2>1. clobbered' \subseteq Batches
        BY <1>1, <1>2, <1>4
    <2> QED
        BY <1>1, <1>3, <2>1 DEF IInv, TypeOK
<1>8. JobInv'
    <2>1. Buffered' = Buffered
        BY <1>1 DEF Buffered
    <2> QED
        BY <1>1, <1>5, <2>1 DEF IInv, JobInv
<1>9. AckedInv'
    <2>1. Buffered' = Buffered /\ Delivered' = Delivered
        BY <1>1 DEF Buffered, Delivered
    <2> QED
        BY <1>1, <1>5, <2>1, AckedFrame DEF IInv, Running
<1> QED
    BY <1>6, <1>7, <1>8, <1>9 DEF IInv

(* A failed staging abandons the cycle with the rows in the buffer. *)
LEMMA StageFailsStep ==
    ASSUME IInv, StageFails
    PROVE  IInv'
<1>1. /\ pc = "stage" /\ pc' = "idle" /\ Fault
      /\ todo' = NoTodo /\ job' = NoJob /\ aborted' = aborted + 1
      /\ UNCHANGED <<pending, curSeq, wal, late, unread, abandoned, meta, gap, chunks, safe, cursor, staged,
                     net, store, crashes, sent, acked, uncovered, overtaken, clobbered>>
    BY DEF StageFails, walVars
<1>2. FreshSequence' /\ BoundsInv' /\ LateInv' /\ UnreadInv' /\ BufferInv' /\ GapInv'
    <2>1. safe \in Nat
        BY DEF IInv, TypeOK
    <2> QED
        BY <1>1, <2>1, WalFrame DEF Running
<1>3. TypeOK'
    <2>1. faults' \in 0 .. MaxFaults
        BY <1>1, AgentAssumption DEF Fault, IInv, TypeOK
    <2>2. todo' \in [Tables -> SUBSET Windows]
        BY <1>1 DEF NoTodo
    <2>3. job' \in Job \cup {NoJob} /\ aborted' \in Nat
        BY <1>1 DEF IInv, TypeOK
    <2> QED
        BY <1>1, <2>1, <2>2, <2>3 DEF IInv, TypeOK
<1>4. JobInv'
    BY <1>1 DEF JobInv
<1>5. AckedInv'
    <2>1. Buffered' = Buffered /\ Staged' = Staged /\ Delivered' = Delivered
        BY <1>1 DEF Buffered, Staged, Delivered
    <2> QED
        BY <1>1, <2>1, AckedFrame DEF IInv, Running
<1> QED
    BY <1>2, <1>3, <1>4, <1>5 DEF IInv

-----------------------------------------------------------------------------
(* The handoff *)

(* The new watermark is below every file a live chunk still needs. *)
LEMMA WatermarkBelow ==
    ASSUME NEW cs, cs \in [Keys -> Chunk], NEW next, next \in Nat \ {0},
           \A k \in Keys : cs[k].rows # << >> => 0 < cs[k].lo /\ cs[k].lo < next
    PROVE  /\ Watermark(cs, next) \in Nat /\ Watermark(cs, next) < next
           /\ \A k \in Keys : cs[k].rows # << >> => Watermark(cs, next) < cs[k].lo
<1> DEFINE lows == {cs[k].lo : k \in {j \in Keys : cs[j].rows # << >>}}
<1>1. \A k \in Keys : cs[k].rows # << >> => cs[k].lo \in lows
    OBVIOUS
<1>2. \A n \in lows : n \in Nat /\ 0 < n /\ n < next
    BY DEF Chunk
<1>3. Watermark(cs, next) = IF lows = {} THEN Pred(next) ELSE Pred(Least(lows))
    BY DEF Watermark
<1> HIDE DEF lows
<1>4. CASE lows = {}
    BY <1>1, <1>3, <1>4 DEF Pred
<1>5. CASE lows # {}
    <2>1. lows \in SUBSET Nat
        BY <1>2
    <2>2. Least(lows) \in lows /\ \A m \in lows : Least(lows) <= m
        BY <1>5, <2>1, LeastIn, Zenon
    <2>3. Watermark(cs, next) = Least(lows) - 1
        BY <1>2, <1>3, <1>5, <2>2 DEF Pred
    <2> QED
        BY <1>1, <1>2, <2>2, <2>3
<1> QED
    BY <1>4, <1>5

(* The drain takes from each chunk nothing but rows of the capture. *)
LEMMA DrainedRows ==
    ASSUME IInv, pc = "drain", NEW k \in Keys,
           NEW c, c = chunks[k], NEW d, d = DrainedChunks[k]
    PROVE  /\ d \in Chunk
           /\ RowsOf(d) \subseteq RowsOf(c)
           /\ RowsOf(c) \ RowsOf(d) \subseteq job.rows
           /\ d.hi <= c.hi
           /\ d.rows # << >> => c.rows # << >> /\ d.lo = c.lo /\ d.hi = c.hi
<1>1. c \in Chunk
    BY DEF IInv, TypeOK
<1>2. CASE k[1] # job.table
    <2>1. d = c
        BY <1>2 DEF DrainedChunks
    <2>2. c.hi \in Nat
        BY <1>1 DEF Chunk
    <2> QED
        BY <1>1, <2>1, <2>2
<1>3. CASE k[1] = job.table
    <2> DEFINE captured == job.taken[k[2]]
    <2>1. k = <<job.table, k[2]>> /\ k[2] \in Windows
        BY <1>3 DEF Keys
    <2>2. captured \in Nat
        BY <2>1, JobType
    <2>3. d = DrainChunk(c, captured)
        BY <1>3 DEF DrainedChunks
    <2>4. /\ captured <= Len(c.rows)
          /\ \A i \in 1 .. captured : c.rows[i] \subseteq job.rows
        BY <2>1 DEF IInv, JobInv
    <2> HIDE DEF captured
    <2>5. /\ d \in Chunk
          /\ RowsOf(d) \subseteq RowsOf(c)
          /\ \A b \in RowsOf(c) \ RowsOf(d) :
                \E i \in 1 .. captured : i <= Len(c.rows) /\ b \in c.rows[i]
          /\ d.hi <= c.hi
          /\ d.rows # << >> => c.rows # << >> /\ d.lo = c.lo /\ d.hi = c.hi
        BY <1>1, <2>2, <2>3, DrainCaptured, ZenonT(60)
    <2>6. RowsOf(c) \ RowsOf(d) \subseteq job.rows
        BY <2>4, <2>5, Zenon
    <2> QED
        BY <2>5, <2>6
<1> QED
    BY <1>2, <1>3

(* The drain takes captured rows only, and its watermark passes no file of a
   buffered row except those of rows in the gap, which it notes. *)
LEMMA DrainStep ==
    ASSUME IInv, Drain
    PROVE  IInv'
<1> DEFINE ds == DrainedChunks
           inGap == UNION {gap[t].ops : t \in {u \in Tasks : gap[u].seq <= safe'}}
           inFile == UNION {wal[n] : n \in {m \in unread : m <= safe'}}
<1>1. /\ pc = "drain" /\ pc' = "meta" /\ chunks' = ds /\ job' = NoJob
      /\ safe' = Watermark(ds, curSeq)
      /\ uncovered' = uncovered \cup inGap \cup inFile
      /\ unread' = {n \in unread : safe' < n}
      /\ UNCHANGED <<pending, curSeq, wal, late, abandoned, meta, gap, todo, cursor, staged, net,
                     store, crashes, faults, sent, acked, overtaken, clobbered,
                     aborted>>
    BY DEF Drain, walVars
<1>2. /\ chunks \in [Keys -> Chunk] /\ curSeq \in Nat \ {0}
      /\ DOMAIN wal \subseteq Nat \ {0}
      /\ gap \in [Tasks -> [ops : SUBSET Batches, seq : Nat, req : SUBSET Batches]]
      /\ uncovered \subseteq Batches /\ unread \subseteq Nat
      /\ wal \in [DOMAIN wal -> SUBSET Batches]
      /\ \A n \in unread : n \in DOMAIN wal
    BY DEF IInv, TypeOK, UnreadInv, Kept
<1>4. ASSUME NEW k \in Keys
      PROVE  /\ ds[k] \in Chunk
             /\ RowsOf(ds[k]) \subseteq RowsOf(chunks[k])
             /\ RowsOf(chunks[k]) \ RowsOf(ds[k]) \subseteq job.rows
             /\ ds[k].hi <= chunks[k].hi
             /\ ds[k].rows # << >> => /\ chunks[k].rows # << >>
                                     /\ ds[k].lo = chunks[k].lo
                                     /\ ds[k].hi = chunks[k].hi
    <2> DEFINE c == chunks[k]
               d == DrainedChunks[k]
    <2>1. pc = "drain" /\ c = chunks[k] /\ d = DrainedChunks[k] /\ d = ds[k]
        BY <1>1
    <2> HIDE DEF c, d, ds
    <2>2. /\ d \in Chunk
          /\ RowsOf(d) \subseteq RowsOf(c)
          /\ RowsOf(c) \ RowsOf(d) \subseteq job.rows
          /\ d.hi <= c.hi
          /\ d.rows # << >> => c.rows # << >> /\ d.lo = c.lo /\ d.hi = c.hi
        BY <2>1, DrainedRows, Zenon
    <2> QED
        BY <2>1, <2>2
<1>5. ds \in [Keys -> Chunk]
    <2>1. ds = [k \in Keys |-> ds[k]]
        BY DEF DrainedChunks
    <2> HIDE DEF ds
    <2> QED
        BY <1>4, <2>1
<1> HIDE DEF ds
<1>6. ASSUME NEW k \in Keys
      PROVE  /\ ds[k].hi < curSeq
             /\ ds[k].rows # << >> => /\ 0 < ds[k].lo
                                     /\ ds[k].lo <= ds[k].hi
                                     /\ ds[k].lo < curSeq
    <2>1. /\ chunks[k].hi < curSeq
          /\ chunks[k].rows # << >> => 0 < chunks[k].lo /\ chunks[k].lo <= chunks[k].hi
        BY DEF IInv, BoundsInv
    <2>2. /\ chunks[k].hi \in Nat /\ chunks[k].lo \in Nat
          /\ ds[k].hi \in Nat /\ ds[k].lo \in Nat
        BY <1>2, <1>4 DEF Chunk
    <2> QED
        BY <1>2, <1>4, <2>1, <2>2
<1>7. /\ safe' \in Nat /\ safe' < curSeq
      /\ \A k \in Keys : ds[k].rows # << >> => safe' < ds[k].lo
    BY <1>1, <1>2, <1>5, <1>6, WatermarkBelow, Zenon
<1>3. /\ \A t \in Tasks : gap[t].seq <= safe' => gap[t].ops \subseteq inGap
      /\ \A n \in unread : n <= safe' => wal[n] \subseteq inFile
      /\ inGap \subseteq Batches /\ inFile \subseteq Batches
    <2>1. \A t \in Tasks : gap[t].ops \subseteq Batches
        BY <1>2
    <2>2. \A n \in unread : wal[n] \subseteq Batches
        BY <1>2
    <2>3. inGap \subseteq Batches
        BY <2>1
    <2>4. inFile \subseteq Batches
        BY <2>2
    <2> QED
        BY <2>3, <2>4
<1> HIDE DEF inGap, inFile
<1>8. uncovered \subseteq uncovered' /\ uncovered' \subseteq Batches
    BY <1>1, <1>2, <1>3
<1>9. TypeOK'
    <2>1. unread' \subseteq Nat
        BY <1>1, <1>2
    <2> QED
        BY <1>1, <1>5, <1>7, <1>8, <2>1 DEF IInv, TypeOK
<1>10. FreshSequence' /\ LateInv' /\ UnreadInv'
    BY <1>1 DEF IInv, FreshSequence, LateInv, UnreadInv, Kept, Running
<1>11. BoundsInv'
    BY <1>1, <1>6, <1>7 DEF IInv, BoundsInv, InGap
<1>12. \A n \in DOMAIN wal : Kept(n) /\ safe' < n => Kept(n)'
    BY <1>1 DEF Kept
<1>13. BufferInv'
    <2> SUFFICES ASSUME NEW k \in Keys, NEW b \in RowsOf(ds[k]), b \notin uncovered'
                 PROVE  \E n \in DOMAIN wal :
                          b \in wal[n] /\ Kept(n)' /\ ds[k].lo <= n
        BY <1>1 DEF BufferInv
    <2>1. b \in RowsOf(chunks[k]) \ uncovered
        BY <1>4, <1>8
    <2>2. PICK n \in DOMAIN wal : b \in wal[n] /\ Kept(n) /\ chunks[k].lo <= n
        BY <2>1 DEF IInv, BufferInv
    <2>3. ds[k].rows # << >>
        BY DEF RowsOf
    <2>4. safe' < ds[k].lo /\ ds[k].lo = chunks[k].lo /\ ds[k].lo \in Nat
        BY <1>4, <1>7, <2>3 DEF Chunk
    <2>5. n \in Nat /\ safe' < n
        BY <1>2, <1>7, <2>2, <2>4
    <2> QED
        BY <1>12, <2>2, <2>4, <2>5
<1>14. GapInv'
    <2> SUFFICES ASSUME NEW u \in Tasks, InGap(u)
                 PROVE  \/ gap[u].ops \subseteq uncovered'
                        \/ Kept(gap[u].seq)' /\ wal[gap[u].seq] = gap[u].ops
        BY <1>1 DEF IInv, GapInv, InGap, Running
    <2>1. CASE gap[u].seq <= safe'
        BY <1>1, <1>3, <2>1
    <2>2. CASE ~(gap[u].seq <= safe')
        <3>1. \/ gap[u].ops \subseteq uncovered
              \/ Kept(gap[u].seq) /\ wal[gap[u].seq] = gap[u].ops
            BY DEF IInv, GapInv
        <3>2. safe' < gap[u].seq
            BY <1>2, <1>7, <2>2
        <3>3. Kept(gap[u].seq) => gap[u].seq \in DOMAIN wal
            BY DEF Kept
        <3>4. gap' = gap
            BY <1>1
        <3> QED
            BY <1>8, <1>12, <3>1, <3>2, <3>3, <3>4
    <2> QED
        BY <2>1, <2>2
<1>15. JobInv'
    BY <1>1 DEF JobInv
<1>16. AckedInv'
    <2>1. Staged' = Staged /\ Delivered' = Delivered /\ clobbered' = clobbered
        BY <1>1 DEF Staged, Delivered
    <2>2. Buffered \subseteq Buffered' \cup job.rows
        BY <1>1, <1>4 DEF Buffered
    <2>3. job.rows \subseteq Staged \cup Delivered \cup clobbered
        BY <1>1 DEF IInv, JobInv
    <2>4. Unread \subseteq Unread' \cup Lost'
        <3> SUFFICES ASSUME NEW n \in unread, NEW b \in wal[n]
                     PROVE  b \in Unread' \cup Lost'
            BY DEF Unread
        <3>1. crashes # 0
            BY DEF IInv, UnreadInv
        <3>2. CASE n <= safe'
            <4>1. b \in uncovered' /\ crashes' = crashes
                BY <1>1, <1>3, <3>2
            <4> QED
                BY <3>1, <4>1 DEF Lost
        <3>3. CASE ~(n <= safe')
            <4>1. n \in unread' /\ b \in wal'[n]
                BY <1>1, <1>2, <1>7, <3>3
            <4> QED
                BY <4>1 DEF Unread
        <3> QED
            BY <3>2, <3>3
    <2> QED
        BY <1>1, <1>8, <2>1, <2>2, <2>3, <2>4, AckedFrame DEF IInv, Running
<1> QED
    BY <1>9, <1>10, <1>11, <1>13, <1>14, <1>15, <1>16 DEF IInv

(* A meta file with the watermark the handoff computed, or the old one, or nothing yet,
   lets recovery skip no file that is kept. *)
LEMMA MetaFrame ==
    ASSUME IInv, Running, Running', meta' \in {0, meta, safe}, safe' \in {0, safe},
           UNCHANGED <<curSeq, wal, late, unread, abandoned, gap, chunks, uncovered, crashes>>
    PROVE  FreshSequence' /\ BoundsInv' /\ LateInv' /\ UnreadInv' /\ BufferInv' /\ GapInv'
<1>1. /\ curSeq \in Nat \ {0} /\ safe < curSeq /\ safe \in Nat
      /\ DOMAIN wal \subseteq Nat \ {0}
    BY DEF IInv, TypeOK, BoundsInv
<1>2. FreshSequence'
    BY <1>1 DEF IInv, FreshSequence
<1>3. BoundsInv' /\ LateInv'
    BY <1>1 DEF IInv, BoundsInv, LateInv, InGap, Running
<1>4. ASSUME NEW n, Kept(n) PROVE Kept(n)'
    BY <1>1, <1>4 DEF Kept
<1>7. UnreadInv'
    BY <1>4 DEF IInv, UnreadInv
<1>5. BufferInv'
    BY <1>4 DEF IInv, BufferInv
<1>6. GapInv'
    BY <1>4 DEF IInv, GapInv, InGap
<1> QED
    BY <1>2, <1>3, <1>5, <1>6, <1>7

(* Writing the watermark, and truncating the file first, keep the invariant. *)
LEMMA MetaStep ==
    ASSUME IInv, MetaCreate \/ MetaWrite
    PROVE  IInv'
<1>1. /\ pc \in {"meta", "metawrite"} /\ pc' \in {"metawrite", "clean"}
      /\ meta' \in {0, safe}
      /\ UNCHANGED <<pending, curSeq, wal, late, unread, abandoned, gap, chunks, todo, job, safe, cursor,
                     staged, net, store, crashes, faults, sent, acked, uncovered,
                     overtaken, clobbered, aborted>>
    BY DEF MetaCreate, MetaWrite, walVars, history
<1>2. FreshSequence' /\ BoundsInv' /\ LateInv' /\ UnreadInv' /\ BufferInv' /\ GapInv'
    BY <1>1, MetaFrame DEF Running
<1>3. TypeOK'
    <2>1. meta' \in Nat
        BY <1>1 DEF IInv, TypeOK
    <2> QED
        BY <1>1, <2>1 DEF IInv, TypeOK
<1>4. JobInv'
    BY <1>1 DEF JobInv
<1>5. AckedInv'
    <2>1. Buffered' = Buffered /\ Staged' = Staged /\ Delivered' = Delivered
        BY <1>1 DEF Buffered, Staged, Delivered
    <2> QED
        BY <1>1, <2>1, AckedFrame DEF IInv, Running
<1> QED
    BY <1>2, <1>3, <1>4, <1>5 DEF IInv

(* A watermark that cannot be written, or perhaps has been, leaves every WAL file in
   place. *)
LEMMA MetaFailsStep ==
    ASSUME IInv, MetaFails
    PROVE  IInv'
<1>1. /\ pc \in {"meta", "metawrite"} /\ pc' = "idle" /\ Fault
      /\ todo' = NoTodo /\ safe' = 0 /\ meta' \in {meta, safe}
      /\ UNCHANGED <<pending, curSeq, wal, late, unread, abandoned, gap, chunks, job, cursor, staged,
                     net, store, crashes, sent, acked, uncovered, overtaken,
                     clobbered, aborted>>
    BY DEF MetaFails, walVars
<1>2. FreshSequence' /\ BoundsInv' /\ LateInv' /\ UnreadInv' /\ BufferInv' /\ GapInv'
    BY <1>1, MetaFrame DEF Running
<1>3. TypeOK'
    <2>1. faults' \in 0 .. MaxFaults /\ meta' \in Nat
        BY <1>1, AgentAssumption DEF Fault, IInv, TypeOK
    <2>2. todo' \in [Tables -> SUBSET Windows]
        BY <1>1 DEF NoTodo
    <2> QED
        BY <1>1, <2>1, <2>2 DEF IInv, TypeOK
<1>4. JobInv'
    BY <1>1 DEF JobInv
<1>5. AckedInv'
    <2>1. Buffered' = Buffered /\ Staged' = Staged /\ Delivered' = Delivered
        BY <1>1 DEF Buffered, Staged, Delivered
    <2> QED
        BY <1>1, <2>1, AckedFrame DEF IInv, Running
<1> QED
    BY <1>2, <1>3, <1>4, <1>5 DEF IInv

(* The files removed are below the watermark: none of them is replayed, and
   none holds a buffered row. *)
LEMMA CleanupStep ==
    ASSUME IInv, NEW files, Cleanup(files)
    PROVE  IInv'
<1>1. /\ pc = "clean" /\ pc' \in {"work", "idle"} /\ safe' = 0
      /\ files \subseteq Obsolete /\ wal' = Without(wal, files)
      /\ faults' = faults \/ Fault
      /\ UNCHANGED <<pending, curSeq, late, unread, abandoned, meta, gap, chunks, todo, job, cursor, staged,
                     net, store, crashes, sent, acked, uncovered, overtaken,
                     clobbered, aborted>>
    BY DEF Cleanup
<1>2. /\ DOMAIN wal \subseteq Nat \ {0} /\ wal \in [DOMAIN wal -> SUBSET Batches]
      /\ safe \in Nat /\ curSeq \in Nat \ {0} /\ faults \in 0 .. MaxFaults
    BY DEF IInv, TypeOK
<1>3. /\ DOMAIN wal' = DOMAIN wal \ files
      /\ wal' \in [DOMAIN wal' -> SUBSET Batches]
      /\ \A n \in DOMAIN wal \ files : wal'[n] = wal[n]
    BY <1>1, <1>2 DEF Without
<1>4. ASSUME NEW n \in DOMAIN wal, Kept(n)
      PROVE  n \in DOMAIN wal' /\ wal'[n] = wal[n] /\ Kept(n)'
    <2>1. n \in Nat \ {0} /\ safe < n /\ meta < n /\ n < curSeq
        BY <1>2, <1>4 DEF Kept
    <2>2. n \notin files
        BY <1>1, <1>2, <2>1 DEF Obsolete
    <2> QED
        BY <1>1, <1>3, <2>1, <2>2 DEF Kept
<1>5. TypeOK'
    <2>1. faults' \in 0 .. MaxFaults
        BY <1>1, <1>2, AgentAssumption DEF Fault
    <2>2. DOMAIN wal' \subseteq Nat \ {0}
        BY <1>2, <1>3
    <2> QED
        BY <1>1, <1>3, <2>1, <2>2 DEF IInv, TypeOK
<1>6. FreshSequence' /\ LateInv'
    BY <1>1, <1>3 DEF IInv, FreshSequence, LateInv
<1>12. UnreadInv' /\ Unread \subseteq Unread'
    <2>1. \A n \in unread : n \in DOMAIN wal /\ Kept(n)
        BY DEF IInv, UnreadInv, Kept
    <2> QED
        BY <1>1, <1>4, <2>1 DEF IInv, UnreadInv, Unread, Running
<1>7. BoundsInv'
    BY <1>1, <1>2 DEF IInv, BoundsInv, InGap
<1>8. BufferInv'
    <2> SUFFICES ASSUME NEW k \in Keys, NEW b \in RowsOf(chunks[k]) \ uncovered
                 PROVE  \E n \in DOMAIN wal' :
                          b \in wal'[n] /\ Kept(n)' /\ chunks[k].lo <= n
        BY <1>1 DEF BufferInv
    <2>1. PICK n \in DOMAIN wal : b \in wal[n] /\ Kept(n) /\ chunks[k].lo <= n
        BY DEF IInv, BufferInv
    <2> QED
        BY <1>4, <2>1
<1>9. GapInv'
    <2> SUFFICES ASSUME NEW u \in Tasks, InGap(u)
                 PROVE  \/ gap[u].ops \subseteq uncovered
                        \/ Kept(gap[u].seq)' /\ wal'[gap[u].seq] = gap[u].ops
        BY <1>1 DEF IInv, GapInv, InGap, Running
    <2>1. \/ gap[u].ops \subseteq uncovered
          \/ Kept(gap[u].seq) /\ wal[gap[u].seq] = gap[u].ops
        BY DEF IInv, GapInv
    <2>2. Kept(gap[u].seq) => gap[u].seq \in DOMAIN wal
        BY DEF Kept
    <2>3. gap' = gap
        BY <1>1
    <2> QED
        BY <1>4, <2>1, <2>2, <2>3
<1>10. JobInv'
    BY <1>1 DEF JobInv
<1>11. AckedInv'
    <2>1. Buffered' = Buffered /\ Staged' = Staged /\ Delivered' = Delivered
        BY <1>1 DEF Buffered, Staged, Delivered
    <2> QED
        BY <1>1, <1>12, <2>1, AckedFrame DEF IInv, Running
<1> QED
    BY <1>5, <1>6, <1>7, <1>8, <1>9, <1>10, <1>11, <1>12 DEF IInv

-----------------------------------------------------------------------------
(* Staged files, and uploads that arrive late *)

(* A retry rebuilds an upload name. *)
LEMMA RetryNameType ==
    ASSUME NEW n \in Names
    PROVE  RetryName(n) \in Names
    BY DEF RetryName, UploadName, S3Key, Names

(* A delivered staged file is in the store, or accounted for, before it goes. *)
LEMMA RetryOKStep ==
    ASSUME IInv, NEW n \in DOMAIN staged, RetryOK(n)
    PROVE  IInv'
<1>1. /\ pc = "idle" /\ Store(RetryName(n), staged[n])
      /\ staged' = Without(staged, {n}) \/ staged' = staged
      /\ faults' = faults \/ Fault
      /\ UNCHANGED <<pending, curSeq, wal, late, unread, abandoned, meta, gap, chunks, pc, todo, job, safe,
                     cursor, net, crashes, sent, acked, uncovered, overtaken, aborted>>
    BY DEF RetryOK, walVars, schedVars
<1>2. /\ DOMAIN staged \subseteq Names /\ staged \in [DOMAIN staged -> SUBSET Batches]
    BY DEF IInv, TypeOK
<1>3. RetryName(n) \in Names /\ staged[n] \subseteq Batches
    BY <1>2, RetryNameType
<1>4. /\ DOMAIN store' \subseteq Names /\ store' \in [DOMAIN store' -> SUBSET Batches]
      /\ clobbered \subseteq clobbered' /\ clobbered' \subseteq Batches
      /\ Delivered \cup staged[n] \subseteq Delivered' \cup clobbered'
    BY <1>1, <1>3, StoreKeeps, Zenon
<1>5. /\ DOMAIN staged \ {n} \subseteq DOMAIN staged'
      /\ DOMAIN staged' \subseteq DOMAIN staged
      /\ staged' \in [DOMAIN staged' -> SUBSET Batches]
      /\ \A m \in DOMAIN staged \ {n} : staged'[m] = staged[m]
    BY <1>1, <1>2 DEF Without
<1>6. Staged \subseteq Staged' \cup staged[n]
    BY <1>5 DEF Staged, Contents
<1>7. FreshSequence' /\ BoundsInv' /\ LateInv' /\ UnreadInv' /\ BufferInv' /\ GapInv'
    <2>1. safe \in Nat
        BY DEF IInv, TypeOK
    <2> QED
        BY <1>1, <2>1, WalFrame DEF Running
<1>8. TypeOK'
    <2>1. DOMAIN staged' \subseteq Names
        BY <1>2, <1>5
    <2>2. faults' \in 0 .. MaxFaults
        BY <1>1, AgentAssumption DEF Fault, IInv, TypeOK
    <2> QED
        BY <1>1, <1>4, <1>5, <2>1, <2>2 DEF IInv, TypeOK
<1>9. JobInv'
    BY <1>1 DEF IInv, JobInv
<1>10. AckedInv'
    <2>1. Buffered' = Buffered
        BY <1>1 DEF Buffered
    <2> QED
        BY <1>1, <1>4, <1>6, <2>1, AckedFrame DEF IInv, Running
<1> QED
    BY <1>7, <1>8, <1>9, <1>10 DEF IInv

(* A failed retry keeps the staged file. *)
LEMMA RetryFailsStep ==
    ASSUME IInv, NEW n \in DOMAIN staged, RetryFails(n)
    PROVE  IInv'
<1>1. /\ pc = "idle" /\ Fault /\ UploadError(RetryName(n), staged[n])
      /\ UNCHANGED <<pending, curSeq, wal, late, unread, abandoned, meta, gap, chunks, pc, todo, job, safe,
                     cursor, staged, crashes, sent, acked, uncovered, overtaken,
                     aborted>>
    BY DEF RetryFails, walVars, schedVars
<1>2. /\ DOMAIN staged \subseteq Names /\ staged \in [DOMAIN staged -> SUBSET Batches]
    BY DEF IInv, TypeOK
<1>3. RetryName(n) \in Names /\ staged[n] \subseteq Batches
    BY <1>2, RetryNameType
<1>4. /\ DOMAIN store' \subseteq Names /\ store' \in [DOMAIN store' -> SUBSET Batches]
      /\ net' \subseteq [name : Names, rows : SUBSET Batches]
      /\ clobbered \subseteq clobbered' /\ clobbered' \subseteq Batches
      /\ Delivered \subseteq Delivered' \cup clobbered' \cup staged[n]
    BY <1>1, <1>3, UploadErrorKeeps, Zenon
<1>5. FreshSequence' /\ BoundsInv' /\ LateInv' /\ UnreadInv' /\ BufferInv' /\ GapInv'
    <2>1. safe \in Nat
        BY DEF IInv, TypeOK
    <2> QED
        BY <1>1, <2>1, WalFrame DEF Running
<1>6. TypeOK'
    <2>1. faults' \in 0 .. MaxFaults
        BY <1>1, AgentAssumption DEF Fault, IInv, TypeOK
    <2> QED
        BY <1>1, <1>4, <2>1 DEF IInv, TypeOK
<1>7. JobInv'
    BY <1>1 DEF IInv, JobInv
<1>8. AckedInv'
    <2>1. Buffered' = Buffered /\ Staged' = Staged
        BY <1>1 DEF Buffered, Staged
    <2>2. staged[n] \subseteq Staged
        BY DEF Staged, Contents
    <2> QED
        BY <1>1, <1>4, <2>1, <2>2, AckedFrame DEF IInv, Running
<1> QED
    BY <1>5, <1>6, <1>7, <1>8 DEF IInv

(* An upload that arrives late is stored like any other. *)
LEMMA ArriveStep ==
    ASSUME IInv, NEW upload \in net, Arrive(upload)
    PROVE  IInv'
<1>1. /\ Store(upload.name, upload.rows) /\ net' = net \ {upload}
      /\ UNCHANGED <<pending, curSeq, wal, late, unread, abandoned, meta, gap, chunks, pc, todo, job, safe,
                     cursor, staged, crashes, faults, sent, acked, uncovered,
                     overtaken, aborted>>
    BY DEF Arrive, walVars, schedVars
<1>2. upload.name \in Names /\ upload.rows \subseteq Batches
    BY DEF IInv, TypeOK
<1>3. /\ DOMAIN store' \subseteq Names /\ store' \in [DOMAIN store' -> SUBSET Batches]
      /\ clobbered \subseteq clobbered' /\ clobbered' \subseteq Batches
      /\ Delivered \cup upload.rows \subseteq Delivered' \cup clobbered'
    BY <1>1, <1>2, StoreKeeps, Zenon
<1>4. FreshSequence' /\ BoundsInv' /\ LateInv' /\ UnreadInv' /\ BufferInv' /\ GapInv'
    <2>1. safe \in Nat
        BY DEF IInv, TypeOK
    <2> QED
        BY <1>1, <2>1, WalFrame DEF Running
<1>5. TypeOK'
    <2>1. net' \subseteq [name : Names, rows : SUBSET Batches]
        BY <1>1 DEF IInv, TypeOK
    <2> QED
        BY <1>1, <1>3, <2>1 DEF IInv, TypeOK
<1>6. JobInv'
    <2>1. Staged' = Staged /\ Buffered' = Buffered
        BY <1>1 DEF Staged, Buffered
    <2> HIDE DEF Staged, Delivered
    <2> QED
        BY <1>1, <1>3, <2>1 DEF IInv, JobInv
<1>7. AckedInv'
    <2>1. Buffered' = Buffered /\ Staged' = Staged
        BY <1>1 DEF Buffered, Staged
    <2> QED
        BY <1>1, <1>3, <2>1, AckedFrame DEF IInv
<1> QED
    BY <1>4, <1>5, <1>6, <1>7 DEF IInv

(* The end of the scheduler keeps the invariant: what it was about to hand off stays
   where it is. *)
LEMMA StopStep ==
    ASSUME IInv, Stop
    PROVE  IInv'
<1>1. /\ pc # "replay" /\ pc' = "stopped" /\ Fault
      /\ todo' = NoTodo /\ job' = NoJob /\ safe' = 0
      /\ UNCHANGED <<pending, curSeq, wal, late, unread, abandoned, meta, gap, chunks,
                     cursor, staged, store, crashes, sent, acked, uncovered, overtaken,
                     clobbered, aborted>>
    BY DEF Stop, walVars
<1>2. FreshSequence' /\ BoundsInv' /\ LateInv' /\ UnreadInv' /\ BufferInv' /\ GapInv'
    <2>1. safe' \in Nat /\ safe' <= safe
        BY <1>1 DEF IInv, TypeOK
    <2> QED
        BY <1>1, <2>1, WalFrame DEF Running
<1>3. InFlight \subseteq [name : Names, rows : SUBSET Batches]
    <2>1. CASE pc = "upload"
        <3>1. job.name \in Names /\ job.rows \in SUBSET Batches
            BY <2>1, JobType
        <3> QED
            BY <2>1, <3>1 DEF InFlight
    <2>2. CASE pc = "idle"
        <3>1. \A n \in DOMAIN staged : RetryName(n) \in Names /\ staged[n] \in SUBSET Batches
            BY RetryNameType DEF IInv, TypeOK
        <3> QED
            BY <2>2, <3>1 DEF InFlight
    <2> QED
        BY <2>1, <2>2 DEF InFlight
<1>4. TypeOK'
    <2>1. faults' \in 0 .. MaxFaults
        BY <1>1, AgentAssumption DEF Fault, IInv, TypeOK
    <2>2. todo' \in [Tables -> SUBSET Windows]
        BY <1>1 DEF NoTodo
    <2>3. net' \subseteq [name : Names, rows : SUBSET Batches]
        BY <1>3 DEF Stop, IInv, TypeOK
    <2> QED
        BY <1>1, <2>1, <2>2, <2>3 DEF IInv, TypeOK
<1>5. JobInv'
    BY <1>1 DEF JobInv
<1>6. AckedInv'
    <2>1. Buffered' = Buffered /\ Staged' = Staged /\ Delivered' = Delivered
        BY <1>1 DEF Buffered, Staged, Delivered
    <2> QED
        BY <1>1, <2>1, AckedFrame DEF IInv, Running
<1> QED
    BY <1>2, <1>4, <1>5, <1>6 DEF IInv

-----------------------------------------------------------------------------
(* Crash and recovery *)

(* A crash and restart: every row that was buffered, and not passed by a
   watermark, is in a file to be replayed, and the next number is a fresh one. *)
LEMMA CrashStep ==
    ASSUME IInv, Crash
    PROVE  IInv'
<1>1. /\ crashes < MaxCrashes /\ crashes' = crashes + 1
      /\ wal' = wal \/ wal' = Bind(wal, curSeq, {})
      /\ curSeq' = NextSeq(DOMAIN wal', meta)
      /\ pending' = {} /\ late' = {} /\ unread' = {} /\ gap' = [t \in Tasks |-> NoGap]
      /\ chunks' = [k \in Keys |-> NewChunk]
      /\ pc' = "replay" /\ todo' = NoTodo /\ job' = NoJob /\ safe' = 0
      /\ cursor' = 0
      /\ UNCHANGED <<abandoned, meta, staged, net, store, faults, sent, acked,
                     uncovered, overtaken, clobbered, aborted>>
    BY DEF Crash
<1>2. /\ DOMAIN wal \subseteq Nat \ {0} /\ wal \in [DOMAIN wal -> SUBSET Batches]
      /\ curSeq \in Nat \ {0} /\ meta \in Nat /\ meta < curSeq
      /\ \A n \in DOMAIN wal : n <= curSeq
    BY DEF IInv, TypeOK, FreshSequence
<1>3. /\ DOMAIN wal' \subseteq DOMAIN wal \cup {curSeq} /\ DOMAIN wal \subseteq DOMAIN wal'
      /\ wal' \in [DOMAIN wal' -> SUBSET Batches]
      /\ \A n \in DOMAIN wal : n < curSeq => wal'[n] = wal[n]
    <2>1. CASE wal' = wal
        BY <1>2, <2>1
    <2>2. CASE wal' = Bind(wal, curSeq, {})
        <3> DEFINE torn == {}
        <3>1. torn \subseteq Batches /\ wal' = Bind(wal, curSeq, torn)
            BY <2>2
        <3> HIDE DEF torn
        <3> QED
            BY <3>1, WalWrite
    <2> QED
        BY <1>1, <2>1, <2>2
<1>4. /\ curSeq' \in Nat \ {0} /\ meta < curSeq'
      /\ \A n \in DOMAIN wal' : n < curSeq'
    <2> DEFINE numbers == DOMAIN wal' \cup {meta}
    <2>1. numbers \in SUBSET Nat /\ numbers # {} /\ curSeq \in Nat
              /\ \A n \in numbers : n <= curSeq
        BY <1>2, <1>3
    <2>2. curSeq' = Greatest(numbers) + 1
        BY <1>1 DEF NextSeq
    <2>3. meta \in numbers /\ DOMAIN wal' \subseteq numbers
        OBVIOUS
    <2> HIDE DEF numbers
    <2>4. Greatest(numbers) \in numbers /\ \A m \in numbers : m <= Greatest(numbers)
        BY <2>1, GreatestIn, Zenon
    <2>5. Greatest(numbers) \in Nat /\ \A m \in numbers : m \in Nat
        BY <2>1, <2>4
    <2>6. curSeq' \in Nat \ {0} /\ \A m \in numbers : m < curSeq'
        BY <2>2, <2>4, <2>5
    <2> QED
        BY <2>3, <2>6
<1>5. chunks' \in [Keys -> Chunk] /\ \A k \in Keys : RowsOf(chunks'[k]) = {}
    BY <1>1, NewChunkEmpty
<1>6. TypeOK'
    <2>1. Cardinality({}) <= OpLimit
        BY FS_EmptySet, AgentAssumption
    <2>2. gap' \in [Tasks -> [ops : SUBSET Batches, seq : Nat, req : SUBSET Batches]]
        BY <1>1 DEF NoGap
    <2>3. todo' \in [Tables -> SUBSET Windows]
        BY <1>1 DEF NoTodo
    <2>4. DOMAIN wal' \subseteq Nat \ {0} /\ crashes' \in 0 .. MaxCrashes
        BY <1>1, <1>2, <1>3, AgentAssumption DEF IInv, TypeOK
    <2> QED
        BY <1>1, <1>3, <1>4, <1>5, <2>1, <2>2, <2>3, <2>4 DEF IInv, TypeOK
<1>7. FreshSequence' /\ LateInv' /\ UnreadInv'
    <2>1. crashes' # 0
        BY <1>1 DEF IInv, TypeOK
    <2> QED
        BY <1>1, <1>4, <2>1 DEF FreshSequence, LateInv, UnreadInv
<1>8. BoundsInv'
    BY <1>1, <1>4 DEF BoundsInv, InGap, NoGap, NewChunk
<1>9. BufferInv'
    BY <1>5 DEF BufferInv
<1>10. GapInv' /\ JobInv'
    BY <1>1 DEF GapInv, InGap, NoGap, JobInv
<1>11. AckedInv'
    <2> SUFFICES ASSUME NEW b \in acked \ (uncovered \cup clobbered)
                 PROVE  \/ b \in Staged \cup Delivered
                        \/ \E n \in ToReplay' : b \in wal'[n]
        <3>1. Lost' = clobbered \cup uncovered
            BY <1>1 DEF IInv, TypeOK, Lost
        <3> QED
            BY <1>1, <3>1 DEF AckedInv, Staged, Delivered
    <2>1. CASE b \in Buffered
        <3>1. PICK k \in Keys : b \in RowsOf(chunks[k])
            BY <2>1 DEF Buffered
        <3>2. PICK n \in DOMAIN wal : b \in wal[n] /\ Kept(n)
            BY <3>1 DEF IInv, BufferInv
        <3>3. n \in DOMAIN wal' /\ b \in wal'[n] /\ meta < n /\ 0 < n
            BY <1>2, <1>3, <3>2 DEF Kept
        <3>4. n \in ToReplay'
            BY <1>1, <1>2, <3>2, <3>3 DEF ToReplay
        <3> QED
            BY <3>3, <3>4
    <2>3. pc = "replay" => \A n \in DOMAIN wal : n < curSeq
        BY DEF IInv, LateInv
    <2>2. CASE pc = "replay" /\ \E n \in ToReplay : b \in wal[n]
        <3>1. PICK n \in DOMAIN wal : b \in wal[n] /\ n > meta /\ n < curSeq
            BY <2>2, <2>3 DEF ToReplay
        <3>2. n \in DOMAIN wal' /\ b \in wal'[n] /\ n \in ToReplay'
            BY <1>1, <1>2, <1>3, <3>1 DEF ToReplay
        <3> QED
            BY <3>2
    <2>4. CASE b \in Unread
        <3>1. PICK n \in unread : b \in wal[n]
            BY <2>4 DEF Unread
        <3>2. n \in DOMAIN wal /\ n < curSeq /\ meta < n
            BY DEF IInv, UnreadInv, Kept
        <3>3. n \in DOMAIN wal' /\ b \in wal'[n] /\ n \in ToReplay'
            BY <1>1, <1>2, <1>3, <3>1, <3>2 DEF ToReplay
        <3> QED
            BY <3>3
    <2> QED
        BY <2>1, <2>2, <2>4 DEF IInv, AckedInv, Lost
<1> QED
    BY <1>6, <1>7, <1>8, <1>9, <1>10, <1>11 DEF IInv

(* A replayed file moves from what is to be replayed to the buffer. *)
LEMMA ReplayFileStep ==
    ASSUME IInv, ReplayFile
    PROVE  IInv'
<1> DEFINE n == Least(ToReplay)
           ops == wal[n]
<1>1. /\ pc = "replay" /\ ToReplay # {} /\ cursor' = n
      /\ chunks' = ApplyOps(chunks, ops, n)
      /\ UNCHANGED <<pending, curSeq, wal, late, unread, abandoned, meta, gap, pc, todo, job, safe, staged,
                     net, store, crashes, faults, sent, acked, uncovered, overtaken,
                     clobbered, aborted>>
    BY DEF ReplayFile, walVars, schedVars, history
<1>2. /\ DOMAIN wal \subseteq Nat \ {0} /\ wal \in [DOMAIN wal -> SUBSET Batches]
      /\ chunks \in [Keys -> Chunk] /\ curSeq \in Nat /\ meta \in Nat /\ cursor \in Nat
    BY DEF IInv, TypeOK
<1>3. n \in ToReplay /\ \A m \in ToReplay : n <= m
    <2>1. ToReplay \in SUBSET Nat
        BY <1>2 DEF ToReplay
    <2> QED
        BY <1>1, <2>1, LeastIn, Zenon
<1>14. \A m \in DOMAIN wal : m < curSeq
    BY <1>1 DEF IInv, LateInv
<1>4. /\ n \in DOMAIN wal /\ n \in Nat /\ 0 < n /\ meta < n
      /\ ops \subseteq Batches
      /\ n < curSeq
    BY <1>2, <1>3, <1>14 DEF ToReplay
<1> HIDE DEF n, ops
<1>5. /\ chunks' \in [Keys -> Chunk]
      /\ \A k \in Keys :
            /\ BatchesOf(k, ops) \subseteq ops
            /\ RowsOf(chunks'[k]) = RowsOf(chunks[k]) \cup BatchesOf(k, ops)
      /\ \A b \in ops : \E k \in Keys : b \in RowsOf(chunks'[k])
    BY <1>1, <1>4, AppliedRows, Zenon
<1>6. \A k \in Keys :
            /\ chunks'[k].hi < curSeq
            /\ chunks'[k].rows # << >> => /\ 0 < chunks'[k].lo
                                          /\ chunks'[k].lo <= chunks'[k].hi
            /\ chunks[k].rows # << >> => chunks'[k].lo <= chunks[k].lo
            /\ BatchesOf(k, ops) # {} => chunks'[k].lo <= n
    BY <1>1, <1>4, AppliedBounds, Zenon
<1>7. TypeOK'
    BY <1>1, <1>4, <1>5 DEF IInv, TypeOK
<1>8. FreshSequence' /\ LateInv' /\ UnreadInv'
    BY <1>1 DEF IInv, FreshSequence, LateInv, UnreadInv, Kept, Running
<1>9. BoundsInv'
    BY <1>1, <1>6 DEF IInv, BoundsInv, InGap
<1>10. \A m : Kept(m) => Kept(m)'
    BY <1>1 DEF Kept
<1>11. BufferInv'
    <2> SUFFICES ASSUME NEW k \in Keys, NEW b \in RowsOf(chunks'[k]), b \notin uncovered
                 PROVE  \E m \in DOMAIN wal :
                          b \in wal[m] /\ Kept(m)' /\ chunks'[k].lo <= m
        BY <1>1 DEF BufferInv
    <2>1. CASE b \in RowsOf(chunks[k])
        <3>1. PICK m \in DOMAIN wal : b \in wal[m] /\ Kept(m) /\ chunks[k].lo <= m
            BY <2>1 DEF IInv, BufferInv
        <3>2. chunks[k].rows # << >>
            BY <2>1 DEF RowsOf
        <3>3. /\ chunks[k].lo \in Nat /\ chunks'[k].lo \in Nat /\ m \in Nat
              /\ chunks'[k].lo <= chunks[k].lo
            BY <1>2, <1>5, <1>6, <3>2 DEF Chunk
        <3> QED
            BY <1>10, <3>1, <3>3
    <2>2. CASE b \in BatchesOf(k, ops)
        <3>1. safe = 0
            BY <1>1 DEF IInv, BoundsInv
        <3>2. Kept(n)
            BY <1>4, <3>1 DEF Kept
        <3>3. b \in wal[n] /\ chunks'[k].lo <= n
            BY <1>5, <1>6, <2>2 DEF ops
        <3> QED
            BY <1>4, <1>10, <3>2, <3>3
    <2> QED
        BY <1>5, <2>1, <2>2
<1>12. GapInv' /\ JobInv'
    BY <1>1 DEF IInv, GapInv, InGap, Running, JobInv
<1>13. AckedInv'
    <2> SUFFICES ASSUME NEW b \in acked \ Lost
                 PROVE  \/ b \in Buffered' \cup Staged \cup Delivered \cup Unread
                        \/ \E m \in ToReplay' : b \in wal[m]
        BY <1>1 DEF AckedInv, Lost, Staged, Delivered, Unread
    <2>1. Buffered \cup ops \subseteq Buffered'
        BY <1>5 DEF Buffered
    <2>2. ASSUME NEW m \in ToReplay, m # n PROVE m \in ToReplay'
        BY <1>1, <1>2, <1>3, <1>4, <2>2 DEF ToReplay
    <2> QED
        BY <2>1, <2>2 DEF IInv, AckedInv, ops
<1> QED
    BY <1>7, <1>8, <1>9, <1>11, <1>12, <1>13 DEF IInv

(* A skipped file is still kept, and its rows are noted as unread. *)
LEMMA ReplaySkipsStep ==
    ASSUME IInv, ReplaySkips
    PROVE  IInv'
<1> DEFINE n == Least(ToReplay)
<1>1. /\ pc = "replay" /\ ToReplay # {} /\ cursor' = n /\ Fault
      /\ unread' = unread \cup {n}
      /\ UNCHANGED <<pending, curSeq, wal, late, abandoned, meta, gap, chunks, pc, todo,
                     job, safe, staged, net, store, crashes, sent, acked, uncovered,
                     overtaken, clobbered, aborted>>
    BY DEF ReplaySkips, schedVars
<1>2. DOMAIN wal \subseteq Nat \ {0} /\ meta \in Nat /\ cursor \in Nat
    BY DEF IInv, TypeOK
<1>3. n \in ToReplay /\ \A m \in ToReplay : n <= m
    <2>1. ToReplay \in SUBSET Nat
        BY <1>2 DEF ToReplay
    <2> QED
        BY <1>1, <2>1, LeastIn, Zenon
<1> HIDE DEF n
<1>4. n \in DOMAIN wal /\ n \in Nat \ {0} /\ meta < n /\ n < curSeq /\ safe = 0
    BY <1>1, <1>2, <1>3 DEF ToReplay, IInv, LateInv, BoundsInv
<1>5. TypeOK'
    <2>1. faults' \in 0 .. MaxFaults /\ unread' \subseteq Nat
        BY <1>1, <1>4, AgentAssumption DEF Fault, IInv, TypeOK
    <2> QED
        BY <1>1, <1>4, <2>1 DEF IInv, TypeOK
<1>6. FreshSequence' /\ LateInv' /\ BoundsInv'
    BY <1>1 DEF IInv, FreshSequence, LateInv, BoundsInv, InGap
<1>7. BufferInv' /\ GapInv' /\ JobInv'
    BY <1>1 DEF IInv, BufferInv, GapInv, InGap, Kept, Running, JobInv
<1>8. UnreadInv'
    <2>1. Kept(n)
        BY <1>4 DEF Kept
    <2>2. crashes # 0
        BY <1>1 DEF IInv, UnreadInv, Running
    <2> QED
        BY <1>1, <2>1, <2>2 DEF IInv, UnreadInv, Kept
<1>9. AckedInv'
    <2> SUFFICES ASSUME NEW b \in acked \ Lost
                 PROVE  \/ b \in Buffered \cup Staged \cup Delivered \cup Unread'
                        \/ \E m \in ToReplay' : b \in wal[m]
        BY <1>1 DEF AckedInv, Lost, Buffered, Staged, Delivered
    <2>1. Unread \cup wal[n] \subseteq Unread'
        BY <1>1 DEF Unread
    <2>2. ASSUME NEW m \in ToReplay, m # n PROVE m \in ToReplay'
        BY <1>1, <1>2, <1>3, <1>4, <2>2 DEF ToReplay
    <2> QED
        BY <2>1, <2>2 DEF IInv, AckedInv
<1> QED
    BY <1>5, <1>6, <1>7, <1>8, <1>9 DEF IInv

(* When nothing is left to replay, every file above the watermark is in the
   buffer. *)
LEMMA ReplayDoneStep ==
    ASSUME IInv, ReplayDone
    PROVE  IInv'
<1>1. /\ pc = "replay" /\ ToReplay = {} /\ pc' = "idle" /\ cursor' = 0
      /\ UNCHANGED <<pending, curSeq, wal, late, unread, abandoned, meta, gap, chunks, todo, job, safe, staged,
                     net, store, crashes, faults, sent, acked, uncovered, overtaken,
                     clobbered, aborted>>
    BY DEF ReplayDone, walVars, history
<1>2. FreshSequence' /\ BoundsInv' /\ LateInv' /\ UnreadInv' /\ BufferInv' /\ GapInv'
    <2>1. safe \in Nat
        BY DEF IInv, TypeOK
    <2> QED
        BY <1>1, <2>1, WalFrame DEF Running
<1>3. TypeOK'
    BY <1>1 DEF IInv, TypeOK
<1>4. JobInv'
    BY <1>1 DEF JobInv
<1>5. AckedInv'
    BY <1>1 DEF IInv, AckedInv, Lost, Buffered, Staged, Delivered, Unread
<1> QED
    BY <1>2, <1>3, <1>4, <1>5 DEF IInv

-----------------------------------------------------------------------------
(* The theorems *)

(* A step of the scheduler task keeps the invariant. *)
LEMMA SchedulerStep ==
    ASSUME IInv, Scheduler
    PROVE  IInv'
<1>1. ASSUME NEW w \in Windows, SnapshotCollect(w + 1) PROVE IInv'
    BY <1>1, SnapshotCollectStep
<1>2. ASSUME NEW t \in Tables, Capture(t) PROVE IInv'
    BY <1>2, CaptureStep
<1>13. ASSUME NEW t \in Tables, CaptureFails(t) PROVE IInv'
    BY <1>13, CaptureFailsStep
<1>3. CASE UploadOK
    BY <1>3, UploadOKStep
<1>4. CASE UploadFails
    BY <1>4, UploadFailsStep
<1>5. CASE StageOK
    BY <1>5, StageOKStep
<1>6. CASE StageFails
    BY <1>6, StageFailsStep
<1>7. CASE Drain
    BY <1>7, DrainStep
<1>8. CASE MetaCreate \/ MetaWrite
    BY <1>8, MetaStep
<1>9. CASE MetaFails
    BY <1>9, MetaFailsStep
<1>10. ASSUME NEW files \in SUBSET DOMAIN wal, Cleanup(files) PROVE IInv'
    BY <1>10, CleanupStep
<1>11. ASSUME NEW n \in DOMAIN staged, RetryOK(n) PROVE IInv'
    BY <1>11, RetryOKStep
<1>12. ASSUME NEW n \in DOMAIN staged, RetryFails(n) PROVE IInv'
    BY <1>12, RetryFailsStep
<1> QED
    BY <1>1, <1>2, <1>3, <1>4, <1>5, <1>6, <1>7, <1>8, <1>9, <1>10, <1>11, <1>12, <1>13
       DEF Scheduler

(* A step that changes nothing keeps the invariant. *)
LEMMA StutterStep ==
    ASSUME IInv, UNCHANGED vars
    PROVE  IInv'
<1>1. UNCHANGED <<pending, curSeq, wal, late, unread, abandoned, meta, gap, chunks, pc, todo, job, safe, cursor,
                  staged, net, store, crashes, faults, sent, acked, uncovered,
                  overtaken, clobbered, aborted>>
    BY DEF vars
<1>2. TypeOK'
    BY <1>1 DEF IInv, TypeOK
<1>3. FreshSequence' /\ BoundsInv' /\ LateInv' /\ UnreadInv' /\ BufferInv' /\ GapInv'
    <2>1. safe \in Nat
        BY DEF IInv, TypeOK
    <2> QED
        BY <1>1, <2>1, WalFrame DEF Running
<1>4. JobInv'
    BY <1>1, JobSame DEF IInv
<1>5. AckedInv'
    <2>1. Buffered' = Buffered /\ Staged' = Staged /\ Delivered' = Delivered
        BY <1>1 DEF Buffered, Staged, Delivered
    <2> QED
        BY <1>1, <2>1, AckedFrame DEF IInv
<1> QED
    BY <1>2, <1>3, <1>4, <1>5 DEF IInv

(* IInv is inductive: no step of any task, of the network or of a crash and
   its recovery breaks it. *)
THEOREM Inductive == IInv /\ [Next]_vars => IInv'
<1> SUFFICES ASSUME IInv, [Next]_vars PROVE IInv'
    OBVIOUS
<1>1. ASSUME NEW h \in Handlers, NEW req \in Requests, Write(h, req) PROVE IInv'
    BY <1>1, WriteStep
<1>2. ASSUME NEW h \in Handlers, NEW req \in Requests, WriteRejected(h, req) PROVE IInv'
    BY <1>2, WriteRejectedStep
<1>3. CASE Tick
    BY <1>3, TickStep
<1>4. ASSUME NEW t \in Tasks, Apply(t) PROVE IInv'
    BY <1>4, ApplyStep
<1>12. ASSUME NEW w \in late, LateWrite(w) PROVE IInv'
    BY <1>12, LateWriteStep
<1>5. ASSUME NEW h \in Handlers, Disconnect(h) PROVE IInv'
    BY <1>5, DisconnectStep
<1>6. CASE Scheduler
    BY <1>6, SchedulerStep
<1>7. ASSUME NEW upload \in net, Arrive(upload) PROVE IInv'
    BY <1>7, ArriveStep
<1>8. CASE Crash
    BY <1>8, CrashStep
<1>9. CASE ReplayFile
    BY <1>9, ReplayFileStep
<1>10. CASE ReplayDone
    BY <1>10, ReplayDoneStep
<1>13. CASE ReplaySkips
    BY <1>13, ReplaySkipsStep
<1>14. CASE Stop
    BY <1>14, StopStep
<1>11. CASE UNCHANGED vars
    BY <1>11, StutterStep
<1> QED
    BY <1>1, <1>2, <1>3, <1>4, <1>5, <1>6, <1>7, <1>8, <1>9, <1>10, <1>11, <1>12, <1>13,
       <1>14 DEF Next

(* The inductive invariant holds of every reachable state of the agent. *)
THEOREM Invariance == Spec => []IInv
<1>1. Init => IInv
    BY InitIInv
<1>2. IInv /\ [Next]_vars => IInv'
    BY Inductive
<1> QED
    BY <1>1, <1>2, PTL DEF Spec

(* Type correctness; in particular the WAL buffer never holds more than
   max_write_buffer_ops operations. *)
THEOREM TypeCorrect == Spec => []TypeOK
<1>1. IInv => TypeOK
    BY DEF IInv
<1> QED
    BY <1>1, Invariance, PTL

(* The number of the next WAL file is above the watermark, and above that of every file
   but perhaps one that is torn or that an abandoned write left: so a new file replaces no
   other, and recovery does not take it for flushed (the numbering of WalManager::new and
   flush).  Files may still be gone over by an abandoned write that comes late. *)
THEOREM SequencesAreFresh == Spec => []FreshSequence
<1>1. IInv => FreshSequence
    BY DEF IInv
<1> QED
    BY <1>1, Invariance, PTL

(* A row still in the buffer is in a file that a restart replays, unless it is in
   uncovered: a watermark passed it in the gap or in a file that recovery could not read,
   or an abandoned write went over its file.  It is BufferInv without its bounds. *)
THEOREM BufferIsReplayable == Spec => []BufferedReplayable
<1>1. IInv => BufferedReplayable
    <2> SUFFICES ASSUME IInv, NEW b \in Buffered \ uncovered PROVE b \in Replayable
        BY DEF BufferedReplayable
    <2>1. PICK k \in Keys : b \in RowsOf(chunks[k])
        BY DEF Buffered
    <2>2. PICK n \in DOMAIN wal : b \in wal[n] /\ meta < n
        BY <2>1 DEF IInv, BufferInv, Kept
    <2>3. DOMAIN wal \subseteq Nat /\ meta \in Nat
        BY DEF IInv, TypeOK
    <2> QED
        BY <2>2, <2>3 DEF Replayable
<1> QED
    BY <1>1, Invariance, PTL

(* An acknowledged row is delivered, staged or in a file that a restart replays, unless a
   watermark passed it in the gap or in a file that recovery could not read, an abandoned
   write went over its file, or a name held other rows: the write path has no fifth way to
   lose a row. *)
THEOREM AckedRowsAreSafe == Spec => []AckedSafe
<1>1. IInv => AckedSafe
    <2> SUFFICES ASSUME IInv, NEW b \in acked \ (uncovered \cup clobbered)
                 PROVE  b \in Delivered \cup Staged \cup Replayable
        BY DEF AckedSafe
    <2>1. DOMAIN wal \subseteq Nat /\ meta \in Nat
        BY DEF IInv, TypeOK
    <2>2. CASE b \in Buffered
        <3>1. PICK k \in Keys : b \in RowsOf(chunks[k])
            BY <2>2 DEF Buffered
        <3>2. PICK n \in DOMAIN wal : b \in wal[n] /\ meta < n
            BY <3>1 DEF IInv, BufferInv, Kept
        <3> QED
            BY <2>1, <3>2 DEF Replayable
    <2>3. CASE \E n \in ToReplay : b \in wal[n]
        BY <2>3 DEF ToReplay, Replayable
    <2>4. CASE b \in Unread
        <3>1. PICK n \in unread : b \in wal[n]
            BY <2>4 DEF Unread
        <3>2. n \in DOMAIN wal /\ meta < n
            BY DEF IInv, UnreadInv, Kept
        <3> QED
            BY <2>1, <3>1, <3>2 DEF Replayable
    <2> QED
        BY <2>2, <2>3, <2>4 DEF IInv, AckedInv, Lost
<1> QED
    BY <1>1, Invariance, PTL

(* While the agent runs, an acknowledged row is buffered, staged, delivered or in a file
   that the last recovery could not read, unless a name held other rows or, once there was
   a crash, it is in uncovered. *)
THEOREM AckedRowsAreReachable == Spec => []AckedReachable
<1>1. IInv => AckedReachable
    BY DEF IInv, AckedInv, AckedReachable, Running
<1> QED
    BY <1>1, Invariance, PTL

(* Rows that are applied are in the buffer with those that were. *)
LEMMA AppliedJoin ==
    ASSUME IInv, NEW ops, ops \subseteq Batches, NEW n, n \in Nat,
           chunks' = ApplyOps(chunks, ops, n)
    PROVE  Buffered \cup ops \subseteq Buffered'
<1>1. /\ \A k \in Keys : RowsOf(chunks'[k]) = RowsOf(chunks[k]) \cup BatchesOf(k, ops)
      /\ \A b \in ops : \E k \in Keys : b \in RowsOf(chunks'[k])
    BY AppliedRows, Zenon
<1> QED
    BY <1>1 DEF Buffered

(* What a handoff drains has a copy. *)
LEMMA DrainedCopied ==
    ASSUME IInv, Drain
    PROVE  Buffered \ Buffered' \subseteq job.rows \cap (Delivered \cup Staged \cup clobbered)
<1>1. /\ pc = "drain" /\ chunks' = DrainedChunks
      /\ job.rows \subseteq Delivered \cup Staged \cup clobbered
    BY DEF Drain, IInv, JobInv
<1>2. \A k \in Keys : RowsOf(chunks[k]) \ RowsOf(DrainedChunks[k]) \subseteq job.rows
    BY <1>1, DrainedRows, Zenon
<1> QED
    BY <1>1, <1>2 DEF Buffered

(* Rows leave the buffer of a running agent only if they were captured, and are stored or
   staged by then, or went under a name that held other rows. *)
THEOREM HandoffIsDurable == Spec => HandoffKeepsRows
<1> DEFINE Moved == pc' # "replay" =>
                      Buffered \ Buffered' \subseteq
                          job.rows \cap (Delivered \cup Staged \cup clobbered)
<1>1. ASSUME IInv, [Next]_vars PROVE [Moved]_vars
    <2>1. ASSUME NEW t \in Tasks, Apply(t) PROVE Buffered \subseteq Buffered'
        <3>1. /\ gap[t].ops \subseteq Batches /\ gap[t].seq \in Nat
              /\ chunks' = ApplyOps(chunks, gap[t].ops, gap[t].seq)
            BY <1>1, <2>1 DEF IInv, TypeOK, Apply
        <3> QED
            BY <1>1, <3>1, AppliedJoin
    <2>2. CASE Drain
        BY <1>1, <2>2, DrainedCopied
    <2>3. CASE Crash \/ ReplayFile
        BY <2>3 DEF Crash, ReplayFile, schedVars
    <2>4. CASE UNCHANGED chunks
        BY <2>4 DEF Buffered
    <2>5. \/ \E t \in Tasks : Apply(t)
          \/ Drain \/ Crash \/ ReplayFile
          \/ UNCHANGED chunks
        <3>1. CASE Scheduler
            BY <3>1 DEF Scheduler, SnapshotCollect, Capture, CaptureFails, UploadOK, UploadFails,
                        StageOK, StageFails, MetaCreate, MetaWrite, MetaFails,
                        Cleanup, RetryOK, RetryFails
        <3>2. CASE UNCHANGED vars
            BY <3>2 DEF vars
        <3> QED
            BY <1>1, <3>1, <3>2
               DEF Next, Write, WriteRejected, Tick, LateWrite, Disconnect, Arrive, Stop,
                   ReplaySkips, ReplayDone
    <2> QED
        BY <2>1, <2>2, <2>3, <2>4, <2>5
<1> QED
    BY <1>1, Invariance, PTL DEF HandoffKeepsRows, Spec
=============================================================================
