------------------------- MODULE AgentCustodyProofs -------------------------
(***************************************************************************)
(* The agent is a keeper of rows: every step of AgentIngest is a step of   *)
(* RowCustody or none, for all batches, tables, handlers, backends, crashes *)
(* and failures.  AgentIngestProofs says where acknowledged rows are; this  *)
(* says that no row at all leaves unnoted.                                  *)
(*                                                                         *)
(* The second part is about one life of the agent, up to its first crash   *)
(* or abandoned cycle: every row is in one place, files are uploaded under *)
(* names of their own, and so a collision or a second copy has a cause.    *)
(* PassInv is the invariant; like IInv it has a lemma per kind of step.    *)
(***************************************************************************)
EXTENDS AgentIngestProofs

(* What a running agent has or has delivered. *)
Present == Buffered \cup Staged \cup Delivered

(* No row is taken out of custody unnoted. *)
Unbroken == Lost \subseteq Lost' /\ Custody \subseteq Custody' \cup Lost'

(* A step that is not part of recovery needs to account for what was present. *)
LEMMA CustodyFrame ==
    ASSUME UNCHANGED crashes, Running \/ UNCHANGED <<pc, wal, meta, cursor>>,
           Running => Running',
           uncovered \subseteq uncovered', clobbered \subseteq clobbered',
           UNCHANGED <<wal, unread>> \/ Unread \subseteq Unread' \cup Lost',
           Present \subseteq Present' \cup clobbered'
    PROVE  Unbroken
<1>1. Lost \subseteq Lost' /\ clobbered' \subseteq Lost'
    BY DEF Lost
<1>2. Unread \subseteq Unread' \cup Lost'
    BY DEF Unread
<1>3. UNCHANGED <<pc, wal, meta, cursor>> => Running' = Running /\ ToReplay' = ToReplay
    BY DEF Running, ToReplay
<1> HIDE DEF Unread, Lost, ToReplay
<1>4. CASE Running
    BY <1>1, <1>2, <1>4 DEF Unbroken, Custody, Present
<1>5. CASE UNCHANGED <<pc, wal, meta, cursor>>
    BY <1>1, <1>2, <1>3, <1>5 DEF Unbroken, Custody, Present
<1> QED
    BY <1>4, <1>5

-----------------------------------------------------------------------------
(* A file that recovery could not read keeps its rows, until an abandoned write goes over
   it or a watermark passes it. *)
LEMMA UnreadKept ==
    ASSUME IInv,
           \/ \E h \in Handlers, req \in Requests : Write(h, req) \/ WriteRejected(h, req)
           \/ Tick
           \/ \E w \in late : LateWrite(w)
           \/ Drain
           \/ \E files \in SUBSET DOMAIN wal : Cleanup(files)
    PROVE  Unread \subseteq Unread' \cup Lost'
<1>1. /\ \A n \in unread : n \in DOMAIN wal /\ n < curSeq /\ meta < n /\ safe < n
      /\ crashes = 0 => unread = {}
    BY DEF IInv, UnreadInv, Kept
<1>2. ASSUME NEW h \in Handlers, NEW req \in Requests, Write(h, req)
      PROVE  Unread \subseteq Unread'
  <2> DEFINE ops == pending \cup req
  <2>1. /\ Running
        /\ FlushFile(h, ops, req) \/ FlushFails \/ FlushAbandoned(ops)
        /\ UNCHANGED <<meta, chunks, schedVars, uncovered, crashes>>
    BY <1>2 DEF Write
  <2>2. h \in Tasks /\ ops \subseteq Batches /\ req \subseteq ops
    BY DataAssumption DEF Tasks, IInv, TypeOK
  <2> HIDE DEF ops
  <2>3. CASE FlushFile(h, ops, req)
    BY <2>1, <2>2, <2>3, FlushFileStep, Zenon
  <2>4. CASE FlushFails
    BY <2>1, <2>4, FlushFailsStep, Zenon
  <2>5. CASE FlushAbandoned(ops)
    BY <2>1, <2>2, <2>5, FlushAbandonedStep, Zenon
  <2> QED
    BY <2>1, <2>3, <2>4, <2>5
<1>3. ASSUME NEW h \in Handlers, NEW req \in Requests, WriteRejected(h, req)
      PROVE  Unread \subseteq Unread'
    BY <1>3 DEF WriteRejected, Unread
<1>4. CASE Tick
  <2> DEFINE none == {}
  <2>1. /\ Running
        /\ FlushFile(Ticker, pending, none) \/ FlushFails
        /\ UNCHANGED <<meta, chunks, schedVars, uncovered, crashes>>
    BY <1>4 DEF Tick
  <2>2. Ticker \in Tasks /\ pending \subseteq Batches /\ none \subseteq pending
    BY DEF Tasks, IInv, TypeOK
  <2> HIDE DEF none
  <2>3. CASE FlushFile(Ticker, pending, none)
    BY <2>1, <2>2, <2>3, FlushFileStep, Zenon
  <2>4. CASE FlushFails
    BY <2>1, <2>4, FlushFailsStep, Zenon
  <2> QED
    BY <2>1, <2>3, <2>4
<1>5. ASSUME NEW w \in late, LateWrite(w)
      PROVE  Unread \subseteq Unread' \cup Lost'
  <2>1. /\ uncovered' = uncovered \cup (IF w.seq \in DOMAIN wal THEN wal[w.seq] ELSE {})
        /\ unread' = unread /\ crashes' = crashes
        /\ \A n \in DOMAIN wal : n # w.seq => wal'[n] = wal[n]
    BY <1>5 DEF LateWrite, Bind
  <2> SUFFICES ASSUME NEW n \in unread, NEW b \in wal[n] PROVE b \in Unread' \cup Lost'
    BY DEF Unread
  <2>2. CASE n = w.seq
    BY <1>1, <2>1, <2>2 DEF Lost
  <2>3. CASE n # w.seq
    BY <1>1, <2>1, <2>3 DEF Unread
  <2> QED
    BY <2>2, <2>3
<1>6. CASE Drain
  <2>1. /\ unread' = {n \in unread : safe' < n} /\ wal' = wal /\ crashes' = crashes
        /\ UNION {wal[n] : n \in {m \in unread : m <= safe'}} \subseteq uncovered'
    BY <1>6 DEF Drain
  <2>2. safe' \in Nat /\ \A n \in unread : n \in Nat
    <3>1. IInv'
      BY <1>6, DrainStep
    <3> QED
      BY <3>1 DEF IInv, TypeOK
  <2> SUFFICES ASSUME NEW n \in unread, NEW b \in wal[n] PROVE b \in Unread' \cup Lost'
    BY DEF Unread
  <2>3. CASE n <= safe'
    BY <1>1, <2>1, <2>3 DEF Lost
  <2>4. CASE safe' < n
    BY <2>1, <2>4 DEF Unread
  <2> QED
    BY <2>2, <2>3, <2>4
<1>7. ASSUME NEW files, Cleanup(files)
      PROVE  Unread \subseteq Unread'
  <2>1. /\ files \subseteq Obsolete /\ wal' = Without(wal, files) /\ unread' = unread
    BY <1>7 DEF Cleanup
  <2>2. safe \in Nat /\ \A n \in unread : n \in Nat
    BY DEF IInv, TypeOK
  <2>3. \A n \in unread : n \notin files
    BY <1>1, <2>1, <2>2 DEF Obsolete
  <2> QED
    BY <1>1, <2>1, <2>3 DEF Unread, Without
<1> QED
    BY <1>2, <1>3, <1>4, <1>5, <1>6, <1>7

-----------------------------------------------------------------------------
(* Steps that leave staging directory and store alone. *)
LEMMA CustodyOfBuffer ==
    ASSUME IInv,
           \/ \E h \in Handlers, req \in Requests : Write(h, req) \/ WriteRejected(h, req)
           \/ Tick
           \/ \E w \in late : LateWrite(w)
           \/ \E t \in Tasks : Apply(t)
           \/ \E h \in Handlers : Disconnect(h)
           \/ \E w \in Windows : SnapshotCollect(w + 1)
           \/ \E t \in Tables : Capture(t) \/ CaptureFails(t)
           \/ StageFails \/ Stop \/ Drain \/ MetaCreate \/ MetaWrite \/ MetaFails
           \/ \E files \in SUBSET DOMAIN wal : Cleanup(files)
    PROVE  Unbroken
<1>1. /\ UNCHANGED <<staged, store, clobbered, crashes>> /\ uncovered \subseteq uncovered'
      /\ Running /\ Running'
    BY DEF Write, WriteRejected, Tick, LateWrite, Apply, Disconnect, SnapshotCollect, Capture,
           CaptureFails, StageFails, Stop, Drain, MetaCreate, MetaWrite, MetaFails, Cleanup,
           history, walVars, schedVars, Running, Fault, FlushFile, FlushFails,
           FlushAbandoned, IInv, GapInv, LateInv, Tasks
<1>2. Staged' = Staged /\ Delivered' = Delivered
    BY <1>1 DEF Staged, Delivered
<1>3. Buffered \subseteq Buffered' \cup Delivered \cup Staged \cup clobbered
  <2>1. ASSUME NEW t \in Tasks, Apply(t) PROVE Buffered \subseteq Buffered'
    <3>1. /\ gap[t].ops \subseteq Batches /\ gap[t].seq \in Nat
          /\ chunks' = ApplyOps(chunks, gap[t].ops, gap[t].seq)
        BY <2>1 DEF IInv, TypeOK, Apply
    <3> QED
        BY <3>1, AppliedJoin
  <2>2. CASE Drain
    BY <2>2, DrainedCopied
  <2>3. CASE UNCHANGED chunks
    BY <2>3 DEF Buffered
  <2>4. (\E t \in Tasks : Apply(t)) \/ Drain \/ UNCHANGED chunks
    BY DEF Write, WriteRejected, Tick, LateWrite, Disconnect, SnapshotCollect, Capture, CaptureFails,
           StageFails, Stop, MetaCreate, MetaWrite, MetaFails, Cleanup, history
  <2> QED
    BY <2>1, <2>2, <2>3, <2>4
<1>4. Present \subseteq Present' \cup clobbered'
    BY <1>1, <1>2, <1>3 DEF Present
<1>5. UNCHANGED <<wal, unread>> \/ Unread \subseteq Unread' \cup Lost'
  <2>1. \/ UNCHANGED <<wal, unread>>
        \/ \E h \in Handlers, req \in Requests : Write(h, req) \/ WriteRejected(h, req)
        \/ Tick
        \/ \E w \in late : LateWrite(w)
        \/ Drain
        \/ \E files \in SUBSET DOMAIN wal : Cleanup(files)
    BY DEF Apply, Disconnect, SnapshotCollect, Capture, CaptureFails, StageFails, Stop,
           MetaCreate, MetaWrite, MetaFails, walVars
  <2> QED
    BY <2>1, UnreadKept
<1> QED
    BY <1>1, <1>4, <1>5, CustodyFrame

(* Steps that store or stage a file: what they displace is noted. *)
LEMMA CustodyOfFiles ==
    ASSUME IInv,
           \/ UploadOK \/ UploadFails \/ StageOK
           \/ \E n \in DOMAIN staged : RetryOK(n) \/ RetryFails(n)
           \/ \E upload \in net : Arrive(upload)
    PROVE  Unbroken
<1>1. /\ UNCHANGED <<chunks, crashes, uncovered, wal, unread>>
      /\ (Running /\ Running') \/ UNCHANGED <<pc, wal, meta, cursor>>
    BY DEF UploadOK, UploadFails, StageOK, RetryOK, RetryFails, Arrive, walVars, schedVars,
           Running
<1>2. Buffered' = Buffered
    BY <1>1 DEF Buffered
<1>3. /\ DOMAIN staged \subseteq Names /\ staged \in [DOMAIN staged -> SUBSET Batches]
      /\ \A n \in DOMAIN staged : RetryName(n) \in Names /\ staged[n] \subseteq Batches
    BY RetryNameType DEF IInv, TypeOK
<1>4. /\ clobbered \subseteq clobbered'
      /\ Staged \cup Delivered \subseteq Buffered \cup Staged' \cup Delivered' \cup clobbered'
  <2>1. CASE UploadOK
    <3>1. pc = "upload" /\ Store(job.name, job.rows) /\ staged' = staged
        BY <2>1 DEF UploadOK
    <3>2. job.name \in Names /\ job.rows \subseteq Batches
        BY <3>1, JobType
    <3>3. clobbered \subseteq clobbered' /\ Delivered \subseteq Delivered' \cup clobbered'
        BY <3>1, <3>2, StoreKeeps
    <3> QED
        BY <3>1, <3>3 DEF Staged
  <2>2. CASE UploadFails
    <3>1. pc = "upload" /\ UploadError(job.name, job.rows) /\ staged' = staged
        BY <2>2 DEF UploadFails
    <3>2. job.name \in Names /\ job.rows \subseteq Batches
        BY <3>1, JobType
    <3>3. /\ clobbered \subseteq clobbered'
          /\ Delivered \subseteq Delivered' \cup clobbered' \cup job.rows
        BY <3>1, <3>2, UploadErrorKeeps
    <3>4. job.rows \subseteq Buffered
        BY <3>1 DEF IInv, JobInv
    <3> QED
        BY <3>1, <3>3, <3>4 DEF Staged
  <2>3. CASE StageOK
    <3>1. /\ staged' = Bind(staged, job.stageName, job.rows) /\ store' = store
          /\ clobbered' = clobbered \cup
                (IF job.stageName \in DOMAIN staged
                 THEN staged[job.stageName] \ job.rows ELSE {})
        BY <2>3 DEF StageOK
    <3>2. Staged \subseteq Staged' \cup clobbered'
        BY <1>3, <3>1 DEF Staged, Contents, Bind
    <3> QED
        BY <3>1, <3>2 DEF Delivered
  <2>4. ASSUME NEW n \in DOMAIN staged, RetryOK(n)
        PROVE  /\ clobbered \subseteq clobbered'
               /\ Staged \cup Delivered \subseteq Buffered \cup Staged' \cup Delivered' \cup clobbered'
    <3>1. /\ Store(RetryName(n), staged[n])
          /\ staged' = Without(staged, {n}) \/ staged' = staged
        BY <2>4 DEF RetryOK
    <3>2. /\ clobbered \subseteq clobbered'
          /\ Delivered \cup staged[n] \subseteq Delivered' \cup clobbered'
        BY <1>3, <3>1, StoreKeeps
    <3>3. Staged \subseteq Staged' \cup staged[n]
        BY <1>3, <3>1 DEF Staged, Contents, Without
    <3> QED
        BY <3>2, <3>3
  <2>5. ASSUME NEW n \in DOMAIN staged, RetryFails(n)
        PROVE  /\ clobbered \subseteq clobbered'
               /\ Staged \cup Delivered \subseteq Buffered \cup Staged' \cup Delivered' \cup clobbered'
    <3>1. UploadError(RetryName(n), staged[n]) /\ staged' = staged
        BY <2>5 DEF RetryFails
    <3>2. /\ clobbered \subseteq clobbered'
          /\ Delivered \subseteq Delivered' \cup clobbered' \cup staged[n]
        BY <1>3, <3>1, UploadErrorKeeps
    <3>3. Staged' = Staged /\ staged[n] \subseteq Staged
        BY <3>1 DEF Staged, Contents
    <3> QED
        BY <3>2, <3>3
  <2>6. ASSUME NEW upload \in net, Arrive(upload)
        PROVE  /\ clobbered \subseteq clobbered'
               /\ Staged \cup Delivered \subseteq Buffered \cup Staged' \cup Delivered' \cup clobbered'
    <3>1. Store(upload.name, upload.rows) /\ staged' = staged
        BY <2>6 DEF Arrive
    <3>2. upload.name \in Names /\ upload.rows \subseteq Batches
        BY DEF IInv, TypeOK
    <3>3. clobbered \subseteq clobbered' /\ Delivered \subseteq Delivered' \cup clobbered'
        BY <3>1, <3>2, StoreKeeps
    <3> QED
        BY <3>1, <3>3 DEF Staged
  <2> QED
    BY <2>1, <2>2, <2>3, <2>4, <2>5, <2>6
<1>5. Present \subseteq Present' \cup clobbered'
    BY <1>2, <1>4 DEF Present
<1> QED
    BY <1>1, <1>4, <1>5, CustodyFrame DEF Running

(* A crash takes from custody only what a watermark passed in the gap: the rest of the
   buffer is in files to replay, and so is what was to be replayed. *)
LEMMA CustodyOfCrash ==
    ASSUME IInv, Crash
    PROVE  Unbroken
<1>1. /\ crashes < MaxCrashes /\ crashes' = crashes + 1
      /\ wal' = wal \/ wal' = Bind(wal, curSeq, {})
      /\ pc' = "replay" /\ cursor' = 0
      /\ UNCHANGED <<meta, staged, store, uncovered, clobbered>>
    BY DEF Crash
<1>2. /\ DOMAIN wal \subseteq Nat \ {0} /\ wal \in [DOMAIN wal -> SUBSET Batches]
      /\ meta \in Nat /\ crashes \in Nat
    BY DEF IInv, TypeOK
<1>3. \A n \in DOMAIN wal : n < curSeq => n \in DOMAIN wal' /\ wal'[n] = wal[n]
  <2>1. curSeq \in Nat
    BY DEF IInv, TypeOK
  <2> QED
    BY <1>1, <1>2, <2>1 DEF Bind
<1>4. Lost' = clobbered \cup uncovered /\ Lost \subseteq Lost'
    BY <1>1, <1>2 DEF Lost
<1>5. \A n \in DOMAIN wal : \A b \in wal[n] :
         meta < n /\ n < curSeq => n \in ToReplay' /\ b \in wal'[n]
    BY <1>1, <1>2, <1>3 DEF ToReplay
<1>6. ASSUME NEW b \in Custody PROVE b \in Custody' \cup Lost'
  <2>1. CASE b \in Staged \cup Delivered
    BY <1>1, <2>1 DEF Custody, Staged, Delivered
  <2>2. CASE b \in Buffered
    <3>1. PICK k \in Keys : b \in RowsOf(chunks[k])
        BY <2>2 DEF Buffered
    <3>2. CASE b \in uncovered
        BY <1>4, <3>2
    <3>3. CASE b \notin uncovered
      <4>1. PICK n \in DOMAIN wal : b \in wal[n] /\ meta < n /\ n < curSeq
        BY <3>1, <3>3 DEF IInv, BufferInv, Kept
      <4> QED
        BY <1>1, <1>5, <4>1 DEF Custody, Running
    <3> QED
        BY <3>2, <3>3
  <2>3. CASE b \in Unread
    <3>1. PICK n \in unread : b \in wal[n]
        BY <2>3 DEF Unread
    <3>2. n \in DOMAIN wal /\ meta < n /\ n < curSeq
        BY <3>1 DEF IInv, UnreadInv, Kept
    <3> QED
        BY <1>1, <1>5, <3>1, <3>2 DEF Custody, Running
  <2>4. ASSUME ~Running, NEW n \in ToReplay, b \in wal[n] PROVE b \in Custody'
    <3>1. n \in DOMAIN wal /\ meta < n /\ n < curSeq
        BY <1>2, <2>4 DEF ToReplay, Running, IInv, LateInv
    <3> QED
        BY <1>1, <1>5, <2>4, <3>1 DEF Custody, Running
  <2> QED
    BY <2>1, <2>2, <2>3, <2>4 DEF Custody
<1> QED
    BY <1>4, <1>6 DEF Unbroken

(* Recovery moves rows from their files to the buffer. *)
LEMMA CustodyOfReplay ==
    ASSUME IInv, ReplayFile \/ ReplaySkips \/ ReplayDone
    PROVE  Unbroken
<1>1. /\ UNCHANGED <<wal, meta, staged, store, crashes, uncovered, clobbered>>
      /\ unread \subseteq unread'
    BY DEF ReplayFile, ReplaySkips, ReplayDone, walVars, history
<1>2. Lost' = Lost /\ Staged' = Staged /\ Delivered' = Delivered /\ Unread \subseteq Unread'
    BY <1>1 DEF Lost, Staged, Delivered, Unread
<1>3. CASE ReplayFile
  <2> DEFINE n == Least(ToReplay)
             ops == wal[n]
  <2>1. pc = "replay" /\ pc' = "replay" /\ cursor' = n /\ chunks' = ApplyOps(chunks, ops, n)
        /\ ToReplay # {}
    BY <1>3 DEF ReplayFile, schedVars
  <2>2. /\ DOMAIN wal \subseteq Nat \ {0} /\ wal \in [DOMAIN wal -> SUBSET Batches]
        /\ meta \in Nat /\ cursor \in Nat
    BY DEF IInv, TypeOK
  <2>3. ToReplay \in SUBSET Nat
    BY <2>2 DEF ToReplay
  <2>4. n \in ToReplay /\ \A m \in ToReplay : n <= m
    BY <2>1, <2>3, LeastIn, Zenon
  <2>5. n \in Nat /\ ops \subseteq Batches
    BY <2>2, <2>3, <2>4 DEF ToReplay
  <2> HIDE DEF n, ops
  <2>6. Buffered \cup ops \subseteq Buffered'
    BY <2>1, <2>5, AppliedJoin
  <2>7. \A m \in ToReplay : m = n \/ m \in ToReplay'
    BY <1>1, <2>1, <2>2, <2>3, <2>4, <2>5 DEF ToReplay
  <2>8. UNION {wal[m] : m \in ToReplay} \subseteq ops \cup UNION {wal[m] : m \in ToReplay'}
    BY <2>7 DEF ops
  <2> QED
    BY <1>1, <1>2, <2>1, <2>6, <2>8 DEF Unbroken, Custody, Running
<1>4. CASE ReplaySkips
  <2> DEFINE n == Least(ToReplay)
  <2>1. /\ pc = "replay" /\ pc' = "replay" /\ cursor' = n /\ chunks' = chunks
        /\ unread' = unread \cup {n} /\ ToReplay # {}
    BY <1>4 DEF ReplaySkips, schedVars
  <2>2. /\ DOMAIN wal \subseteq Nat \ {0} /\ meta \in Nat /\ cursor \in Nat
    BY DEF IInv, TypeOK
  <2>3. ToReplay \in SUBSET Nat
    BY <2>2 DEF ToReplay
  <2>4. n \in ToReplay /\ \A m \in ToReplay : n <= m
    BY <2>1, <2>3, LeastIn, Zenon
  <2>5. n \in Nat
    BY <2>3, <2>4
  <2> HIDE DEF n
  <2>6. \A m \in ToReplay : m = n \/ m \in ToReplay'
    BY <1>1, <2>1, <2>2, <2>3, <2>4, <2>5 DEF ToReplay
  <2>7. wal[n] \subseteq Unread'
    BY <1>1, <2>1 DEF Unread
  <2>8. UNION {wal[m] : m \in ToReplay} \subseteq Unread' \cup UNION {wal'[m] : m \in ToReplay'}
    BY <1>1, <2>6, <2>7
  <2>9. Buffered' = Buffered
    BY <2>1 DEF Buffered
  <2> HIDE DEF Unread, ToReplay, Buffered, Staged, Delivered, Lost
  <2> QED
    BY <1>2, <2>1, <2>8, <2>9 DEF Unbroken, Custody, Running
<1>5. CASE ReplayDone
  <2>1. ToReplay = {} /\ chunks' = chunks /\ pc' = "idle"
    BY <1>5 DEF ReplayDone
  <2> QED
    BY <1>2, <2>1 DEF Unbroken, Custody, Buffered, Running
<1> QED
    BY <1>3, <1>4, <1>5

-----------------------------------------------------------------------------
(* What the keeper holds and has lost are batches. *)
LEMMA CustodyType == IInv => Custody \subseteq Batches /\ Lost \subseteq Batches
<1> SUFFICES ASSUME IInv PROVE Custody \subseteq Batches /\ Lost \subseteq Batches
    OBVIOUS
<1>1. Buffered \subseteq Batches
  <2>1. ASSUME NEW k \in Keys PROVE RowsOf(chunks[k]) \subseteq Batches
    <3>1. chunks[k].rows \in Seq(SUBSET Batches)
        BY DEF IInv, TypeOK, Chunk
    <3> QED
        BY <3>1 DEF RowsOf
  <2> QED
    BY <2>1 DEF Buffered
<1>2. Staged \subseteq Batches /\ Delivered \subseteq Batches
    BY DEF IInv, TypeOK, Staged, Delivered, Contents
<1>3. UNION {wal[n] : n \in ToReplay} \subseteq Batches /\ Unread \subseteq Batches
    BY DEF IInv, TypeOK, ToReplay, Unread, UnreadInv, Kept
<1>4. Lost \subseteq Batches
    BY DEF IInv, TypeOK, Lost
<1> QED
    BY <1>1, <1>2, <1>3, <1>4 DEF Custody

(* No step of the agent takes a row out of custody unnoted. *)
LEMMA CustodyStep ==
    ASSUME IInv, [Next]_vars
    PROVE  Unbroken
<1>1. CASE Scheduler
    BY <1>1, CustodyOfBuffer, CustodyOfFiles DEF Scheduler
<1>2. CASE UNCHANGED vars
  <2>1. /\ Present' = Present
        /\ UNCHANGED <<crashes, pc, wal, unread, meta, cursor, uncovered, clobbered>>
    BY <1>2 DEF vars, Present, Buffered, Staged, Delivered
  <2> QED
    BY <2>1, CustodyFrame DEF Running
<1> QED
    BY <1>1, <1>2, CustodyOfBuffer, CustodyOfFiles, CustodyOfCrash, CustodyOfReplay DEF Next

(* Applying a file is the only step that acknowledges, and it gives nothing up. *)
LEMMA AckStep ==
    ASSUME IInv, [Next]_vars
    PROVE  \/ acked' = acked
           \/ acked \subseteq acked' /\ Lost' = Lost /\ Custody \subseteq Custody'
<1>1. ASSUME NEW t \in Tasks, Apply(t)
      PROVE  acked \subseteq acked' /\ Lost' = Lost /\ Custody \subseteq Custody'
  <2>1. /\ gap[t].ops \subseteq Batches /\ gap[t].seq \in Nat
        /\ chunks' = ApplyOps(chunks, gap[t].ops, gap[t].seq)
    BY <1>1 DEF IInv, TypeOK, Apply
  <2>2. Buffered \subseteq Buffered'
    BY <2>1, AppliedJoin
  <2>3. /\ UNCHANGED <<staged, store, crashes, uncovered, clobbered, wal, unread>>
        /\ Running /\ Running' /\ acked \subseteq acked'
    BY <1>1 DEF Apply, walVars, schedVars, Running, IInv, GapInv
  <2> QED
    BY <2>2, <2>3 DEF Custody, Lost, Staged, Delivered, Unread
<1>2. CASE Scheduler
    BY <1>2 DEF Scheduler, SnapshotCollect, Capture, CaptureFails, UploadOK, UploadFails,
                StageOK, StageFails, Drain, MetaCreate, MetaWrite, MetaFails, Cleanup,
                RetryOK, RetryFails, history
<1>3. CASE UNCHANGED vars
    BY <1>3 DEF vars
<1> QED
    BY <1>1, <1>2, <1>3 DEF Next, Write, WriteRejected, Tick, LateWrite, Disconnect, Arrive, Stop,
       Crash, ReplayFile, ReplaySkips, ReplayDone, history

(* Every step is one of a keeper of rows, or none. *)
LEMMA CustodyRefinement ==
    ASSUME IInv, [Next]_vars
    PROVE  [RC!Next]_(RC!vars)
<1>1. IInv'
    BY Inductive
<1>2. /\ Custody' \subseteq Batches /\ Lost' \subseteq Batches
      /\ acked' \subseteq Batches
  <2>1. (IInv => Custody \subseteq Batches /\ Lost \subseteq Batches)'
    BY CustodyType, PTL
  <2> QED
    BY <1>1, <2>1 DEF IInv, TypeOK
<1>3. Lost \subseteq Lost' /\ Custody \subseteq Custody' \cup Lost'
    BY CustodyStep DEF Unbroken
<1>4. acked' \subseteq Custody' \cup Lost'
    BY <1>1 DEF IInv, AckedInv, Custody, Running
<1>5. CASE acked' = acked
  <2>1. RC!Lose(Lost', Custody')
    BY <1>3, <1>5 DEF RC!Lose
  <2> QED
    BY <1>2, <2>1 DEF RC!Next
<1>6. CASE acked \subseteq acked' /\ Lost' = Lost /\ Custody \subseteq Custody'
  <2>1. RC!Keep(Custody', acked')
    BY <1>4, <1>6 DEF RC!Keep
  <2> QED
    BY <1>2, <2>1 DEF RC!Next
<1> QED
    BY <1>5, <1>6, AckStep

(* To its clients the agent is a keeper of rows: it acknowledges what it holds or has
   noted as lost, and no cycle, handoff, retry, late upload, crash or recovery takes a
   row out of its custody, acknowledged or not, that is not noted.  A file that recovery
   could not read is in its custody until a watermark passes it, and that is noted. *)
THEOREM AgentKeepsRows == Spec => RowsKept
<1>1. Init => RC!Init
    BY DEF Init, RC!Init, Custody, Lost, Buffered, Staged, Delivered, Unread, Contents, EmptyFcn,
           NewChunk, RowsOf, Running
<1>2. IInv /\ [Next]_vars => [RC!Next]_(RC!vars)
    BY CustodyRefinement
<1> QED
    BY <1>1, <1>2, Invariance, PTL DEF Spec, RowsKept, RC!Spec

-----------------------------------------------------------------------------
(* One life of the agent, with a backend whose names have the sequence number in
   them: what it takes for a name to hold different rows, or a row to be stored twice. *)

(* A staged file is retried under the name it was uploaded under. *)
LEMMA PlainName ==
    ASSUME Backend # "s3"
    PROVE  \A n \in Names : RetryName(n) = n
    BY DEF RetryName, UploadName, Names

(* What there is to upload, and what there is at all. *)
LEMMA UploadForms ==
    ASSUME IInv, Backend # "s3"
    PROVE  /\ \A u \in net : u \in Uploads
           /\ \A n \in DOMAIN staged : [name |-> n, rows |-> staged[n]] \in Uploads
           /\ Capturing => [name |-> job.name, rows |-> job.rows] \in Uploads
           /\ \A n \in DOMAIN store : [name |-> n, rows |-> store[n]] \in Copies
           /\ Uploads \subseteq Copies
<1>1. DOMAIN staged \subseteq Names
    BY DEF IInv, TypeOK
<1> QED BY <1>1, PlainName DEF Uploads, Copies

(* Both are sets of named files. *)
LEMMA CopyTypes ==
    ASSUME IInv
    PROVE  /\ \A x \in Uploads : x \in [name : Names, rows : SUBSET Batches]
           /\ \A x \in Copies : x \in [name : Names, rows : SUBSET Batches]
<1>1. \A n \in DOMAIN staged : RetryName(n) \in Names /\ staged[n] \in SUBSET Batches
    BY RetryNameType DEF IInv, TypeOK
<1>2. \A n \in DOMAIN store : n \in Names /\ store[n] \in SUBSET Batches
    BY DEF IInv, TypeOK
<1>3. Capturing => job.name \in Names /\ job.rows \in SUBSET Batches
    BY JobType DEF Capturing
<1>4. net \subseteq [name : Names, rows : SUBSET Batches]
    BY DEF IInv, TypeOK
<1>5. \A x \in Uploads : x \in [name : Names, rows : SUBSET Batches]
    BY <1>1, <1>3, <1>4 DEF Uploads
<1> QED BY <1>2, <1>5 DEF Copies

(* A step that brings nothing new: each copy comes from one there was, under the same
   name, and so does each group not captured yet. *)
LEMMA PassShrink ==
    ASSUME IInv, IInv', OnePass, Running',
           UNCHANGED <<pending, gap, sent, curSeq, overtaken>>,
           \A k \in Keys :
               /\ RowsOf(chunks'[k]) \subseteq RowsOf(chunks[k])
               /\ chunks'[k].hi <= chunks[k].hi
               /\ \A i \in Later(k)' : /\ chunks'[k].hi = chunks[k].hi
                                      /\ \E j \in Later(k) : chunks'[k].rows[i] = chunks[k].rows[j],
           \A t \in Tables : \A w \in todo'[t] : chunks'[<<t, w>>].rows # << >>,
           Capturing' => todo'[job'.table] = {} /\ job'.stageName = job'.name
                            /\ job'.name[1] = job'.table,
           Uploads' \subseteq Uploads,
           \A x \in Copies' : \E y \in Copies : y.name = x.name /\ x.rows \subseteq y.rows,
           \A x \in Uploads' : InOrder(x.name[1]) /\ x.name \in DOMAIN store' =>
               store'[x.name] = x.rows \/ (Backend = "local" /\ store'[x.name] = {}),
           \A b \in clobbered' : ~InOrder(TableOf[b])
    PROVE  OnePass'
<1>1. SortedInv'
  <2>1. \A k \in Keys : RowsOf(chunks'[k]) \subseteq BatchesOf(k, Batches)
    BY DEF OnePass, SortedInv
  <2>2. \A x \in Copies' : \A b \in x.rows : TableOf[b] = x.name[1]
    BY DEF OnePass, SortedInv
  <2> QED BY <2>1, <2>2 DEF SortedInv
<1>2. OnceInv'
  <2>1. Buffered' \subseteq Buffered
    BY DEF Buffered
  <2>2. ASSUME NEW x \in Copies'
        PROVE  /\ x.rows \subseteq sent /\ x.rows \cap pending = {}
               /\ \A t \in Tasks : gap[t].ops \cap x.rows = {}
               /\ \A k \in Keys : \A i \in Later(k)' : chunks'[k].rows[i] \cap x.rows = {}
               /\ \A y \in Copies' : x.rows \cap y.rows # {} => x.name = y.name
    <3>1. PICK c \in Copies : c.name = x.name /\ x.rows \subseteq c.rows
      OBVIOUS
    <3>2. /\ c.rows \subseteq sent /\ c.rows \cap pending = {}
          /\ \A t \in Tasks : gap[t].ops \cap c.rows = {}
          /\ \A k \in Keys : \A i \in Later(k) : chunks[k].rows[i] \cap c.rows = {}
          /\ \A y \in Copies : c.rows \cap y.rows # {} => c.name = y.name
      BY DEF OnePass, OnceInv
    <3>3. \A k \in Keys : \A i \in Later(k)' : chunks'[k].rows[i] \cap x.rows = {}
      BY <3>1, <3>2
    <3>4. ASSUME NEW y \in Copies', x.rows \cap y.rows # {} PROVE x.name = y.name
      <4>1. PICK d \in Copies : d.name = y.name /\ y.rows \subseteq d.rows
        OBVIOUS
      <4> QED BY <3>1, <3>2, <3>4, <4>1
    <3> QED BY <3>1, <3>2, <3>3, <3>4
  <2>3. /\ pending \subseteq sent /\ Buffered \subseteq sent
        /\ \A t \in Tasks : gap[t].ops \subseteq sent /\ gap[t].ops \cap pending = {}
        /\ \A t, u \in Tasks : t # u => gap[t].ops \cap gap[u].ops = {}
        /\ Buffered \cap pending = {} /\ \A t \in Tasks : gap[t].ops \cap Buffered = {}
    BY DEF OnePass, OnceInv
  <2> HIDE DEF Buffered
  <2>4. Buffered' \subseteq sent /\ Buffered' \cap pending = {}
        /\ \A t \in Tasks : gap[t].ops \cap Buffered' = {}
    BY <2>1, <2>3
  <2> QED BY <2>2, <2>3, <2>4 DEF OnceInv
<1>3. OrderInv'
  <2>1. \A t : InOrder(t)' <=> InOrder(t)
    BY DEF InOrder
  <2>2. ASSUME NEW x \in Copies'
        PROVE  \E y \in Copies : y.name = x.name
    OBVIOUS
  <2>3. \A t, u \in Tasks : t # u /\ InGap(t)' /\ InGap(u)' => gap'[t].seq # gap'[u].seq
    BY DEF OnePass, OrderInv, InGap
  <2>4. \A x \in Copies' : x.name[3] < curSeq
    BY <2>2 DEF OnePass, OrderInv
  <2>5. ASSUME NEW t \in Tasks, NEW b \in gap[t].ops, InOrder(TableOf[b])
        PROVE  /\ \A k \in Keys : k[1] = TableOf[b] => chunks'[k].hi < gap[t].seq
               /\ \A x \in Copies' : x.name[1] = TableOf[b] => x.name[3] < gap[t].seq
    <3>1. /\ \A k \in Keys : k[1] = TableOf[b] => chunks[k].hi < gap[t].seq
          /\ \A x \in Copies : x.name[1] = TableOf[b] => x.name[3] < gap[t].seq
      BY <2>5 DEF OnePass, OrderInv
    <3>2. /\ gap[t].seq \in Nat
          /\ \A k \in Keys : chunks[k].hi \in Nat /\ chunks'[k].hi \in Nat
      BY DEF IInv, TypeOK, Chunk
    <3>3. \A k \in Keys : k[1] = TableOf[b] => chunks'[k].hi < gap[t].seq
      BY <3>1, <3>2
    <3> QED BY <2>2, <3>1, <3>3
  <2>6. ASSUME NEW k \in Keys, InOrder(k[1]), Later(k)' # {}, NEW x \in Copies',
               x.name[1] = k[1], x.name[2] = k[2]
        PROVE  x.name[3] < chunks'[k].hi
    <3>1. Later(k) # {} /\ chunks'[k].hi = chunks[k].hi
      BY <2>6
    <3> QED BY <2>2, <2>6, <3>1 DEF OnePass, OrderInv
  <2> QED BY <2>1, <2>3, <2>4, <2>5, <2>6 DEF OrderInv
<1>4. NameInv'
  <2>1. \A t : InOrder(t)' <=> InOrder(t)
    BY DEF InOrder
  <2>2. \A x \in Uploads' : x \in Uploads
    OBVIOUS
  <2> QED BY <2>1, <2>2 DEF OnePass, NameInv
<1>5. \A b \in clobbered' : ~InOrder(TableOf[b])'
    BY DEF InOrder
<1> QED BY <1>1, <1>2, <1>3, <1>4, <1>5 DEF OnePass

(* A step of the scheduler between two captures that moves no rows. *)
LEMMA PassQuiet ==
    ASSUME IInv, IInv', OnePass, Running', ~Capturing, ~Capturing',
           pc # "stopped", pc' # "stopped",
           UNCHANGED <<pending, curSeq, gap, chunks, staged, net, store, sent,
                       overtaken, clobbered>>,
           \A t \in Tables : \A w \in todo'[t] : chunks[<<t, w>>].rows # << >>
    PROVE  OnePass'
<1>1. Uploads' = Uploads
    BY DEF Uploads
<1>2. \A x \in Copies' : x \in Copies
    BY <1>1 DEF Copies
<1>3. \A k \in Keys : Later(k)' = Later(k)
    BY DEF Later, Taken
<1>4. \A k \in Keys : chunks[k].hi \in Nat
    BY DEF IInv, TypeOK, Chunk
<1>5. \A x \in Uploads' : InOrder(x.name[1]) /\ x.name \in DOMAIN store' =>
          store'[x.name] = x.rows \/ (Backend = "local" /\ store'[x.name] = {})
    BY <1>1 DEF OnePass, NameInv
<1>6. \A b \in clobbered' : ~InOrder(TableOf[b])
    BY DEF OnePass
<1>7. \A k \in Keys :
          /\ RowsOf(chunks'[k]) \subseteq RowsOf(chunks[k])
          /\ chunks'[k].hi <= chunks[k].hi
          /\ \A i \in Later(k)' : /\ chunks'[k].hi = chunks[k].hi
                                 /\ \E j \in Later(k) : chunks'[k].rows[i] = chunks[k].rows[j]
    BY <1>3, <1>4
<1>8. \A t \in Tables : \A w \in todo'[t] : chunks'[<<t, w>>].rows # << >>
    OBVIOUS
<1> QED BY <1>1, <1>2, <1>5, <1>6, <1>7, <1>8, PassShrink

(* A cycle begins with windows that have rows. *)
LEMMA PassCollect ==
    ASSUME IInv, IInv', OnePass, NEW marker, SnapshotCollect(marker)
    PROVE  OnePass'
<1>1. /\ pc = "idle" /\ pc' = "work"
      /\ todo' = [t \in Tables |-> {w \in Windows : <<t, w>> \in LiveKeys /\ w < marker}]
      /\ UNCHANGED <<pending, curSeq, gap, chunks, staged, net, store, sent,
                     overtaken, clobbered>>
    BY DEF SnapshotCollect, walVars, history
<1>2. Running' /\ ~Capturing /\ ~Capturing' /\ pc # "stopped" /\ pc' # "stopped"
    BY <1>1 DEF Running, Capturing
<1>3. \A t \in Tables : \A w \in todo'[t] : chunks[<<t, w>>].rows # << >>
    BY <1>1 DEF LiveKeys
<1> QED BY <1>1, <1>2, <1>3, PassQuiet

(* A cycle that is given up, the watermark and the cleanup touch no row. *)
LEMMA PassCycle ==
    ASSUME IInv, IInv', OnePass,
           \/ \E t \in Tables : CaptureFails(t)
           \/ MetaCreate \/ MetaWrite \/ MetaFails
           \/ \E files \in SUBSET DOMAIN wal : Cleanup(files)
    PROVE  OnePass'
<1>1. /\ Running' /\ ~Capturing /\ ~Capturing' /\ pc # "stopped" /\ pc' # "stopped"
      /\ todo' = todo \/ todo' = NoTodo
      /\ UNCHANGED <<pending, curSeq, gap, chunks, staged, net, store, sent,
                     overtaken, clobbered>>
  <2>1. CASE \E t \in Tables : CaptureFails(t)
    BY <2>1 DEF CaptureFails, walVars, history, Running, Capturing
  <2>2. CASE MetaCreate \/ MetaWrite \/ MetaFails
    BY <2>2 DEF MetaCreate, MetaWrite, MetaFails, walVars, history, Running, Capturing
  <2>3. ASSUME NEW files, Cleanup(files)
        PROVE  /\ Running' /\ ~Capturing /\ ~Capturing' /\ pc # "stopped" /\ pc' # "stopped"
               /\ todo' = todo
               /\ UNCHANGED <<pending, curSeq, gap, chunks, staged, net, store, sent,
                              overtaken, clobbered>>
    BY <2>3 DEF Cleanup, Running, Capturing
  <2> QED BY <2>1, <2>2, <2>3
<1>2. \A t \in Tables : \A w \in todo'[t] : chunks[<<t, w>>].rows # << >>
    BY <1>1 DEF OnePass, SortedInv, NoTodo
<1> QED BY <1>1, <1>2, PassQuiet

(* When the scheduler is told to stop, nothing more is captured: what is on its way to
   the store was to be uploaded before. *)
LEMMA PassStop ==
    ASSUME IInv, IInv', OnePass, Backend # "s3", Stop
    PROVE  OnePass'
<1>1. /\ pc' = "stopped" /\ todo' = NoTodo
      /\ \/ net' = net
         \/ \E upload \in InFlight : net' = net \cup {upload}
      /\ UNCHANGED <<pending, curSeq, gap, chunks, staged, store, sent, overtaken, clobbered>>
    BY DEF Stop, walVars
<1>2. Running' /\ ~Capturing' /\ \A k \in Keys : Later(k)' = {}
    BY <1>1 DEF Running, Capturing, Later
<1>3. InFlight \subseteq Uploads
    BY DEF InFlight, Uploads, Capturing
<1>4. Uploads' \subseteq Uploads
    BY <1>1, <1>2, <1>3 DEF Uploads
<1>5. \A x \in Copies' : x \in Copies
    BY <1>1, <1>4 DEF Copies
<1>6. \A k \in Keys : chunks[k].hi \in Nat
    BY DEF IInv, TypeOK, Chunk
<1>7. \A x \in Uploads' : InOrder(x.name[1]) /\ x.name \in DOMAIN store' =>
          store'[x.name] = x.rows \/ (Backend = "local" /\ store'[x.name] = {})
    BY <1>1, <1>4 DEF OnePass, NameInv
<1>8. \A b \in clobbered' : ~InOrder(TableOf[b])
    BY <1>1 DEF OnePass
<1>9. \A k \in Keys :
          /\ RowsOf(chunks'[k]) \subseteq RowsOf(chunks[k])
          /\ chunks'[k].hi <= chunks[k].hi
          /\ \A i \in Later(k)' : /\ chunks'[k].hi = chunks[k].hi
                                 /\ \E j \in Later(k) : chunks'[k].rows[i] = chunks[k].rows[j]
    BY <1>1, <1>2, <1>6
<1>10. \A t \in Tables : \A w \in todo'[t] : chunks'[<<t, w>>].rows # << >>
    BY <1>1 DEF NoTodo
<1> HIDE DEF Uploads, Copies, InOrder, Later, Capturing
<1> QED BY <1>1, <1>2, <1>4, <1>5, <1>7, <1>8, <1>9, <1>10, PassShrink

(* An upload ends in what the store keeps of it under its name. *)
Ends(x) ==
    \/ UNCHANGED <<store, clobbered>>
    \/ Store(x.name, x.rows)
    \/ /\ Backend = "local"
       /\ store' = Put(store, x.name, {})
       /\ clobbered' = clobbered \cup Clobbered(store, x.name, x.rows)

(* Whatever the upload, a name that is in order then holds what it is to hold, or
   nothing after a local write that failed. *)
LEMMA StoreNamed ==
    ASSUME IInv, OnePass, Backend # "s3", NEW x \in Uploads, Ends(x)
    PROVE  /\ \A n \in DOMAIN store' : \E c \in Copies : c.name = n /\ store'[n] \subseteq c.rows
           /\ \A y \in Uploads : InOrder(y.name[1]) /\ y.name \in DOMAIN store' =>
                  store'[y.name] = y.rows \/ (Backend = "local" /\ store'[y.name] = {})
           /\ \A b \in clobbered' : ~InOrder(TableOf[b])
<1>1. /\ \A n \in DOMAIN store : [name |-> n, rows |-> store[n]] \in Copies
      /\ Uploads \subseteq Copies /\ x \in Copies
    BY UploadForms
<1>2. \A c \in Copies : \A b \in c.rows : TableOf[b] = c.name[1]
    BY DEF OnePass, SortedInv
<1>3. \A y \in Uploads : InOrder(y.name[1]) =>
          /\ \A z \in Uploads : y.name = z.name => y.rows = z.rows
          /\ y.name \in DOMAIN store =>
                store[y.name] = y.rows \/ (Backend = "local" /\ store[y.name] = {})
    BY DEF OnePass, NameInv
<1>4. \A b \in clobbered : ~InOrder(TableOf[b])
    BY DEF OnePass
<1>5. Backend = "http" \/ Backend = "local"
    BY DataAssumption
<1> HIDE DEF Uploads, Copies, InOrder
<1>6. CASE UNCHANGED <<store, clobbered>>
  <2>1. \A n \in DOMAIN store : \E c \in Copies : c.name = n /\ store[n] \subseteq c.rows
    <3> SUFFICES ASSUME NEW n \in DOMAIN store
                 PROVE  \E c \in Copies : c.name = n /\ store[n] \subseteq c.rows
      OBVIOUS
    <3>1. [name |-> n, rows |-> store[n]] \in Copies
      BY <1>1
    <3> QED BY <3>1
  <2> QED BY <1>3, <1>4, <1>6, <2>1
<1>7. ASSUME NEW kept, kept \in {x.rows, {}}, kept = {} => Backend = "local" \/ x.rows = {},
             store' = Put(store, x.name, kept),
             clobbered' = clobbered \cup Clobbered(store, x.name, x.rows)
      PROVE  /\ \A n \in DOMAIN store' : \E c \in Copies : c.name = n /\ store'[n] \subseteq c.rows
             /\ \A y \in Uploads : InOrder(y.name[1]) /\ y.name \in DOMAIN store' =>
                    store'[y.name] = y.rows \/ (Backend = "local" /\ store'[y.name] = {})
             /\ \A b \in clobbered' : ~InOrder(TableOf[b])
  <2>1. /\ DOMAIN store' = DOMAIN store \cup {x.name}
        /\ \A n \in DOMAIN store : n # x.name => store'[n] = store[n]
        /\ store'[x.name] = kept
              \/ (Backend = "http" /\ x.name \in DOMAIN store /\ store'[x.name] = store[x.name])
    BY <1>7 DEF Put, Overwrite, Bind
  <2>2. ASSUME NEW n \in DOMAIN store'
        PROVE  \E c \in Copies : c.name = n /\ store'[n] \subseteq c.rows
    <3>1. CASE n = x.name /\ store'[n] = kept
      BY <1>1, <1>7, <3>1
    <3>2. CASE n \in DOMAIN store /\ store'[n] = store[n]
      <4>1. [name |-> n, rows |-> store[n]] \in Copies
        BY <1>1, <3>2
      <4> QED BY <3>2, <4>1
    <3> QED BY <2>1, <3>1, <3>2
  <2>3. ASSUME NEW y \in Uploads, InOrder(y.name[1]), y.name \in DOMAIN store'
        PROVE  store'[y.name] = y.rows \/ (Backend = "local" /\ store'[y.name] = {})
    <3>1. CASE y.name = x.name
      <4>1. y.rows = x.rows
        BY <1>3, <2>3, <3>1
      <4>2. x.name \in DOMAIN store /\ Backend = "http" => store[x.name] = x.rows
        BY <1>3, <2>3, <3>1
      <4> QED BY <1>5, <1>7, <2>1, <3>1, <4>1, <4>2
    <3>2. CASE y.name # x.name
      BY <1>3, <2>1, <2>3, <3>2
    <3> QED BY <3>1, <3>2
  <2>4. ASSUME NEW b \in Clobbered(store, x.name, x.rows), InOrder(TableOf[b]) PROVE FALSE
    <3>1. /\ x.name \in DOMAIN store
          /\ b \in x.rows \cup store[x.name]
          /\ Backend = "http" => b \in x.rows \ store[x.name]
          /\ Backend = "local" => b \in store[x.name] \ x.rows
      BY <1>5, <2>4 DEF Clobbered
    <3>2. \A c \in store[x.name] : TableOf[c] = x.name[1]
      <4>1. [name |-> x.name, rows |-> store[x.name]] \in Copies
        BY <1>1, <3>1
      <4> QED BY <1>2, <4>1
    <3>3. TableOf[b] = x.name[1]
      BY <1>1, <1>2, <3>1, <3>2
    <3>4. store[x.name] = x.rows \/ (Backend = "local" /\ store[x.name] = {})
      BY <1>3, <2>4, <3>1, <3>3
    <3> QED BY <1>5, <3>1, <3>4
  <2> QED BY <1>4, <1>7, <2>2, <2>3, <2>4
<1>8. CASE Store(x.name, x.rows)
  <2>1. store' = Put(store, x.name, x.rows)
        /\ clobbered' = clobbered \cup Clobbered(store, x.name, x.rows)
    BY <1>8 DEF Store
  <2> QED BY <1>7, <2>1
<1>9. CASE /\ Backend = "local" /\ store' = Put(store, x.name, {})
           /\ clobbered' = clobbered \cup Clobbered(store, x.name, x.rows)
  BY <1>7, <1>9
<1> QED BY <1>6, <1>8, <1>9 DEF Ends

(* A step that is an upload, a retry or a late arrival. *)
LEMMA PassUpload ==
    ASSUME IInv, IInv', OnePass, Backend # "s3", Running', NEW x \in Uploads, Ends(x),
           UNCHANGED <<pending, gap, sent, curSeq, overtaken, chunks, todo, job>>,
           Capturing' <=> Capturing, pc' = "stopped" <=> pc = "stopped", Uploads' \subseteq Uploads
    PROVE  OnePass'
<1>1. /\ \A n \in DOMAIN store' : \E c \in Copies : c.name = n /\ store'[n] \subseteq c.rows
      /\ \A y \in Uploads : InOrder(y.name[1]) /\ y.name \in DOMAIN store' =>
             store'[y.name] = y.rows \/ (Backend = "local" /\ store'[y.name] = {})
      /\ \A b \in clobbered' : ~InOrder(TableOf[b])
    BY StoreNamed
<1>2. Uploads \subseteq Copies
    BY UploadForms
<1>3. ASSUME NEW c \in Copies' PROVE \E y \in Copies : y.name = c.name /\ c.rows \subseteq y.rows
  <2>1. c \in Uploads' \/ \E n \in DOMAIN store' : c = [name |-> n, rows |-> store'[n]]
    BY DEF Copies
  <2>2. CASE c \in Uploads'
    BY <1>2, <2>2
  <2>3. ASSUME NEW n \in DOMAIN store', c = [name |-> n, rows |-> store'[n]]
        PROVE  \E y \in Copies : y.name = c.name /\ c.rows \subseteq y.rows
    BY <1>1, <2>3
  <2> QED BY <2>1, <2>2, <2>3
<1>4. \A k \in Keys : Later(k)' = Later(k)
    BY DEF Later, Taken
<1>5. \A k \in Keys : chunks[k].hi \in Nat
    BY DEF IInv, TypeOK, Chunk
<1>6. \A k \in Keys :
          /\ RowsOf(chunks'[k]) \subseteq RowsOf(chunks[k])
          /\ chunks'[k].hi <= chunks[k].hi
          /\ \A i \in Later(k)' : /\ chunks'[k].hi = chunks[k].hi
                                 /\ \E j \in Later(k) : chunks'[k].rows[i] = chunks[k].rows[j]
    BY <1>4, <1>5
<1>7. \A t \in Tables : \A w \in todo'[t] : chunks'[<<t, w>>].rows # << >>
    BY DEF OnePass, SortedInv
<1>8. Capturing' => todo'[job'.table] = {} /\ job'.stageName = job'.name
                       /\ job'.name[1] = job'.table
    BY DEF OnePass, SortedInv
<1>9. \A y \in Uploads' : InOrder(y.name[1]) /\ y.name \in DOMAIN store' =>
          store'[y.name] = y.rows \/ (Backend = "local" /\ store'[y.name] = {})
    BY <1>1
<1> QED BY <1>1, <1>3, <1>6, <1>7, <1>8, <1>9, PassShrink

(* Each of them is of something that was to be uploaded, and leaves nothing new to be. *)
LEMMA PassUploads ==
    ASSUME IInv, IInv', OnePass, Backend # "s3",
           \/ UploadOK \/ UploadFails
           \/ \E n \in DOMAIN staged : RetryOK(n) \/ RetryFails(n)
           \/ \E upload \in net : Arrive(upload)
    PROVE  OnePass'
<1>1. /\ \A u \in net : u \in Uploads
      /\ \A n \in DOMAIN staged : [name |-> n, rows |-> staged[n]] \in Uploads
      /\ Capturing => [name |-> job.name, rows |-> job.rows] \in Uploads
    BY UploadForms
<1>2. \A n \in DOMAIN staged : RetryName(n) = n
    BY PlainName DEF IInv, TypeOK
<1>3. \A x : Store(x.name, x.rows) => Ends(x)
    BY DEF Ends
<1>4. ASSUME NEW x \in Uploads, x = [name |-> x.name, rows |-> x.rows],
             UploadError(x.name, x.rows)
      PROVE  Ends(x) /\ net' \subseteq net \cup {x}
    BY <1>4 DEF UploadError, Ends
<1>5. CASE UploadOK \/ UploadFails
  <2> DEFINE x == [name |-> job.name, rows |-> job.rows]
  <2>1. /\ Capturing /\ Capturing' /\ Running' /\ pc # "stopped" /\ pc' # "stopped"
        /\ UNCHANGED <<pending, gap, sent, curSeq, overtaken, chunks, todo, job, staged>>
        /\ \/ Store(job.name, job.rows) /\ net' = net
           \/ UploadError(job.name, job.rows)
    BY <1>5 DEF UploadOK, UploadFails, walVars, Capturing, Running
  <2>2. x \in Uploads /\ x.name = job.name /\ x.rows = job.rows
        /\ x = [name |-> x.name, rows |-> x.rows]
    BY <1>1, <2>1
  <2> HIDE DEF x
  <2>3. Ends(x) /\ net' \subseteq net \cup {x}
    BY <1>3, <1>4, <2>1, <2>2
  <2>4. Uploads' \subseteq Uploads
    BY <2>1, <2>2, <2>3 DEF Uploads
  <2> QED BY <2>1, <2>2, <2>3, <2>4, PassUpload
<1>6. ASSUME NEW n \in DOMAIN staged, RetryOK(n) \/ RetryFails(n)
      PROVE  OnePass'
  <2> DEFINE x == [name |-> n, rows |-> staged[n]]
  <2>1. /\ ~Capturing /\ ~Capturing' /\ Running' /\ pc # "stopped" /\ pc' # "stopped"
        /\ UNCHANGED <<pending, gap, sent, curSeq, overtaken, chunks, todo, job>>
        /\ staged' = staged \/ staged' = Without(staged, {n})
        /\ \/ Store(n, staged[n]) /\ net' = net
           \/ UploadError(n, staged[n])
    BY <1>2, <1>6 DEF RetryOK, RetryFails, walVars, schedVars, Capturing, Running
  <2>2. x \in Uploads /\ x.name = n /\ x.rows = staged[n]
        /\ x = [name |-> x.name, rows |-> x.rows]
    BY <1>1
  <2> HIDE DEF x
  <2>3. Ends(x) /\ net' \subseteq net \cup {x}
    BY <1>3, <1>4, <2>1, <2>2
  <2>4. \A m \in DOMAIN staged' : m \in DOMAIN staged /\ staged'[m] = staged[m]
    BY <2>1 DEF Without
  <2>5. Uploads' \subseteq Uploads
    BY <2>1, <2>2, <2>3, <2>4 DEF Uploads
  <2> QED BY <2>1, <2>2, <2>3, <2>5, PassUpload
<1>7. ASSUME NEW x \in net, Arrive(x)
      PROVE  OnePass'
  <2>1. /\ Capturing' <=> Capturing
        /\ Running' /\ pc' = pc
        /\ UNCHANGED <<pending, gap, sent, curSeq, overtaken, chunks, todo, job, staged>>
        /\ net' \subseteq net /\ Ends(x) /\ x \in Uploads
    BY <1>1, <1>3, <1>7 DEF Arrive, walVars, schedVars, Capturing, Running, OnePass
  <2>2. Uploads' \subseteq Uploads
    BY <2>1 DEF Uploads, Capturing
  <2> QED BY <2>1, <2>2, PassUpload
<1> QED BY <1>5, <1>6, <1>7

(* Staging replaces only the file that holds the same rows already. *)
LEMMA PassStage ==
    ASSUME IInv, IInv', OnePass, Backend # "s3", StageOK
    PROVE  OnePass'
<1> DEFINE n == job.name
           x == [name |-> n, rows |-> job.rows]
<1>1. /\ Capturing /\ Capturing' /\ Running' /\ pc # "stopped" /\ pc' # "stopped"
      /\ staged' = Bind(staged, job.stageName, job.rows)
      /\ clobbered' = clobbered \cup
            (IF job.stageName \in DOMAIN staged THEN staged[job.stageName] \ job.rows ELSE {})
      /\ UNCHANGED <<pending, gap, sent, curSeq, overtaken, chunks, todo, job, net, store>>
    BY DEF StageOK, walVars, Capturing, Running
<1>2. /\ x \in Uploads /\ Uploads \subseteq Copies
      /\ \A m \in DOMAIN staged : [name |-> m, rows |-> staged[m]] \in Uploads
      /\ \A m \in DOMAIN store : [name |-> m, rows |-> store[m]] \in Copies
    BY <1>1, UploadForms
<1>3. /\ job.stageName = n /\ n[1] = job.table /\ todo[job.table] = {}
      /\ \A t \in Tables : \A w \in todo[t] : chunks[<<t, w>>].rows # << >>
      /\ \A c \in Copies : \A b \in c.rows : TableOf[b] = c.name[1]
    BY <1>1 DEF OnePass, SortedInv
<1>4. \A m \in DOMAIN staged' : RetryName(m) = m
    BY PlainName DEF IInv, TypeOK
<1>5. \A m \in DOMAIN staged' : [name |-> m, rows |-> staged'[m]] \in Uploads
  <2> SUFFICES ASSUME NEW m \in DOMAIN staged'
               PROVE  [name |-> m, rows |-> staged'[m]] \in Uploads
    OBVIOUS
  <2>1. CASE m = n
    <3>1. staged'[m] = job.rows
      BY <1>1, <1>3, <2>1 DEF Bind
    <3> QED BY <1>2, <2>1, <3>1
  <2>2. CASE m # n
    <3>1. m \in DOMAIN staged /\ staged'[m] = staged[m]
      BY <1>1, <1>3, <2>2 DEF Bind
    <3> QED BY <1>2, <3>1
  <2> QED BY <2>1, <2>2
<1>6. Uploads' \subseteq Uploads
  <2>1. \A y \in Uploads' : \/ y \in net
                            \/ \E m \in DOMAIN staged' : y = [name |-> m, rows |-> staged'[m]]
                            \/ y = x
    BY <1>1, <1>4 DEF Uploads
  <2>2. \A y \in net : y \in Uploads
    BY DEF Uploads
  <2> QED BY <1>2, <1>5, <2>1, <2>2
<1>7. \A b \in clobbered' : ~InOrder(TableOf[b])
  <2> SUFFICES ASSUME NEW b \in clobbered', InOrder(TableOf[b]) PROVE FALSE
    OBVIOUS
  <2>1. b \notin clobbered
    BY DEF OnePass
  <2>2. n \in DOMAIN staged /\ b \in staged[n] /\ b \notin job.rows
    BY <1>1, <1>3, <2>1
  <2>3. PICK y \in Uploads : y.name = n /\ y.rows = staged[n]
    BY <1>2, <2>2
  <2>4. TableOf[b] = n[1]
    BY <1>2, <1>3, <2>2, <2>3
  <2>5. \A z \in Uploads : y.name = z.name => y.rows = z.rows
    BY <2>3, <2>4 DEF OnePass, NameInv
  <2>6. y.rows = job.rows
    BY <1>2, <2>3, <2>5
  <2> QED BY <2>2, <2>3, <2>6
<1>8. \A k \in Keys : Later(k)' = Later(k) /\ chunks[k].hi \in Nat
    BY <1>1 DEF Later, Taken, IInv, TypeOK, Chunk
<1>9. \A c \in Copies' : c \in Copies
    BY <1>1, <1>2, <1>6 DEF Copies
<1>10. \A y \in Uploads' : InOrder(y.name[1]) /\ y.name \in DOMAIN store' =>
          store'[y.name] = y.rows \/ (Backend = "local" /\ store'[y.name] = {})
    BY <1>1, <1>6 DEF OnePass, NameInv
<1>11. \A k \in Keys :
          /\ RowsOf(chunks'[k]) \subseteq RowsOf(chunks[k])
          /\ chunks'[k].hi <= chunks[k].hi
          /\ \A i \in Later(k)' : /\ chunks'[k].hi = chunks[k].hi
                                 /\ \E j \in Later(k) : chunks'[k].rows[i] = chunks[k].rows[j]
    BY <1>1, <1>8
<1>12. \A t \in Tables : \A w \in todo'[t] : chunks'[<<t, w>>].rows # << >>
    BY <1>1, <1>3
<1>13. todo'[job'.table] = {} /\ job'.stageName = job'.name /\ job'.name[1] = job'.table
    BY <1>1, <1>3
<1> QED BY <1>1, <1>6, <1>7, <1>9, <1>10, <1>11, <1>12, <1>13, PassShrink

(* The groups that a drain leaves are those that came after the capture. *)
LEMMA DrainedGroups ==
    ASSUME IInv, pc = "drain", NEW k \in Keys,
           NEW d, d = DrainedChunks[k]
    PROVE  \A i \in 1 .. Len(d.rows) :
               d.hi = chunks[k].hi /\ \E j \in Later(k) : d.rows[i] = chunks[k].rows[j]
<1>1. chunks[k] \in Chunk
    BY DEF IInv, TypeOK
<1> DEFINE c == chunks[k]
<1>2. c.rows \in Seq(SUBSET Batches) /\ Len(c.rows) \in Nat
    BY <1>1 DEF Chunk
<1>3. CASE k[1] # job.table
  <2>1. d = c /\ Later(k) = (0 + 1) .. Len(c.rows)
    BY <1>3 DEF DrainedChunks, Later, Taken
  <2> QED BY <1>2, <2>1
<1>4. CASE k[1] = job.table
  <2> DEFINE captured == job.taken[k[2]]
  <2>1. captured \in Nat
    BY JobType DEF Keys
  <2>2. d = DrainChunk(c, captured) /\ Later(k) = (captured + 1) .. Len(c.rows)
    BY <1>4 DEF DrainedChunks, Later, Taken, Capturing
  <2> HIDE DEF captured, c
  <2>3. CASE captured >= Len(c.rows)
    BY <2>2, <2>3 DEF DrainChunk, NewChunk
  <2>4. CASE ~(captured >= Len(c.rows))
    <3> DEFINE rest == SubSeq(c.rows, captured + 1, Len(c.rows))
    <3>1. d = [c EXCEPT !.rows = rest]
      BY <2>2, <2>4 DEF DrainChunk
    <3>2. c \in Chunk
      BY <1>1 DEF c
    <3>3. d.rows = rest /\ d.hi = c.hi
      BY <3>1, <3>2 DEF Chunk
    <3>4. /\ Len(rest) = Len(c.rows) - captured
          /\ \A i \in 1 .. Len(rest) : rest[i] = c.rows[captured + i]
      BY <1>2, <2>1, <2>4
    <3> HIDE DEF rest
    <3>5. ASSUME NEW i \in 1 .. Len(rest)
          PROVE  \E j \in Later(k) : rest[i] = c.rows[j]
      <4>1. captured + i \in Later(k)
        BY <1>2, <2>1, <2>2, <2>4, <3>4
      <4> QED BY <3>4, <4>1
    <3> QED BY <3>3, <3>5 DEF c
  <2> QED BY <2>3, <2>4
<1> QED BY <1>3, <1>4

(* The handoff leaves what came after the capture, and nothing captured. *)
LEMMA PassDrain ==
    ASSUME IInv, IInv', OnePass, Drain
    PROVE  OnePass'
<1>1. /\ pc = "drain" /\ Capturing /\ ~Capturing' /\ Running' /\ pc' # "stopped"
      /\ chunks' = DrainedChunks
      /\ UNCHANGED <<pending, gap, sent, curSeq, overtaken, todo, staged, net, store, clobbered>>
    BY DEF Drain, walVars, Capturing, Running
<1>2. Uploads' \subseteq Uploads
    BY <1>1 DEF Uploads
<1>3. \A c \in Copies' : c \in Copies
    BY <1>1, <1>2 DEF Copies
<1>4. \A y \in Uploads' : InOrder(y.name[1]) /\ y.name \in DOMAIN store' =>
          store'[y.name] = y.rows \/ (Backend = "local" /\ store'[y.name] = {})
    BY <1>1, <1>2 DEF OnePass, NameInv
<1>5. ASSUME NEW k \in Keys
      PROVE  /\ RowsOf(chunks'[k]) \subseteq RowsOf(chunks[k])
             /\ chunks'[k].hi <= chunks[k].hi
    BY <1>1, DrainedRows, Zenon
<1>6. ASSUME NEW k \in Keys, NEW i \in Later(k)'
      PROVE  /\ chunks'[k].hi = chunks[k].hi
             /\ \E j \in Later(k) : chunks'[k].rows[i] = chunks[k].rows[j]
  <2>1. i \in 1 .. Len(chunks'[k].rows)
    BY <1>1 DEF Later, Taken
  <2> QED BY <1>1, <2>1, DrainedGroups
<1>7. ASSUME NEW t \in Tables, NEW w \in todo'[t] PROVE chunks'[<<t, w>>].rows # << >>
  <2>1. todo[job.table] = {} /\ chunks[<<t, w>>].rows # << >> /\ w \in Windows
    BY <1>1 DEF OnePass, SortedInv, IInv, TypeOK
  <2>2. t # job.table
    BY <1>1, <2>1
  <2>3. chunks'[<<t, w>>] = chunks[<<t, w>>]
    BY <1>1, <2>1, <2>2 DEF DrainedChunks, Keys
  <2> QED BY <2>1, <2>3
<1>8. \A b \in clobbered' : ~InOrder(TableOf[b])
    BY <1>1 DEF OnePass
<1> QED BY <1>1, <1>2, <1>3, <1>4, <1>5, <1>6, <1>7, <1>8, PassShrink

(* A step of the WAL: what is flushed has a higher number than all there is, and rows
   that are sent are new. *)
LEMMA PassWal ==
    ASSUME IInv, IInv', OnePass, NEW h \in Tasks,
           UNCHANGED <<chunks, pc, todo, job, staged, net, store, clobbered, overtaken>>,
           curSeq <= curSeq', sent \subseteq sent',
           pending' \subseteq pending \cup (sent' \ sent),
           \A t \in Tasks : t # h => gap'[t] = gap[t],
           \/ gap'[h] = gap[h]
           \/ gap'[h].ops = {}
           \/ /\ gap'[h].seq = curSeq /\ curSeq < curSeq' /\ pending' = {}
              /\ gap'[h].ops \subseteq pending \cup (sent' \ sent)
    PROVE  OnePass'
<1> DEFINE new == sent' \ sent
<1>1. /\ Uploads' = Uploads /\ Capturing' = Capturing
      /\ \A k \in Keys : Later(k)' = Later(k)
    BY DEF Uploads, Capturing, Later, Taken
<1>2. Copies' = Copies
    BY <1>1 DEF Copies
<1>3. Buffered' = Buffered
    BY DEF Buffered
<1>4. \A t : InOrder(t)' = InOrder(t)
    BY DEF InOrder
<1>5. /\ pending \subseteq sent /\ Buffered \subseteq sent
      /\ \A t \in Tasks : gap[t].ops \subseteq sent /\ gap[t].ops \cap pending = {}
      /\ \A t, u \in Tasks : t # u => gap[t].ops \cap gap[u].ops = {}
      /\ Buffered \cap pending = {} /\ \A t \in Tasks : gap[t].ops \cap Buffered = {}
      /\ \A x \in Copies :
            /\ x.rows \subseteq sent /\ x.rows \cap pending = {}
            /\ \A t \in Tasks : gap[t].ops \cap x.rows = {}
            /\ \A k \in Keys : \A i \in Later(k) : chunks[k].rows[i] \cap x.rows = {}
            /\ \A y \in Copies : x.rows \cap y.rows # {} => x.name = y.name
    BY DEF OnePass, OnceInv
<1>6. /\ \A t, u \in Tasks : t # u /\ InGap(t) /\ InGap(u) => gap[t].seq # gap[u].seq
      /\ \A x \in Copies : x.name[3] < curSeq
      /\ \A t \in Tasks : \A b \in gap[t].ops : InOrder(TableOf[b]) =>
            /\ \A k \in Keys : k[1] = TableOf[b] => chunks[k].hi < gap[t].seq
            /\ \A x \in Copies : x.name[1] = TableOf[b] => x.name[3] < gap[t].seq
      /\ \A k \in Keys : InOrder(k[1]) /\ Later(k) # {} =>
            \A x \in Copies :
                x.name[1] = k[1] /\ x.name[2] = k[2] => x.name[3] < chunks[k].hi
    BY DEF OnePass, OrderInv
<1>7. /\ curSeq \in Nat /\ curSeq' \in Nat
      /\ \A t \in Tasks : gap[t].seq \in Nat /\ gap'[t].seq \in Nat
      /\ \A k \in Keys : chunks[k].hi \in Nat
    BY DEF IInv, TypeOK, Chunk
<1>8. /\ \A t \in Tasks : gap[t].seq < curSeq
      /\ \A k \in Keys : chunks[k].hi < curSeq
    BY DEF IInv, BoundsInv
<1>9. \A x \in Copies : x.name[3] \in Nat
    BY CopyTypes DEF Names
<1>10. /\ \A t \in Tasks : gap'[t].ops \subseteq gap[t].ops \cup pending \cup new
       /\ \A t \in Tasks : t # h => gap'[t].ops = gap[t].ops
       /\ gap'[h].ops \subseteq gap[h].ops \/ (pending' = {} /\ gap'[h].ops \subseteq pending \cup new)
    OBVIOUS
<1> HIDE DEF Uploads, Copies, Buffered, Capturing, InOrder, Later
<1>11. SortedInv'
    BY <1>1, <1>2 DEF OnePass, SortedInv
<1>12. OnceInv'
  <2>1. pending' \subseteq sent' /\ Buffered' \subseteq sent' /\ Buffered' \cap pending' = {}
    BY <1>3, <1>5
  <2>2. ASSUME NEW t \in Tasks
        PROVE  /\ gap'[t].ops \subseteq sent' /\ gap'[t].ops \cap pending' = {}
               /\ gap'[t].ops \cap Buffered' = {}
    <3>1. CASE t # h
      BY <1>3, <1>5, <1>10, <3>1
    <3>2. CASE t = h
      BY <1>3, <1>5, <1>10, <3>2
    <3> QED BY <3>1, <3>2
  <2>3. ASSUME NEW t \in Tasks, NEW u \in Tasks, t # u
        PROVE  gap'[t].ops \cap gap'[u].ops = {}
    <3>1. ASSUME NEW v \in Tasks, v # h PROVE gap'[v].ops \cap gap'[h].ops = {}
      <4>1. gap'[v].ops = gap[v].ops
        BY <1>10, <3>1
      <4>2. /\ gap[v].ops \cap gap[h].ops = {} /\ gap[v].ops \cap pending = {}
            /\ gap[v].ops \cap new = {}
        BY <1>5, <3>1
      <4>3. gap'[h].ops \subseteq gap[h].ops \cup pending \cup new
        BY <1>10
      <4> HIDE DEF new
      <4> QED BY <4>1, <4>2, <4>3
    <3>2. CASE t # h /\ u # h
      BY <1>5, <1>10, <2>3, <3>2
    <3> QED BY <2>3, <3>1, <3>2
  <2>4. ASSUME NEW x \in Copies
        PROVE  /\ x.rows \subseteq sent' /\ x.rows \cap pending' = {}
               /\ \A t \in Tasks : gap'[t].ops \cap x.rows = {}
               /\ \A k \in Keys : \A i \in Later(k)' : chunks'[k].rows[i] \cap x.rows = {}
               /\ \A y \in Copies : x.rows \cap y.rows # {} => x.name = y.name
    <3>1. x.rows \subseteq sent' /\ x.rows \cap pending' = {} /\ x.rows \cap new = {}
          /\ x.rows \cap pending = {}
      BY <1>5
    <3>2. ASSUME NEW t \in Tasks PROVE gap'[t].ops \cap x.rows = {}
      BY <1>5, <1>10, <3>1
    <3>3. \A k \in Keys : \A i \in Later(k)' : chunks'[k].rows[i] \cap x.rows = {}
      BY <1>1, <1>5
    <3>4. \A y \in Copies : x.rows \cap y.rows # {} => x.name = y.name
      BY <1>5
    <3> QED BY <3>1, <3>2, <3>3, <3>4
  <2> QED BY <1>2, <2>1, <2>2, <2>3, <2>4 DEF OnceInv
<1>13. OrderInv'
  <2>1. ASSUME NEW t \in Tasks, NEW u \in Tasks, t # u, InGap(t)', InGap(u)'
        PROVE  gap'[t].seq # gap'[u].seq
    <3>1. ASSUME NEW v \in Tasks, v # h, InGap(v)', InGap(h)'
          PROVE  gap'[v].seq # gap'[h].seq
      <4>1. gap'[v] = gap[v] /\ InGap(v) /\ gap[v].seq < curSeq /\ gap'[h].ops # {}
        BY <1>8, <3>1 DEF InGap
      <4>2. CASE gap'[h] = gap[h]
        BY <1>6, <3>1, <4>1, <4>2 DEF InGap
      <4> QED BY <1>7, <4>1, <4>2
    <3>2. CASE t # h /\ u # h
      BY <1>6, <2>1, <3>2 DEF InGap
    <3> QED BY <2>1, <3>1, <3>2
  <2>2. \A x \in Copies : x.name[3] < curSeq'
    BY <1>6, <1>7, <1>9
  <2>3. ASSUME NEW t \in Tasks, NEW b \in gap'[t].ops, InOrder(TableOf[b])
        PROVE  /\ \A k \in Keys : k[1] = TableOf[b] => chunks[k].hi < gap'[t].seq
               /\ \A x \in Copies : x.name[1] = TableOf[b] => x.name[3] < gap'[t].seq
    <3>1. CASE gap'[t] = gap[t]
      BY <1>6, <2>3, <3>1
    <3>2. CASE gap'[t].seq = curSeq
      BY <1>6, <1>8, <3>2
    <3> QED BY <2>3, <3>1, <3>2
  <2> QED BY <1>1, <1>2, <1>4, <1>6, <2>1, <2>2, <2>3 DEF OrderInv
<1>14. NameInv'
    BY <1>1, <1>4 DEF OnePass, NameInv
<1>15. Running' /\ \A b \in clobbered' : ~InOrder(TableOf[b])'
    BY <1>4 DEF OnePass, Running
<1> QED BY <1>11, <1>12, <1>13, <1>14, <1>15 DEF OnePass

(* What requests and the ticker do before rows are applied. *)
LEMMA PassWrites ==
    ASSUME IInv, IInv', OnePass,
           \/ \E h \in Handlers, req \in Requests : Write(h, req) \/ WriteRejected(h, req)
           \/ Tick
           \/ \E w \in late : LateWrite(w)
           \/ \E h \in Handlers : Disconnect(h)
    PROVE  OnePass'
<1>1. /\ curSeq \in Nat
      /\ gap \in [Tasks -> [ops : SUBSET Batches, seq : Nat, req : SUBSET Batches]]
    BY DEF IInv, TypeOK
<1>2. Ticker \in Tasks /\ Handlers \subseteq Tasks
    BY DEF Tasks
<1>3. ASSUME NEW h \in Tasks, NEW ops, NEW req, FlushFile(h, ops, req)
      PROVE  /\ curSeq < curSeq' /\ pending' = {}
             /\ \A t \in Tasks : t # h => gap'[t] = gap[t]
             /\ gap'[h].seq = curSeq /\ gap'[h].ops = ops
    BY <1>1, <1>3 DEF FlushFile
<1>4. ASSUME NEW h \in Handlers, NEW req \in Requests, Write(h, req)
      PROVE  OnePass'
  <2> DEFINE ops == pending \cup req
  <2>1. /\ req \cap sent = {} /\ sent' = sent \cup req
        /\ FlushFile(h, ops, req) \/ FlushFails \/ FlushAbandoned(ops)
        /\ UNCHANGED <<chunks, pc, todo, job, staged, net, store, clobbered, overtaken>>
    BY <1>4 DEF Write, schedVars
  <2>2. ops \subseteq pending \cup (sent' \ sent) /\ sent \subseteq sent'
    BY <2>1
  <2> HIDE DEF ops
  <2>3. CASE FlushFile(h, ops, req)
    <3>1. /\ curSeq < curSeq' /\ pending' = {}
          /\ \A t \in Tasks : t # h => gap'[t] = gap[t]
          /\ gap'[h].seq = curSeq /\ gap'[h].ops = ops
      BY <1>2, <1>3, <2>3
    <3>2. curSeq <= curSeq'
      BY <2>3, <1>1 DEF FlushFile
    <3> QED BY <1>2, <2>1, <2>2, <3>1, <3>2, PassWal
  <2>4. CASE FlushFails \/ FlushAbandoned(ops)
    <3>1. curSeq <= curSeq' /\ pending' = {} /\ gap' = gap
      BY <1>1, <2>4 DEF FlushFails, FlushAbandoned
    <3> QED BY <1>2, <2>1, <2>2, <3>1, PassWal
  <2> QED BY <2>1, <2>3, <2>4
<1>5. ASSUME NEW h \in Handlers, NEW req \in Requests, WriteRejected(h, req)
      PROVE  OnePass'
  <2>1. /\ req \cap sent = {} /\ sent' = sent \cup req
        /\ curSeq <= curSeq' /\ gap' = gap
        /\ pending' \subseteq pending \cup req
        /\ UNCHANGED <<chunks, pc, todo, job, staged, net, store, clobbered, overtaken>>
    BY <1>1, <1>5 DEF WriteRejected, schedVars
  <2>2. pending' \subseteq pending \cup (sent' \ sent) /\ sent \subseteq sent'
    BY <2>1
  <2> QED BY <1>2, <2>1, <2>2, PassWal
<1>6. CASE Tick
  <2> DEFINE none == {}
  <2>1. /\ sent' = sent
        /\ FlushFile(Ticker, pending, none) \/ FlushFails
        /\ UNCHANGED <<chunks, pc, todo, job, staged, net, store, clobbered, overtaken>>
    BY <1>6 DEF Tick, schedVars
  <2> HIDE DEF none
  <2>2. CASE FlushFile(Ticker, pending, none)
    <3>1. /\ curSeq < curSeq' /\ pending' = {}
          /\ \A t \in Tasks : t # Ticker => gap'[t] = gap[t]
          /\ gap'[Ticker].seq = curSeq /\ gap'[Ticker].ops = pending
      BY <1>2, <1>3, <2>2
    <3>2. curSeq <= curSeq'
      BY <2>2, <1>1 DEF FlushFile
    <3> QED BY <1>2, <2>1, <3>1, <3>2, PassWal
  <2>3. CASE FlushFails
    <3>1. curSeq <= curSeq' /\ pending' = {} /\ gap' = gap
      BY <1>1, <2>3 DEF FlushFails
    <3> QED BY <1>2, <2>1, <3>1, PassWal
  <2> QED BY <2>1, <2>2, <2>3
<1>7. ASSUME NEW w \in late, LateWrite(w)
      PROVE  OnePass'
  <2>1. /\ curSeq <= curSeq' /\ gap' = gap /\ sent' = sent /\ pending' = pending
        /\ UNCHANGED <<chunks, pc, todo, job, staged, net, store, clobbered, overtaken>>
    BY <1>1, <1>7 DEF LateWrite, schedVars
  <2> QED BY <1>2, <2>1, PassWal
<1>8. ASSUME NEW h \in Handlers, Disconnect(h)
      PROVE  OnePass'
  <2>1. /\ curSeq <= curSeq' /\ sent' = sent /\ pending' = pending
        /\ \A t \in Tasks : t # h => gap'[t] = gap[t]
        /\ gap'[h].ops = {}
        /\ UNCHANGED <<chunks, pc, todo, job, staged, net, store, clobbered, overtaken>>
    BY <1>1, <1>2, <1>8 DEF Disconnect, walVars, schedVars, NoGap
  <2> QED BY <1>2, <2>1, PassWal
<1> QED BY <1>4, <1>5, <1>6, <1>7, <1>8

(* What a capture has counted of a chunk. *)
LEMMA TakenType ==
    ASSUME IInv, NEW k \in Keys
    PROVE  Taken(k) \in Nat
<1>1. k[2] \in Windows
    BY DEF Keys
<1>2. Capturing => job.taken \in [Windows -> Nat]
    BY JobType DEF Capturing
<1> QED BY <1>1, <1>2 DEF Taken

(* Rows that are applied were in the gap and nowhere else.  A file applied before an
   older one puts the tables of the older one out of order. *)
LEMMA PassApply ==
    ASSUME IInv, IInv', OnePass, NEW t \in Tasks, Apply(t)
    PROVE  OnePass'
<1> DEFINE ops == gap[t].ops
           n == gap[t].seq
           older == UNION {gap[u].ops : u \in {v \in Tasks : gap[v].seq < n}}
<1>1. /\ InGap(t)
      /\ chunks' = ApplyOps(chunks, ops, n)
      /\ overtaken' = overtaken \cup older
      /\ gap' = [gap EXCEPT ![t] = NoGap]
      /\ UNCHANGED <<pending, curSeq, pc, todo, job, staged, net, store, sent, clobbered>>
    BY DEF Apply, walVars, schedVars
<1>2. /\ curSeq \in Nat /\ ops \subseteq Batches /\ n \in Nat
      /\ gap \in [Tasks -> [ops : SUBSET Batches, seq : Nat, req : SUBSET Batches]]
      /\ chunks \in [Keys -> Chunk] /\ chunks' \in [Keys -> Chunk]
    BY DEF IInv, TypeOK
<1>3. /\ gap'[t].ops = {}
      /\ \A u \in Tasks : u # t => gap'[u] = gap[u]
      /\ \A u \in Tasks : gap'[u].ops \subseteq gap[u].ops
    BY <1>1, <1>2 DEF NoGap
<1>4. /\ Uploads' = Uploads /\ Capturing' = Capturing
      /\ \A k \in Keys : Taken(k)' = Taken(k)
    BY <1>1 DEF Uploads, Capturing, Taken
<1>5. Copies' = Copies
    BY <1>1, <1>4 DEF Copies
<1>6. \A s : InOrder(s)' => InOrder(s)
    BY <1>1 DEF InOrder
<1>7. /\ pending \subseteq sent /\ Buffered \subseteq sent
      /\ \A u \in Tasks : gap[u].ops \subseteq sent /\ gap[u].ops \cap pending = {}
      /\ \A u, v \in Tasks : u # v => gap[u].ops \cap gap[v].ops = {}
      /\ Buffered \cap pending = {} /\ \A u \in Tasks : gap[u].ops \cap Buffered = {}
      /\ \A x \in Copies :
            /\ x.rows \subseteq sent /\ x.rows \cap pending = {}
            /\ \A u \in Tasks : gap[u].ops \cap x.rows = {}
            /\ \A k \in Keys : \A i \in Later(k) : chunks[k].rows[i] \cap x.rows = {}
            /\ \A y \in Copies : x.rows \cap y.rows # {} => x.name = y.name
    BY DEF OnePass, OnceInv
<1>8. /\ \A u, v \in Tasks : u # v /\ InGap(u) /\ InGap(v) => gap[u].seq # gap[v].seq
      /\ \A x \in Copies : x.name[3] < curSeq
      /\ \A u \in Tasks : \A b \in gap[u].ops : InOrder(TableOf[b]) =>
            /\ \A k \in Keys : k[1] = TableOf[b] => chunks[k].hi < gap[u].seq
            /\ \A x \in Copies : x.name[1] = TableOf[b] => x.name[3] < gap[u].seq
      /\ \A k \in Keys : InOrder(k[1]) /\ Later(k) # {} =>
            \A x \in Copies :
                x.name[1] = k[1] /\ x.name[2] = k[2] => x.name[3] < chunks[k].hi
    BY DEF OnePass, OrderInv
<1>9. /\ \A k \in Keys : RowsOf(chunks[k]) \subseteq BatchesOf(k, Batches)
      /\ \A x \in Copies : \A b \in x.rows : TableOf[b] = x.name[1]
      /\ \A s \in Tables : \A w \in todo[s] : chunks[<<s, w>>].rows # << >>
      /\ Capturing => todo[job.table] = {} /\ job.stageName = job.name /\ job.name[1] = job.table
    BY DEF OnePass, SortedInv
<1>10. \A x \in Copies : x.name[3] \in Nat
    BY CopyTypes DEF Names
<1>11. todo \in [Tables -> SUBSET Windows]
    BY DEF IInv, TypeOK
<1>12. \A b \in older : ~InOrder(TableOf[b])'
    BY <1>1 DEF InOrder
<1>13. \A u \in Tasks : gap[u].seq < n => gap[u].ops \subseteq older
    OBVIOUS
<1> HIDE DEF ops, n, older, Uploads, Copies, Capturing, InOrder, Later, Taken, IInv, OnePass
<1>14. ASSUME NEW k \in Keys
       PROVE  /\ BatchesOf(k, ops) \subseteq ops
              /\ RowsOf(chunks'[k]) = RowsOf(chunks[k]) \cup BatchesOf(k, ops)
              /\ chunks'[k] = Insert(chunks[k], BatchesOf(k, ops), n)
    BY <1>1, <1>2, AppliedRows, Zenon
<1>15. ASSUME NEW k \in Keys
       PROVE  /\ \A i \in 1 .. Len(chunks'[k].rows) :
                    \/ i <= Len(chunks[k].rows) /\ chunks'[k].rows[i] = chunks[k].rows[i]
                    \/ BatchesOf(k, ops) # {} /\ chunks'[k].rows[i] = BatchesOf(k, ops)
              /\ \/ chunks'[k].hi = chunks[k].hi
                 \/ BatchesOf(k, ops) # {} /\ chunks'[k].hi = n
              /\ BatchesOf(k, ops) # {} => n <= chunks'[k].hi
              /\ chunks[k].rows # << >> =>
                    chunks[k].hi <= chunks'[k].hi /\ chunks'[k].rows # << >>
  <2> DEFINE c     == chunks[k]
             d     == chunks'[k]
             group == BatchesOf(k, ops)
  <2>1. c \in Chunk /\ group \subseteq Batches /\ d = Insert(c, group, n)
    BY <1>2, <1>14
  <2> HIDE DEF c, d, group
  <2>2. n \in Nat
    BY <1>2
  <2>3. ASSUME NEW i \in 1 .. Len(d.rows)
        PROVE  \/ i <= Len(c.rows) /\ d.rows[i] = c.rows[i]
               \/ group # {} /\ d.rows[i] = group
    BY <2>1, <2>2, InsertLast
  <2>4. /\ d.hi = c.hi \/ (group # {} /\ d.hi = n)
        /\ group # {} => n <= d.hi
        /\ c.rows # << >> => c.hi <= d.hi /\ d.rows # << >>
    BY <2>1, <2>2, InsertHigh
  <2> QED BY <2>3, <2>4 DEF c, d, group
<1>16. ASSUME NEW k \in Keys
       PROVE  /\ chunks[k].hi \in Nat /\ chunks'[k].hi \in Nat
              /\ Len(chunks[k].rows) \in Nat /\ Len(chunks'[k].rows) \in Nat
              /\ chunks[k].rows = << >> => Len(chunks[k].rows) = 0
              /\ Taken(k) \in Nat
  <2>1. chunks[k] \in Chunk /\ chunks'[k] \in Chunk
    BY <1>2
  <2>2. Taken(k) \in Nat
    BY TakenType
  <2> QED BY <2>1, <2>2 DEF Chunk
<1>17. ASSUME NEW k \in Keys, NEW i \in Later(k)'
       PROVE  \/ i \in Later(k) /\ chunks'[k].rows[i] = chunks[k].rows[i]
              \/ BatchesOf(k, ops) # {} /\ chunks'[k].rows[i] = BatchesOf(k, ops)
  <2>1. pc # "stopped" /\ i \in Taken(k) + 1 .. Len(chunks'[k].rows)
    BY <1>1, <1>4 DEF Later
  <2>2. i \in 1 .. Len(chunks'[k].rows)
    BY <1>16, <2>1
  <2>3. i <= Len(chunks[k].rows) => i \in Later(k)
    BY <1>16, <2>1 DEF Later
  <2> QED BY <1>15, <2>2, <2>3
<1>18. SortedInv'
  <2>1. \A k \in Keys : RowsOf(chunks'[k]) \subseteq BatchesOf(k, Batches)
    <3>1. \A k \in Keys : BatchesOf(k, ops) \subseteq BatchesOf(k, Batches)
      BY <1>2 DEF BatchesOf
    <3> QED BY <1>9, <1>14, <3>1
  <2>2. \A s \in Tables : \A w \in todo[s] : chunks'[<<s, w>>].rows # << >>
    <3>1. \A s \in Tables : \A w \in todo[s] : <<s, w>> \in Keys
      BY <1>11 DEF Keys
    <3> QED BY <1>9, <1>15, <3>1
  <2> QED BY <1>1, <1>4, <1>5, <1>9, <2>1, <2>2 DEF SortedInv
<1>19. OnceInv'
  <2>1. Buffered' \subseteq Buffered \cup ops
    BY <1>14 DEF Buffered
  <2>2. /\ ops \subseteq sent /\ ops \cap pending = {} /\ ops \cap Buffered = {}
        /\ \A x \in Copies : ops \cap x.rows = {}
        /\ \A u \in Tasks : u # t => gap[u].ops \cap ops = {}
    BY <1>7 DEF ops
  <2> HIDE DEF Buffered
  <2>3. \A u \in Tasks : gap'[u].ops \cap Buffered' = {}
    BY <1>3, <1>7, <2>1, <2>2
  <2>4. Buffered' \subseteq sent /\ Buffered' \cap pending = {}
    BY <1>7, <2>1, <2>2
  <2>5. \A x \in Copies : \A k \in Keys : \A i \in Later(k)' : chunks'[k].rows[i] \cap x.rows = {}
    <3> SUFFICES ASSUME NEW x \in Copies, NEW k \in Keys, NEW i \in Later(k)'
                 PROVE  chunks'[k].rows[i] \cap x.rows = {}
      OBVIOUS
    <3>1. BatchesOf(k, ops) \cap x.rows = {}
      BY <1>14, <2>2
    <3> QED BY <1>7, <1>17, <3>1
  <2>6. \A x \in Copies : \A u \in Tasks : gap'[u].ops \cap x.rows = {}
    BY <1>3, <1>7
  <2>7. /\ \A u \in Tasks : gap'[u].ops \subseteq sent /\ gap'[u].ops \cap pending = {}
        /\ \A u, v \in Tasks : u # v => gap'[u].ops \cap gap'[v].ops = {}
    BY <1>3, <1>7
  <2> QED BY <1>1, <1>5, <1>7, <2>3, <2>4, <2>5, <2>6, <2>7 DEF OnceInv
<1>20. OrderInv'
  <2>1. \A u \in Tasks : InGap(u)' => u # t /\ InGap(u) /\ gap'[u] = gap[u]
    BY <1>3 DEF InGap
  <2>2. \A u, v \in Tasks : u # v /\ InGap(u)' /\ InGap(v)' => gap'[u].seq # gap'[v].seq
    BY <1>8, <2>1
  <2>3. ASSUME NEW u \in Tasks, NEW b \in gap'[u].ops, InOrder(TableOf[b])'
        PROVE  /\ \A k \in Keys : k[1] = TableOf[b] => chunks'[k].hi < gap'[u].seq
               /\ \A x \in Copies : x.name[1] = TableOf[b] => x.name[3] < gap'[u].seq
    <3>1. InGap(u) /\ u # t /\ gap'[u] = gap[u] /\ b \in gap[u].ops /\ InOrder(TableOf[b])
      BY <1>3, <1>6, <2>3 DEF InGap
    <3>2. gap[u].seq \in Nat /\ gap[u].seq # n
      BY <1>1, <1>2, <1>8, <3>1 DEF n
    <3>3. ~(gap[u].seq < n)
      BY <1>12, <1>13, <2>3, <3>1
    <3>4. n < gap[u].seq
      BY <1>2, <3>2, <3>3
    <3>5. \A k \in Keys : k[1] = TableOf[b] => chunks[k].hi < gap[u].seq
      BY <1>8, <3>1
    <3>6. \A k \in Keys : k[1] = TableOf[b] => chunks'[k].hi < gap[u].seq
      BY <1>15, <3>4, <3>5
    <3> QED BY <1>8, <3>1, <3>6
  <2>4. ASSUME NEW k \in Keys, InOrder(k[1])', Later(k)' # {}, NEW x \in Copies,
               x.name[1] = k[1], x.name[2] = k[2]
        PROVE  x.name[3] < chunks'[k].hi
    <3>1. CASE Later(k) # {}
      <4>1. x.name[3] < chunks[k].hi
        BY <1>6, <1>8, <2>4, <3>1
      <4>2. chunks[k].rows # << >>
        BY <1>16, <3>1 DEF Later
      <4> QED BY <1>10, <1>15, <1>16, <4>1, <4>2
    <3>2. CASE BatchesOf(k, ops) # {}
      <4>1. PICK b \in ops : TableOf[b] = k[1]
        BY <3>2 DEF BatchesOf
      <4>2. x.name[3] < n
        BY <1>6, <1>8, <2>4, <4>1 DEF ops, n
      <4>3. n <= chunks'[k].hi
        BY <1>15, <3>2
      <4> QED BY <1>2, <1>10, <1>16, <4>2, <4>3
    <3> QED BY <1>17, <2>4, <3>1, <3>2
  <2>5. \A x \in Copies : x.name[3] < curSeq
    BY <1>8
  <2> QED BY <1>1, <1>5, <2>2, <2>3, <2>4, <2>5 DEF OrderInv
<1>21. NameInv'
    BY <1>1, <1>4, <1>6 DEF OnePass, NameInv
<1>22. Running' /\ \A b \in clobbered' : ~InOrder(TableOf[b])'
    BY <1>1, <1>6 DEF OnePass, Running
<1> QED BY <1>18, <1>19, <1>20, <1>21, <1>22 DEF OnePass

(* What a capture takes, and the name it goes under: no other file has it, as the
   high bound of the first window is newer than all files named after that window. *)
LEMMA CaptureNamed ==
    ASSUME IInv, OnePass, Backend # "s3", NEW t \in Tables, Capture(t)
    PROVE  \E first \in todo[t] : \E newest \in Nat :
              /\ job'.name = <<t, first, newest>> /\ job'.stageName = job'.name /\ job'.table = t
              /\ job'.rows = UNION {RowsOf(chunks[<<t, w>>]) : w \in todo[t]}
              /\ \A w \in todo[t] : job'.taken[w] = Len(chunks[<<t, w>>].rows)
              /\ \A w \in Windows \ todo[t] : job'.taken[w] = 0
              /\ \A w \in todo[t] : chunks[<<t, w>>].hi <= newest
              /\ \E w \in todo[t] : chunks[<<t, w>>].hi = newest
              /\ newest < curSeq
<1> DEFINE first  == Least(todo[t])
           his    == {chunks[<<t, w>>].hi : w \in todo[t]}
           newest == Greatest(his)
           taken  == [w \in Windows |-> IF w \in todo[t] THEN Len(chunks[<<t, w>>].rows) ELSE 0]
           rows   == UNION {RowsOf(chunks[<<t, w>>]) : w \in todo[t]}
<1>1. /\ todo[t] # {}
      /\ job' = [table |-> t, taken |-> taken,
                 name |-> UploadName(t, first, newest, chunks[<<t, first>>].since),
                 stageName |-> <<t, first, newest>>, rows |-> rows]
    BY DEF Capture
<1>2. /\ todo[t] \subseteq Windows /\ chunks \in [Keys -> Chunk] /\ curSeq \in Nat
      /\ \A w \in todo[t] : <<t, w>> \in Keys
    BY DEF IInv, TypeOK, Keys
<1>3. \A w \in todo[t] : chunks[<<t, w>>].hi \in Nat /\ chunks[<<t, w>>].hi < curSeq
    BY <1>2 DEF Chunk, IInv, BoundsInv
<1>4. first \in todo[t]
  <2>1. todo[t] \in SUBSET Nat
    BY <1>2, WindowsAreNat
  <2> QED BY <1>1, <2>1, LeastIn
<1>5. newest \in his /\ \A m \in his : m <= newest
  <2>1. ASSUME NEW m \in his PROVE m \in Nat /\ m <= curSeq
    <3>1. PICK w \in todo[t] : m = chunks[<<t, w>>].hi
      OBVIOUS
    <3>2. m \in Nat /\ m < curSeq
      BY <1>3, <3>1
    <3> QED BY <1>2, <3>2
  <2>2. his # {}
    BY <1>1
  <2> HIDE DEF his
  <2>3. his \in SUBSET Nat
    BY <2>1
  <2> QED BY <1>2, <2>1, <2>2, <2>3, GreatestIn, Zenon
<1>6. newest \in Nat /\ newest < curSeq
    BY <1>3, <1>5
<1>7. /\ \A w \in todo[t] : chunks[<<t, w>>].hi <= newest
      /\ \E w \in todo[t] : chunks[<<t, w>>].hi = newest
    BY <1>5
<1>8. /\ \A w \in todo[t] : taken[w] = Len(chunks[<<t, w>>].rows)
      /\ \A w \in Windows \ todo[t] : taken[w] = 0
    BY <1>2
<1> HIDE DEF first, newest, his, taken, rows
<1>9. /\ job'.name = <<t, first, newest>> /\ job'.stageName = job'.name /\ job'.table = t
      /\ job'.rows = rows /\ job'.taken = taken
    BY <1>1 DEF UploadName
<1> QED BY <1>4, <1>6, <1>7, <1>8, <1>9 DEF rows

(* A capture is of rows that are nowhere else. *)
LEMMA PassCapture ==
    ASSUME IInv, IInv', OnePass, Backend # "s3", NEW t \in Tables, Capture(t)
    PROVE  OnePass'
<1>1. /\ pc = "work" /\ pc' = "upload"
      /\ todo' = [todo EXCEPT ![t] = {}]
      /\ UNCHANGED <<pending, curSeq, gap, chunks, staged, net, store, sent, overtaken, clobbered>>
    BY DEF Capture, walVars, history
<1>2. PICK first \in todo[t] : \E newest \in Nat :
          /\ job'.name = <<t, first, newest>> /\ job'.stageName = job'.name /\ job'.table = t
          /\ job'.rows = UNION {RowsOf(chunks[<<t, w>>]) : w \in todo[t]}
          /\ \A w \in todo[t] : job'.taken[w] = Len(chunks[<<t, w>>].rows)
          /\ \A w \in Windows \ todo[t] : job'.taken[w] = 0
          /\ \A w \in todo[t] : chunks[<<t, w>>].hi <= newest
          /\ \E w \in todo[t] : chunks[<<t, w>>].hi = newest
          /\ newest < curSeq
    BY CaptureNamed
<1>3. PICK newest \in Nat :
          /\ job'.name = <<t, first, newest>> /\ job'.stageName = job'.name /\ job'.table = t
          /\ job'.rows = UNION {RowsOf(chunks[<<t, w>>]) : w \in todo[t]}
          /\ \A w \in todo[t] : job'.taken[w] = Len(chunks[<<t, w>>].rows)
          /\ \A w \in Windows \ todo[t] : job'.taken[w] = 0
          /\ \A w \in todo[t] : chunks[<<t, w>>].hi <= newest
          /\ \E w \in todo[t] : chunks[<<t, w>>].hi = newest
          /\ newest < curSeq
    BY <1>2
<1>4. /\ todo \in [Tables -> SUBSET Windows] /\ chunks \in [Keys -> Chunk] /\ curSeq \in Nat
      /\ \A w \in todo[t] : w \in Windows /\ <<t, w>> \in Keys
    BY DEF IInv, TypeOK, Keys
<1>5. /\ Capturing' /\ ~Capturing /\ Running'
      /\ \A k \in Keys : Taken(k) = 0
    BY <1>1 DEF Capturing, Running, Taken
<1>6. PICK x \in {[name |-> job'.name, rows |-> job'.rows]} :
          x.name = <<t, first, newest>> /\ x.rows = job'.rows
    BY <1>3
<1>7. Uploads' = Uploads \cup {x}
    BY <1>1, <1>5, <1>6 DEF Uploads
<1>8. Copies' = Copies \cup {x}
    BY <1>1, <1>7 DEF Copies
<1>9. ASSUME NEW k \in Keys
      PROVE  /\ Len(chunks[k].rows) \in Nat /\ DOMAIN chunks[k].rows = 1 .. Len(chunks[k].rows)
             /\ chunks[k].rows # << >> => Later(k) # {}
             /\ Later(k) = DOMAIN chunks[k].rows
             /\ Later(k)' \subseteq Later(k)
             /\ k[1] = t /\ k[2] \in todo[t] => Later(k)' = {}
             /\ chunks[k].hi \in Nat
  <2>1. /\ chunks[k].rows \in Seq(SUBSET Batches) /\ chunks[k].hi \in Nat
        /\ k[2] \in Windows /\ k = <<k[1], k[2]>>
    BY <1>4 DEF Chunk, Keys
  <2>2. Later(k) = 1 .. Len(chunks[k].rows)
    BY <1>1, <1>5 DEF Later
  <2>6. /\ Len(chunks[k].rows) \in Nat
        /\ DOMAIN chunks[k].rows = 1 .. Len(chunks[k].rows)
        /\ chunks[k].rows # << >> => 1 \in 1 .. Len(chunks[k].rows)
    <3> DEFINE rows == chunks[k].rows
    <3>1. rows \in Seq(SUBSET Batches)
      BY <2>1
    <3> HIDE DEF rows
    <3>2. Len(rows) \in Nat /\ DOMAIN rows = 1 .. Len(rows) /\ (rows # << >> => Len(rows) # 0)
      BY <3>1
    <3>3. rows # << >> => 1 \in 1 .. Len(rows)
      BY <3>2
    <3> QED BY <3>2, <3>3 DEF rows
  <2>3. Later(k)' = (Taken(k)' + 1) .. Len(chunks[k].rows)
    BY <1>1 DEF Later
  <2>4. CASE k[1] = t /\ k[2] \in todo[t]
    <3>1. Taken(k)' = Len(chunks[k].rows)
      BY <1>3, <1>5, <2>1, <2>4 DEF Taken
    <3>2. Later(k)' = {}
      BY <2>1, <2>3, <3>1
    <3> QED BY <2>1, <2>2, <2>6, <3>2
  <2>5. CASE ~(k[1] = t /\ k[2] \in todo[t])
    <3>1. Taken(k)' = 0
      BY <1>3, <1>5, <2>1, <2>5 DEF Taken
    <3>2. Later(k)' = Later(k)
      BY <2>2, <2>3, <3>1
    <3> QED BY <2>1, <2>2, <2>5, <2>6, <3>2
  <2> QED BY <2>4, <2>5
<1>10. \A s : InOrder(s)' = InOrder(s)
    BY <1>1 DEF InOrder
<1>11. Buffered' = Buffered
    BY <1>1 DEF Buffered
<1>12. /\ \A k \in Keys : RowsOf(chunks[k]) \subseteq BatchesOf(k, Batches)
       /\ \A y \in Copies : \A b \in y.rows : TableOf[b] = y.name[1]
       /\ \A s \in Tables : \A w \in todo[s] : chunks[<<s, w>>].rows # << >>
    BY DEF OnePass, SortedInv
<1>13. \A b \in x.rows : \E w \in todo[t] : b \in RowsOf(chunks[<<t, w>>])
    BY <1>3, <1>6
<1>14. \A k \in Keys : \A b \in RowsOf(chunks[k]) : TableOf[b] = k[1] /\ WindowOf(b) = k[2]
    BY <1>12 DEF BatchesOf
<1>15. x.rows \subseteq Buffered
    BY <1>4, <1>13 DEF Buffered
<1>16. /\ pending \subseteq sent /\ Buffered \subseteq sent
       /\ \A u \in Tasks : gap[u].ops \subseteq sent /\ gap[u].ops \cap pending = {}
       /\ \A u, v \in Tasks : u # v => gap[u].ops \cap gap[v].ops = {}
       /\ Buffered \cap pending = {} /\ \A u \in Tasks : gap[u].ops \cap Buffered = {}
       /\ \A y \in Copies :
             /\ y.rows \subseteq sent /\ y.rows \cap pending = {}
             /\ \A u \in Tasks : gap[u].ops \cap y.rows = {}
             /\ \A k \in Keys : \A i \in Later(k) : chunks[k].rows[i] \cap y.rows = {}
             /\ \A z \in Copies : y.rows \cap z.rows # {} => y.name = z.name
    BY DEF OnePass, OnceInv
<1>17. /\ \A u, v \in Tasks : u # v /\ InGap(u) /\ InGap(v) => gap[u].seq # gap[v].seq
       /\ \A y \in Copies : y.name[3] < curSeq
       /\ \A u \in Tasks : \A b \in gap[u].ops : InOrder(TableOf[b]) =>
             /\ \A k \in Keys : k[1] = TableOf[b] => chunks[k].hi < gap[u].seq
             /\ \A y \in Copies : y.name[1] = TableOf[b] => y.name[3] < gap[u].seq
       /\ \A k \in Keys : InOrder(k[1]) /\ Later(k) # {} =>
             \A y \in Copies :
                 y.name[1] = k[1] /\ y.name[2] = k[2] => y.name[3] < chunks[k].hi
    BY DEF OnePass, OrderInv
<1>18. x.name[1] = t /\ x.name[2] = first /\ x.name[3] = newest
    BY <1>6
<1>19. \A y \in Copies : y.name[3] \in Nat
    BY CopyTypes DEF Names
<1>20. ASSUME InOrder(t), NEW y \in Copies PROVE y.name # x.name
  <2> SUFFICES ASSUME y.name = x.name PROVE FALSE
    OBVIOUS
  <2> DEFINE k == <<t, first>>
  <2>1. k \in Keys /\ k[1] = t /\ k[2] = first /\ chunks[k].rows # << >> /\ chunks[k].hi <= newest
    BY <1>3, <1>4, <1>12
  <2> HIDE DEF k
  <2>2. y.name[3] < chunks[k].hi
    BY <1>9, <1>17, <1>18, <1>20, <2>1
  <2> QED BY <1>9, <1>18, <2>1, <2>2
<1>21. \A n \in DOMAIN store : [name |-> n, rows |-> store[n]] \in Copies
    BY UploadForms
<1>22. Uploads \subseteq Copies
    BY UploadForms
<1> HIDE DEF Uploads, Copies, Capturing, InOrder, Later, Taken, IInv, OnePass, Buffered
<1>23. SortedInv'
  <2>1. \A b \in x.rows : TableOf[b] = x.name[1]
    <3> SUFFICES ASSUME NEW b \in x.rows PROVE TableOf[b] = t
      BY <1>18
    <3>1. PICK w \in todo[t] : b \in RowsOf(chunks[<<t, w>>])
      BY <1>13
    <3> QED BY <1>4, <1>14, <3>1
  <2>2. \A y \in Copies' : \A b \in y.rows : TableOf[b] = y.name[1]
    BY <1>8, <1>12, <2>1
  <2>3. \A s \in Tables : \A w \in todo'[s] : w \in todo[s]
    BY <1>1, <1>4
  <2>4. \A s \in Tables : \A w \in todo'[s] : chunks'[<<s, w>>].rows # << >>
    BY <1>1, <1>12, <2>3
  <2>5. todo'[job'.table] = {} /\ job'.stageName = job'.name /\ job'.name[1] = job'.table
    BY <1>1, <1>3, <1>4
  <2>6. \A k \in Keys : RowsOf(chunks'[k]) \subseteq BatchesOf(k, Batches)
    BY <1>1, <1>12
  <2> QED BY <2>2, <2>4, <2>5, <2>6 DEF SortedInv
<1>24. OnceInv'
  <2>1. /\ x.rows \subseteq sent /\ x.rows \cap pending = {}
        /\ \A u \in Tasks : gap[u].ops \cap x.rows = {}
    BY <1>15, <1>16
  <2>2. ASSUME NEW k \in Keys, NEW i \in Later(k)' PROVE chunks[k].rows[i] \cap x.rows = {}
    <3> SUFFICES ASSUME NEW b \in chunks[k].rows[i], b \in x.rows PROVE FALSE
      OBVIOUS
    <3>1. PICK w \in todo[t] : b \in RowsOf(chunks[<<t, w>>])
      BY <1>13
    <3>2. b \in RowsOf(chunks[k])
      BY <1>9, <2>2 DEF RowsOf
    <3>3. TableOf[b] = k[1] /\ WindowOf(b) = k[2]
      BY <1>14, <3>2
    <3>4. TableOf[b] = t /\ WindowOf(b) = w
      BY <1>4, <1>14, <3>1
    <3> QED BY <1>9, <2>2, <3>3, <3>4
  <2>3. ASSUME NEW y \in Copies PROVE x.rows \cap y.rows = {}
    <3> SUFFICES ASSUME NEW b \in x.rows, b \in y.rows PROVE FALSE
      OBVIOUS
    <3>1. PICK w \in todo[t] : b \in RowsOf(chunks[<<t, w>>])
      BY <1>13
    <3>2. PICK i \in DOMAIN chunks[<<t, w>>].rows : b \in chunks[<<t, w>>].rows[i]
      BY <3>1 DEF RowsOf
    <3>3. <<t, w>> \in Keys /\ i \in Later(<<t, w>>)
      BY <1>4, <1>9, <3>2
    <3> QED BY <1>16, <3>2, <3>3
  <2>4. ASSUME NEW y \in Copies'
        PROVE  /\ y.rows \subseteq sent /\ y.rows \cap pending = {}
               /\ \A u \in Tasks : gap[u].ops \cap y.rows = {}
               /\ \A k \in Keys : \A i \in Later(k)' : chunks[k].rows[i] \cap y.rows = {}
               /\ \A z \in Copies' : y.rows \cap z.rows # {} => y.name = z.name
    <3>1. CASE y \in Copies
      <4>1. \A k \in Keys : \A i \in Later(k)' : chunks[k].rows[i] \cap y.rows = {}
        BY <1>9, <1>16, <3>1
      <4>2. \A z \in Copies' : y.rows \cap z.rows # {} => y.name = z.name
        BY <1>8, <1>16, <2>3, <3>1
      <4> QED BY <1>16, <3>1, <4>1, <4>2
    <3>2. CASE y = x
      BY <1>8, <2>1, <2>2, <2>3, <3>2
    <3> QED BY <1>8, <3>1, <3>2
  <2> QED BY <1>1, <1>11, <1>16, <2>4 DEF OnceInv
<1>25. OrderInv'
  <2>1. \A y \in Copies' : y.name[3] < curSeq
    BY <1>3, <1>8, <1>17, <1>18
  <2>2. ASSUME NEW u \in Tasks, NEW b \in gap[u].ops, InOrder(TableOf[b]),
               NEW y \in Copies', y.name[1] = TableOf[b]
        PROVE  y.name[3] < gap[u].seq
    <3>1. CASE y = x
      <4>1. PICK w \in todo[t] : chunks[<<t, w>>].hi = newest
        BY <1>3
      <4>2. <<t, w>> \in Keys /\ TableOf[b] = t
        BY <1>4, <1>18, <2>2, <3>1
      <4> QED BY <1>17, <1>18, <2>2, <3>1, <4>1, <4>2
    <3> QED BY <1>8, <1>17, <2>2, <3>1
  <2>3. ASSUME NEW k \in Keys, InOrder(k[1]), Later(k)' # {},
               NEW y \in Copies', y.name[1] = k[1], y.name[2] = k[2]
        PROVE  y.name[3] < chunks[k].hi
    <3>1. y # x
      BY <1>9, <1>18, <2>3
    <3> QED BY <1>8, <1>9, <1>17, <2>3, <3>1
  <2>4. \A u, v \in Tasks : u # v /\ InGap(u)' /\ InGap(v)' => gap'[u].seq # gap'[v].seq
    BY <1>1, <1>17 DEF InGap
  <2> QED BY <1>1, <1>10, <1>17, <2>1, <2>2, <2>3, <2>4 DEF OrderInv
<1>26. NameInv'
  <2>1. \A y \in Uploads : InOrder(y.name[1]) =>
            /\ \A z \in Uploads : y.name = z.name => y.rows = z.rows
            /\ y.name \in DOMAIN store =>
                  store[y.name] = y.rows \/ (Backend = "local" /\ store[y.name] = {})
    BY DEF OnePass, NameInv
  <2>2. ASSUME InOrder(t)
        PROVE  x.name \notin DOMAIN store /\ \A y \in Uploads : y.name # x.name
    BY <1>20, <1>21, <1>22, <2>2
  <2> SUFFICES ASSUME NEW y \in Uploads', InOrder(y.name[1])
               PROVE  /\ \A z \in Uploads' : y.name = z.name => y.rows = z.rows
                      /\ y.name \in DOMAIN store =>
                            store[y.name] = y.rows \/ (Backend = "local" /\ store[y.name] = {})
    BY <1>1, <1>10 DEF NameInv
  <2>3. CASE y = x
    BY <1>7, <1>18, <2>2, <2>3
  <2>4. CASE y \in Uploads
    <3>1. y.name # x.name
      BY <1>18, <2>2, <2>4
    <3> QED BY <1>7, <2>1, <2>4, <3>1
  <2> QED BY <1>7, <2>3, <2>4
<1>27. \A b \in clobbered' : ~InOrder(TableOf[b])'
    BY <1>1, <1>10 DEF OnePass
<1> QED BY <1>5, <1>23, <1>24, <1>25, <1>26, <1>27 DEF OnePass

(* Nothing the parts speak of changes. *)
LEMMA PassSame ==
    ASSUME OnePass,
           UNCHANGED <<pending, curSeq, gap, sent, overtaken, chunks, pc, todo, job, staged,
                       net, store, clobbered>>
    PROVE  OnePass'
<1>1. /\ Uploads' = Uploads /\ Capturing' = Capturing /\ Buffered' = Buffered
      /\ Running' = Running
      /\ \A k \in Keys : Later(k)' = Later(k)
      /\ \A t : InOrder(t)' = InOrder(t)
    BY DEF Uploads, Capturing, Buffered, Later, Taken, InOrder, Running
<1>2. Copies' = Copies
    BY <1>1 DEF Copies
<1> HIDE DEF Uploads, Copies, Capturing, Buffered, Later, InOrder, Running
<1>3. SortedInv' /\ NameInv' /\ OnceInv'
    BY <1>1, <1>2 DEF OnePass, SortedInv, NameInv, OnceInv
<1>4. OrderInv'
    BY <1>1, <1>2 DEF OnePass, OrderInv, InGap
<1> QED BY <1>1, <1>3, <1>4 DEF OnePass

(* An agent starts with nothing to collide. *)
LEMMA PassInit == Init => PassInv
<1> SUFFICES ASSUME Init PROVE OnePass
    BY DEF PassInv
<1> USE DEF Init
<1>1. Running /\ ~Capturing /\ DOMAIN staged = {} /\ DOMAIN store = {}
    BY DEF Running, Capturing, EmptyFcn
<1>2. Uploads = {} /\ Copies = {}
    BY <1>1 DEF Uploads, Copies
<1>3. \A k \in Keys : RowsOf(chunks[k]) = {} /\ Later(k) = {}
    BY <1>1, NewChunkEmpty DEF Later, Taken, NewChunk
<1>4. Buffered = {} /\ \A t \in Tasks : gap[t].ops = {}
    BY <1>3 DEF Buffered, NoGap
<1>5. SortedInv
    BY <1>1, <1>2, <1>3 DEF SortedInv, NoTodo
<1>6. OnceInv
    BY <1>2, <1>4 DEF OnceInv
<1>7. OrderInv
    BY <1>2, <1>3, <1>4 DEF OrderInv, InGap
<1>8. NameInv
    BY <1>2 DEF NameInv
<1> QED BY <1>1, <1>5, <1>6, <1>7, <1>8 DEF OnePass

(* A crash, and an abandoned cycle, are the causes; all else keeps the parts. *)
LEMMA PassStep ==
    ASSUME IInv, IInv', PassInv, [Next]_vars
    PROVE  PassInv'
<1> SUFFICES ASSUME Backend # "s3", crashes' = 0, aborted' = 0 PROVE OnePass'
    BY DEF PassInv
<1>1. crashes \in Nat /\ aborted \in Nat
    BY AgentAssumption DEF IInv, TypeOK
<1>2. ASSUME UNCHANGED <<crashes, aborted>> PROVE OnePass
    BY <1>2 DEF PassInv
<1>3. CASE \/ \E h \in Handlers, req \in Requests : Write(h, req) \/ WriteRejected(h, req)
           \/ Tick
           \/ \E w \in late : LateWrite(w)
           \/ \E h \in Handlers : Disconnect(h)
  <2>1. UNCHANGED <<crashes, aborted>>
    BY <1>3 DEF Write, WriteRejected, Tick, LateWrite, Disconnect
  <2>2. OnePass
    BY <1>2, <2>1
  <2> QED BY <1>3, <2>2, PassWrites
<1>4. ASSUME NEW t \in Tasks, Apply(t) PROVE OnePass'
  <2>1. UNCHANGED <<crashes, aborted>>
    BY <1>4 DEF Apply
  <2> QED BY <1>2, <1>4, <2>1, PassApply
<1>5. ASSUME NEW w \in Windows, SnapshotCollect(w + 1) PROVE OnePass'
  <2>1. UNCHANGED <<crashes, aborted>>
    BY <1>5 DEF SnapshotCollect, history
  <2> QED BY <1>2, <1>5, <2>1, PassCollect
<1>6. ASSUME NEW t \in Tables, Capture(t) PROVE OnePass'
  <2>1. UNCHANGED <<crashes, aborted>>
    BY <1>6 DEF Capture, history
  <2> QED BY <1>2, <1>6, <2>1, PassCapture
<1>7. CASE \/ \E t \in Tables : CaptureFails(t)
           \/ MetaCreate \/ MetaWrite \/ MetaFails
           \/ \E files \in SUBSET DOMAIN wal : Cleanup(files)
  <2>1. UNCHANGED <<crashes, aborted>>
    BY <1>7 DEF CaptureFails, MetaCreate, MetaWrite, MetaFails, Cleanup, history
  <2>2. OnePass
    BY <1>2, <2>1
  <2> QED BY <1>7, <2>2, PassCycle
<1>8. CASE \/ UploadOK \/ UploadFails
           \/ \E n \in DOMAIN staged : RetryOK(n) \/ RetryFails(n)
           \/ \E upload \in net : Arrive(upload)
  <2>1. UNCHANGED <<crashes, aborted>>
    BY <1>8 DEF UploadOK, UploadFails, RetryOK, RetryFails, Arrive
  <2>2. OnePass
    BY <1>2, <2>1
  <2> QED BY <1>8, <2>2, PassUploads
<1>9. CASE StageOK
  <2>1. UNCHANGED <<crashes, aborted>>
    BY <1>9 DEF StageOK
  <2> QED BY <1>2, <1>9, <2>1, PassStage
<1>10. CASE Drain
  <2>1. UNCHANGED <<crashes, aborted>>
    BY <1>10 DEF Drain
  <2> QED BY <1>2, <1>10, <2>1, PassDrain
<1>11. CASE StageFails
  BY <1>1, <1>11 DEF StageFails
<1>12. CASE Crash
  BY <1>1, <1>12 DEF Crash
<1>13. CASE ReplayFile \/ ReplaySkips \/ ReplayDone
  <2>1. UNCHANGED <<crashes, aborted>> /\ ~Running
    BY <1>13 DEF ReplayFile, ReplaySkips, ReplayDone, history, Running
  <2> QED BY <1>2, <2>1 DEF OnePass
<1>14. CASE Stop
  <2>1. UNCHANGED <<crashes, aborted>>
    BY <1>14 DEF Stop
  <2> QED BY <1>2, <1>14, <2>1, PassStop
<1>15. CASE UNCHANGED vars
  <2>1. UNCHANGED <<crashes, aborted>>
        /\ UNCHANGED <<pending, curSeq, gap, sent, overtaken, chunks, pc, todo, job, staged,
                       net, store, clobbered>>
    BY <1>15 DEF vars
  <2>2. OnePass
    BY <1>2, <2>1
  <2>3. OnePass'
    BY <2>1, <2>2, PassSame
  <2> QED BY <2>3
<1> QED
    BY <1>3, <1>4, <1>5, <1>6, <1>7, <1>8, <1>9, <1>10, <1>11, <1>12, <1>13, <1>14,
       <1>15
    DEF Next, Scheduler

(* The parts hold as long as there has been no crash and no abandoned cycle, with
   backends whose names have the sequence number in them. *)
THEOREM OnePassHolds == Spec => []PassInv
<1>1. Init => PassInv
    BY PassInit
<1>2. IInv /\ IInv' /\ PassInv /\ [Next]_vars => PassInv'
    BY PassStep
<1>3. Spec => []IInv
    BY Invariance
<1> QED
    BY <1>1, <1>2, <1>3, PTL DEF Spec

(* Over HTTP and on the local disk, whose names end in the sequence number, two sets of
   rows meet under a name (retry_staged, upload_bytes) only after one of the causes that
   CollisionNeedsCause lists. *)
THEOREM CollisionHasCause ==
    ASSUME Backend # "s3"
    PROVE  Spec => []CollisionNeedsCause
<1>1. IInv /\ PassInv => CollisionNeedsCause
  <2> SUFFICES ASSUME IInv, PassInv, NEW b \in clobbered, ~(crashes > 0), ~(aborted > 0)
               PROVE  \E o \in overtaken : TableOf[o] = TableOf[b]
    BY DEF CollisionNeedsCause
  <2>1. crashes = 0 /\ aborted = 0
    BY AgentAssumption DEF IInv, TypeOK
  <2> QED BY <2>1 DEF PassInv, OnePass, InOrder
<1> QED
    BY <1>1, Invariance, OnePassHolds, PTL

(* There, a row is under two names in the store only if it was captured twice. *)
THEOREM DuplicateHasCause ==
    ASSUME Backend # "s3"
    PROVE  Spec => []DuplicateNeedsCause
<1>1. IInv /\ PassInv => DuplicateNeedsCause
  <2> SUFFICES ASSUME IInv, PassInv, ~(crashes > 0), ~(aborted > 0),
                      NEW n \in DOMAIN store, NEW m \in DOMAIN store,
                      n # m, store[n] \cap store[m] # {}
               PROVE  FALSE
    BY DEF DuplicateNeedsCause
  <2>1. crashes = 0 /\ aborted = 0
    BY AgentAssumption DEF IInv, TypeOK
  <2>2. /\ [name |-> n, rows |-> store[n]] \in Copies
        /\ [name |-> m, rows |-> store[m]] \in Copies
    BY DEF Copies
  <2>3. \A x, y \in Copies : x.rows \cap y.rows # {} => x.name = y.name
    BY <2>1 DEF PassInv, OnePass, OnceInv
  <2> QED BY <2>2, <2>3
<1> QED
    BY <1>1, Invariance, OnePassHolds, PTL
=============================================================================
