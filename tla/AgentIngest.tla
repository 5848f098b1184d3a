---------------------------- MODULE AgentIngest ----------------------------
(***************************************************************************)
(* The agent's write path, from a client's request to the upload backend:  *)
(* write handlers and the periodic WAL flush, the WAL and its files, the   *)
(* buffer, the snapshot scheduler with its handoff and staging directory,  *)
(* the network to the backend, and crashes with recovery.                  *)
(*                                                                         *)
(* What one action stands for: everything between two points at which      *)
(* another task can run or the process can die with a visible effect.      *)
(* A critical section of the WAL mutex or of the buffer mutex is one        *)
(* action.  Between the two sections of a write the rows are in the WAL     *)
(* file and not in the buffer: the task is then "in the gap".               *)
(*                                                                         *)
(* Left out: power loss (WAL files are not fsynced), the wall clock (the    *)
(* end marker of a snapshot is any window boundary), stray names in the    *)
(* staging directory, queries.                                              *)
(***************************************************************************)
EXTENDS AgentData

CONSTANTS
    Handlers,    \* the tasks serving POST /write
    Ticker,      \* the task that flushes the WAL periodically
    OpLimit,     \* wal.max_write_buffer_ops
    MaxCrashes,  \* bound: how often the process may crash
    MaxFaults    \* bound: how many other operations may fail

ASSUME AgentAssumption ==
    /\ Ticker \notin Handlers
    /\ OpLimit \in Nat \ {0}
    /\ MaxCrashes \in Nat /\ MaxFaults \in Nat

Tasks == Handlers \cup {Ticker}

VARIABLES
    pending,     \* WalManager.pending_ops: operations not yet in a file
    curSeq,      \* WalManager.current_seq: number of the next file
    wal,         \* WAL files on disk: number -> batches ({}: torn file)
    late,        \* WAL writes under way that no task waits for any more
    unread,      \* the files recovery could not read, above every watermark since
    abandoned,   \* history: the batches of such writes
    meta,        \* flushed_wal_seq in meta/last_snapshot.json (0: unreadable)
    gap,         \* for each task, what it has flushed and not yet applied
    chunks,      \* the buffer: (table, window) -> chunk
    pc,          \* what the agent's single scheduler task does next
    todo,        \* the windows a snapshot cycle has yet to capture, by table
    job,         \* the capture being uploaded or handed off
    safe,        \* the watermark the current handoff computed
    cursor,      \* the last file replayed during recovery
    staged,      \* staging directory: (table, window, seq) -> batches
    net,         \* uploads the agent gave up on that may still arrive
    store,       \* what the upload backend holds: name -> batches
    crashes,     \* number of crashes so far
    faults,      \* number of failed operations so far
    sent,        \* history: the batches clients have sent
    acked,       \* history: the batches of requests answered 204
    uncovered,   \* history: in the gap, or in a file recovery could not read, when
                 \* a handoff's watermark passed them, or in a file when an
                 \* abandoned write went over it
    overtaken,   \* history: in the gap when a later file was applied
    clobbered,   \* history: lost to a name that held other batches
    aborted      \* history: how often staging failed (the rows stayed buffered)

walVars   == <<pending, curSeq, wal, late, unread, abandoned>>
schedVars == <<pc, todo, job, safe>>
history   == <<crashes, faults, sent, acked, uncovered, overtaken, clobbered, aborted>>
vars == <<pending, curSeq, wal, late, unread, abandoned, meta, gap, chunks, pc, todo,
          job, safe, cursor, staged, net, store, crashes, faults, sent, acked, uncovered,
          overtaken, clobbered, aborted>>

-----------------------------------------------------------------------------
NoGap == [ops |-> {}, seq |-> 0, req |-> {}]

InGap(t) == gap[t].ops # {}

NoTodo == [t \in Tables |-> {}]

NoJob == [table |-> << >>, taken |-> << >>, name |-> << >>,
          stageName |-> << >>, rows |-> {}]

(* A chunk is in its table exactly while it holds rows. *)
LiveKeys == {k \in Keys : chunks[k].rows # << >>}

Buffered == UNION {RowsOf(chunks[k]) : k \in Keys}

(* What a restart would replay. *)
Replayable == UNION {wal[n] : n \in {m \in DOMAIN wal : m > meta}}

Delivered == Contents(store)
Staged == Contents(staged)

(* An operation of the environment fails. *)
Fault == faults < MaxFaults /\ faults' = faults + 1

(* The tasks run only once recovery is over. *)
Running == pc # "replay"

Init ==
    /\ pending = {} /\ curSeq = 1 /\ wal = EmptyFcn /\ meta = 0
    /\ late = {} /\ unread = {} /\ abandoned = {}
    /\ gap = [t \in Tasks |-> NoGap]
    /\ chunks = [k \in Keys |-> NewChunk]
    /\ pc = "idle" /\ todo = NoTodo /\ job = NoJob /\ safe = 0
    /\ cursor = 0
    /\ staged = EmptyFcn /\ net = {} /\ store = EmptyFcn
    /\ crashes = 0 /\ faults = 0
    /\ sent = {} /\ acked = {}
    /\ uncovered = {} /\ overtaken = {} /\ clobbered = {}
    /\ aborted = 0

-----------------------------------------------------------------------------
(* Writes *)

(* WalManager::flush succeeds: ops are the file's content and are t's to apply. *)
FlushFile(t, ops, req) ==
    /\ pending' = {}
    /\ wal' = Bind(wal, curSeq, ops)
    /\ curSeq' = curSeq + 1
    /\ gap' = [gap EXCEPT ![t] = [ops |-> ops, seq |-> curSeq, req |-> req]]
    /\ UNCHANGED <<late, unread, abandoned, faults>>

(* WalManager::flush fails: the taken operations are gone and the file may
   be there, torn; the next flush writes to the same name. *)
FlushFails ==
    /\ Fault
    /\ pending' = {}
    /\ \/ wal' = wal
       \/ wal' = Bind(wal, curSeq, {})
    /\ UNCHANGED <<curSeq, late, unread, abandoned, gap>>

(* The client goes away during the write and the HTTP server drops the handler,
   the WAL mutex with it.  The number is still the next one, and tokio::fs::write
   goes on in its blocking thread. *)
FlushAbandoned(ops) ==
    /\ Fault
    /\ pending' = {}
    /\ late' = late \cup {[seq |-> curSeq, ops |-> ops]}
    /\ abandoned' = abandoned \cup ops
    /\ UNCHANGED <<curSeq, wal, unread, gap>>

(* WriteHandler::handle up to the end of the WAL critical section: every
   batch fits, and together with what earlier requests left it is flushed. *)
Write(h, req) ==
    /\ Running /\ ~InGap(h)
    /\ req \cap sent = {}
    /\ Cardinality(pending \cup req) <= OpLimit
    /\ sent' = sent \cup req
    /\ \/ FlushFile(h, pending \cup req, req)
       \/ FlushFails
       \/ FlushAbandoned(pending \cup req)
    /\ UNCHANGED <<meta, chunks, schedVars, cursor, staged, net, store, crashes,
                   acked, uncovered, overtaken, clobbered, aborted>>

(* The limit is hit on the way: the batches that did fit stay pending, the
   client is told 503 and nothing is flushed. *)
WriteRejected(h, req) ==
    /\ Running /\ ~InGap(h)
    /\ req \cap sent = {}
    /\ Cardinality(pending \cup req) > OpLimit
    /\ \E fit \in SUBSET req :
          /\ Cardinality(pending \cup fit) = OpLimit
          /\ pending' = pending \cup fit
    /\ sent' = sent \cup req
    /\ UNCHANGED <<curSeq, wal, late, unread, abandoned, meta, gap, chunks, schedVars,
                   cursor, staged, net, store, crashes, faults, acked, uncovered, overtaken,
                   clobbered, aborted>>

(* An abandoned write gets to the disk, over whatever has its number by then.
   Truncated is what it leaves when it fails, when the process dies before it is
   done, and when another write to the file is under way. *)
LateWrite(w) ==
    /\ \E left \in {w.ops, {}} : wal' = Bind(wal, w.seq, left)
    /\ late' = late \ {w}
    /\ uncovered' = uncovered \cup (IF w.seq \in DOMAIN wal THEN wal[w.seq] ELSE {})
    /\ UNCHANGED <<pending, curSeq, unread, abandoned, meta, gap, chunks, schedVars, cursor,
                   staged, net, store, crashes, faults, sent, acked, overtaken,
                   clobbered, aborted>>

(* The first half of the periodic flush_and_apply. *)
Tick ==
    /\ Running /\ ~InGap(Ticker)
    /\ pending # {}
    /\ \/ FlushFile(Ticker, pending, {})
       \/ FlushFails
    /\ UNCHANGED <<meta, chunks, schedVars, cursor, staged, net, store, crashes,
                   sent, acked, uncovered, overtaken, clobbered, aborted>>

(* The buffer critical section of a write: apply the operations, answer 204.
   The history notes what this file overtakes. *)
Apply(t) ==
    /\ InGap(t)
    /\ chunks' = ApplyOps(chunks, gap[t].ops, gap[t].seq)
    /\ acked' = acked \cup gap[t].req
    /\ overtaken' = overtaken \cup
          UNION {gap[u].ops : u \in {v \in Tasks : gap[v].seq < gap[t].seq}}
    /\ gap' = [gap EXCEPT ![t] = NoGap]
    /\ UNCHANGED <<walVars, meta, schedVars, cursor, staged, net, store, crashes, faults,
                   sent, uncovered, clobbered, aborted>>

(* The client goes away while its handler waits for the buffer mutex: the
   HTTP server drops the handler there. *)
Disconnect(h) ==
    /\ InGap(h)
    /\ Fault
    /\ gap' = [gap EXCEPT ![h] = NoGap]
    /\ UNCHANGED <<walVars, meta, chunks, schedVars, cursor, staged, net, store,
                   crashes, sent, acked, uncovered, overtaken,
                   clobbered, aborted>>

-----------------------------------------------------------------------------
(* The scheduler task: snapshot cycles *)

(* do_snapshot selects the chunks below the end marker, under one lock. *)
SnapshotCollect(marker) ==
    LET closed(t) == {w \in Windows : <<t, w>> \in LiveKeys /\ w < marker}
    IN  /\ pc = "idle"
        /\ \E t \in Tables : closed(t) # {}
        /\ todo' = [t \in Tables |-> closed(t)]
        /\ pc' = "work"
        /\ UNCHANGED <<walVars, meta, gap, chunks, job, safe, cursor, staged, net,
                       store, history>>

(* ... and clones a table's chunks under another, to serialize them. *)
Capture(t) ==
    LET of(w)  == chunks[<<t, w>>]
        first  == Least(todo[t])
        newest == Greatest({of(w).hi : w \in todo[t]})
    IN  /\ pc = "work"
        /\ todo[t] # {}
        /\ \A w \in todo[t] : RowsOf(of(w)) \cap Unwritable = {}
        /\ job' = [table |-> t,
                   taken |-> [w \in Windows |->
                                IF w \in todo[t] THEN Len(of(w).rows) ELSE 0],
                   name |-> UploadName(t, first, newest, of(first).since),
                   stageName |-> <<t, first, newest>>,
                   rows |-> UNION {RowsOf(of(w)) : w \in todo[t]}]
        /\ todo' = [todo EXCEPT ![t] = {}]
        /\ pc' = "upload"
        /\ UNCHANGED <<walVars, meta, gap, chunks, safe, cursor, staged, net,
                       store, history>>

(* flush_chunks_to_parquet fails, and the cycle is abandoned: the captured rows have a
   number that is too large, or the table has got a column whose name is not one.  The
   rows stay in the buffer, and with them the reason to fail in every cycle. *)
CaptureFails(t) ==
    /\ pc = "work"
    /\ todo[t] # {}
    /\ \E w \in Windows : RowsOf(chunks[<<t, w>>]) \cap Unwritable # {}
    /\ pc' = "idle" /\ todo' = NoTodo
    /\ UNCHANGED <<walVars, meta, gap, chunks, job, safe, cursor, staged, net, store,
                   history>>

(* The backend stores a file under a name. *)
Store(name, rows) ==
    /\ store' = Put(store, name, rows)
    /\ clobbered' = clobbered \cup Clobbered(store, name, rows)

(* The upload ends in an error.  A request may still reach the server or S3
   after the agent gave up on it; a failed write to the local disk has
   perhaps truncated the file, which costs nothing of the rows to be written:
   they are buffered or staged. *)
UploadError(name, rows) ==
    \/ UNCHANGED <<net, store, clobbered>>
    \/ /\ Backend # "local"
       /\ net' = net \cup {[name |-> name, rows |-> rows]}
       /\ UNCHANGED <<store, clobbered>>
    \/ /\ Backend = "local"
       /\ store' = Put(store, name, {})
       /\ clobbered' = clobbered \cup Clobbered(store, name, rows)
       /\ UNCHANGED net

UploadOK ==
    /\ pc = "upload"
    /\ Store(job.name, job.rows)
    /\ pc' = "drain"
    /\ UNCHANGED <<walVars, meta, gap, chunks, todo, job, safe, cursor, staged, net,
                   crashes, faults, sent, acked, uncovered, overtaken, aborted>>

(* Mutant: the handoff follows a failed upload at once, nothing is staged. *)
UploadFailsUnstaged ==
    /\ pc = "upload"
    /\ Fault
    /\ UploadError(job.name, job.rows)
    /\ pc' = "drain"
    /\ UNCHANGED <<walVars, meta, gap, chunks, todo, job, safe, cursor, staged,
                   crashes, sent, acked, uncovered, overtaken, aborted>>

UploadFails ==
    /\ pc = "upload"
    /\ Fault
    /\ UploadError(job.name, job.rows)
    /\ pc' = "stage"
    /\ UNCHANGED <<walVars, meta, gap, chunks, todo, job, safe, cursor, staged,
                   crashes, sent, acked, uncovered, overtaken, aborted>>

(* staging_save: the rename replaces a file of the same name. *)
StageOK ==
    /\ pc = "stage"
    /\ staged' = Bind(staged, job.stageName, job.rows)
    /\ clobbered' = clobbered \cup
          (IF job.stageName \in DOMAIN staged
           THEN staged[job.stageName] \ job.rows ELSE {})
    /\ pc' = "drain"
    /\ UNCHANGED <<walVars, meta, gap, chunks, todo, job, safe, cursor, net, store,
                   crashes, faults, sent, acked, uncovered, overtaken, aborted>>

(* The rest of the cycle is abandoned, its chunks stay in the buffer. *)
StageFails ==
    /\ pc = "stage"
    /\ Fault
    /\ pc' = "idle" /\ todo' = NoTodo /\ job' = NoJob
    /\ aborted' = aborted + 1
    /\ UNCHANGED <<walVars, meta, gap, chunks, safe, cursor, staged, net, store,
                   crashes, sent, acked, uncovered, overtaken, clobbered>>

(* complete_chunk_handoff's critical section.  The history notes the files
   the watermark passes although a task has yet to apply them, or nobody has. *)
DrainedChunks ==
    [k \in Keys |-> IF k[1] = job.table THEN DrainChunk(chunks[k], job.taken[k[2]])
                    ELSE chunks[k]]

(* Mutants: the lowest live file counts as flushed; or all files do. *)
WatermarkHigh(cs, next) ==
    LET lows == {cs[k].lo : k \in {j \in Keys : cs[j].rows # << >>}}
    IN  IF lows = {} THEN Pred(next) ELSE Least(lows)

WatermarkAll(cs, next) == Pred(next)

Watermark(cs, next) ==
    LET lows == {cs[k].lo : k \in {j \in Keys : cs[j].rows # << >>}}
    IN  IF lows = {} THEN Pred(next) ELSE Pred(Least(lows))

Drain ==
    /\ pc = "drain"
    /\ chunks' = DrainedChunks
    /\ safe' = Watermark(DrainedChunks, curSeq)
    /\ uncovered' = uncovered
          \cup (UNION {gap[t].ops : t \in {u \in Tasks : gap[u].seq <= safe'}})
          \cup (UNION {wal[n] : n \in {m \in unread : m <= safe'}})
    /\ unread' = {n \in unread : safe' < n}
    /\ pc' = "meta" /\ job' = NoJob
    /\ UNCHANGED <<pending, curSeq, wal, late, abandoned, meta, gap, todo, cursor, staged,
                   net, store, crashes, faults, sent, acked, overtaken, clobbered, aborted>>

(* last_snapshot.json is truncated first and filled then. *)
MetaCreate ==
    /\ pc = "meta"
    /\ meta' = 0
    /\ pc' = "metawrite"
    /\ UNCHANGED <<walVars, gap, chunks, todo, job, safe, cursor, staged, net, store,
                   history>>

MetaWrite ==
    /\ pc = "metawrite"
    /\ meta' = safe
    /\ pc' = "clean"
    /\ UNCHANGED <<walVars, gap, chunks, todo, job, safe, cursor, staged, net, store,
                   history>>

(* When it is the sync that fails the file is written nevertheless. *)
MetaFails ==
    /\ pc \in {"meta", "metawrite"}
    /\ Fault
    /\ pc' = "idle" /\ todo' = NoTodo /\ safe' = 0
    /\ \/ meta' = meta
       \/ pc = "metawrite" /\ meta' = safe
    /\ UNCHANGED <<walVars, gap, chunks, job, cursor, staged, net, store,
                   crashes, sent, acked, uncovered, overtaken,
                   clobbered, aborted>>

(* WalManager::cleanup; a removal that fails is ignored. *)
Obsolete == {n \in DOMAIN wal : n <= safe}

Cleanup(files) ==
    /\ pc = "clean"
    /\ files \subseteq Obsolete
    /\ \/ files = Obsolete /\ UNCHANGED faults
       \/ files # Obsolete /\ Fault
    /\ wal' = Without(wal, files)
    /\ safe' = 0
    /\ pc' = IF \E t \in Tables : todo[t] # {} THEN "work" ELSE "idle"
    /\ UNCHANGED <<pending, curSeq, late, unread, abandoned, meta, gap, chunks, todo, job,
                   cursor, staged, net, store, crashes, sent, acked, uncovered, overtaken,
                   clobbered, aborted>>

-----------------------------------------------------------------------------
(* Staged files, and uploads that arrive late *)

(* Mutant: the retry forgets the sequence number in the file's name. *)
RetryNameLegacy(n) == UploadName(n[1], n[2], 0, n[2])

RetryName(n) == UploadName(n[1], n[2], n[3], n[2])

(* An error when the file is removed is ignored: it is uploaded again. *)
RetryOK(n) ==
    /\ pc = "idle"
    /\ Store(RetryName(n), staged[n])
    /\ \/ staged' = Without(staged, {n}) /\ UNCHANGED faults
       \/ Fault /\ UNCHANGED staged
    /\ UNCHANGED <<walVars, meta, gap, chunks, schedVars, cursor, net, crashes, sent,
                   acked, uncovered, overtaken, aborted>>

(* Mutant: the staged file goes although its upload failed. *)
RetryFailsUnkept(n) ==
    /\ pc = "idle"
    /\ Fault
    /\ UploadError(RetryName(n), staged[n])
    /\ staged' = Without(staged, {n})
    /\ UNCHANGED <<walVars, meta, gap, chunks, schedVars, cursor, crashes,
                   sent, acked, uncovered, overtaken, aborted>>

RetryFails(n) ==
    /\ pc = "idle"
    /\ Fault
    /\ UploadError(RetryName(n), staged[n])
    /\ UNCHANGED <<walVars, meta, gap, chunks, schedVars, cursor, staged, crashes,
                   sent, acked, uncovered, overtaken, aborted>>

Arrive(upload) ==
    /\ Store(upload.name, upload.rows)
    /\ net' = net \ {upload}
    /\ UNCHANGED <<walVars, meta, gap, chunks, schedVars, cursor, staged, crashes, faults,
                   sent, acked, uncovered, overtaken, aborted>>

(* Ctrl-C: the scheduler is dropped at an await, for the rest of this life, perhaps with
   a request on its way.  The handlers may go on for long (AgentLocks!Signal). *)
InFlight ==
    IF Backend = "local" THEN {}
    ELSE IF pc = "upload" THEN {[name |-> job.name, rows |-> job.rows]}
    ELSE IF pc = "idle" THEN {[name |-> RetryName(n), rows |-> staged[n]] : n \in DOMAIN staged}
    ELSE {}

Stop ==
    /\ pc \notin {"replay", "metawrite", "stopped"}
    /\ Fault
    /\ \/ net' = net
       \/ \E upload \in InFlight : net' = net \cup {upload}
    /\ pc' = "stopped" /\ todo' = NoTodo /\ job' = NoJob /\ safe' = 0
    /\ UNCHANGED <<walVars, meta, gap, chunks, cursor, staged, store, crashes, sent,
                   acked, uncovered, overtaken, clobbered, aborted>>

-----------------------------------------------------------------------------
(* Crash and recovery *)

(* Mutants: the next number ignores the watermark; or repeats the last one. *)
NextSeqOfFiles(files, watermark) == Greatest(files \cup {0}) + 1

NextSeqRepeated(files, watermark) == Greatest(files \cup {watermark})

NextSeq(files, watermark) == Greatest(files \cup {watermark}) + 1

(* The process dies and WalManager::new runs: files, staging directory, meta
   and what is on the network survive.  A WAL write under way leaves nothing
   (with it complete, the crash is one after the Write) or a torn file. *)
Crash ==
    /\ crashes < MaxCrashes
    /\ crashes' = crashes + 1
    /\ wal' \in {wal, Bind(wal, curSeq, {})}
    /\ curSeq' = NextSeq(DOMAIN wal', meta)
    /\ pending' = {} /\ late' = {} /\ unread' = {}
    /\ gap' = [t \in Tasks |-> NoGap]
    /\ chunks' = [k \in Keys |-> NewChunk]
    /\ pc' = "replay" /\ todo' = NoTodo /\ job' = NoJob /\ safe' = 0
    /\ cursor' = 0
    /\ UNCHANGED <<abandoned, meta, staged, net, store, faults, sent, acked, uncovered,
                   overtaken, clobbered, aborted>>

ToReplay == {n \in DOMAIN wal : n > meta /\ n > cursor}

(* WalManager::replay, one file; a torn file has nothing to apply. *)
ReplayFile ==
    /\ pc = "replay"
    /\ ToReplay # {}
    /\ cursor' = Least(ToReplay)
    /\ chunks' = ApplyOps(chunks, wal[cursor'], cursor')
    /\ UNCHANGED <<walVars, meta, gap, schedVars, staged, net, store, history>>

(* A file that cannot be read is skipped, and stays. *)
ReplaySkips ==
    /\ pc = "replay"
    /\ ToReplay # {}
    /\ Fault
    /\ cursor' = Least(ToReplay)
    /\ unread' = unread \cup {cursor'}
    /\ UNCHANGED <<pending, curSeq, wal, late, abandoned, meta, gap, chunks, schedVars,
                   staged, net, store, crashes, sent, acked, uncovered, overtaken,
                   clobbered, aborted>>

ReplayDone ==
    /\ pc = "replay"
    /\ ToReplay = {}
    /\ pc' = "idle" /\ cursor' = 0
    /\ UNCHANGED <<walVars, meta, gap, chunks, todo, job, safe, staged, net,
                   store, history>>

-----------------------------------------------------------------------------
Scheduler ==
    \/ \E w \in Windows : SnapshotCollect(w + 1)
    \/ \E t \in Tables : Capture(t) \/ CaptureFails(t)
    \/ UploadOK \/ UploadFails \/ StageOK \/ StageFails
    \/ Drain \/ MetaCreate \/ MetaWrite \/ MetaFails
    \/ \E files \in SUBSET DOMAIN wal : Cleanup(files)
    \/ \E n \in DOMAIN staged : RetryOK(n) \/ RetryFails(n)

Next ==
    \/ \E h \in Handlers, req \in Requests : Write(h, req) \/ WriteRejected(h, req)
    \/ Tick
    \/ \E w \in late : LateWrite(w)
    \/ \E t \in Tasks : Apply(t)
    \/ \E h \in Handlers : Disconnect(h)
    \/ Scheduler
    \/ \E upload \in net : Arrive(upload)
    \/ Stop
    \/ Crash \/ ReplayFile \/ ReplaySkips \/ ReplayDone

Spec == Init /\ [][Next]_vars

(***************************************************************************)
(* Fairness.  The scheduler task is a loop on a timer that retries each    *)
(* staged file and starts a cycle again and again, with a marker that ends *)
(* up past every window; handlers and the ticker only wait for a mutex;    *)
(* recovery is straight-line code.  So each does its next step at last.    *)
(* Since MaxFaults bounds what fails, an operation that is retried          *)
(* succeeds in the end.                                                     *)
(***************************************************************************)
Fairness ==
    /\ \A t \in Tasks : WF_vars(Apply(t))
    /\ WF_vars(\E w \in Windows :
                 (\A v \in Windows : v <= w) /\ SnapshotCollect(w + 1))
    /\ WF_vars(\E t \in Tables : Capture(t) \/ CaptureFails(t))
    /\ WF_vars(UploadOK \/ UploadFails \/ StageOK \/ StageFails)
    /\ WF_vars(Drain \/ MetaCreate \/ MetaWrite \/ MetaFails)
    /\ WF_vars(\E files \in SUBSET DOMAIN wal : Cleanup(files))
    /\ WF_vars(\E n \in DOMAIN staged : RetryOK(n))
    /\ WF_vars(ReplayFile \/ ReplaySkips \/ ReplayDone)

FairSpec == Spec /\ Fairness

-----------------------------------------------------------------------------
(* What the state is made of.  The WAL buffer never holds more than its limit. *)
Names == Tables \X Nat \X Nat

Job == [table : Tables, taken : [Windows -> Nat], name : Names,
        stageName : Names, rows : SUBSET Batches]

TypeOK ==
    /\ pending \subseteq Batches /\ Cardinality(pending) <= OpLimit
    /\ curSeq \in Nat \ {0}
    /\ DOMAIN wal \subseteq Nat \ {0} /\ wal \in [DOMAIN wal -> SUBSET Batches]
    /\ late \subseteq [seq : Nat \ {0}, ops : SUBSET Batches] /\ abandoned \subseteq Batches
    /\ unread \subseteq Nat
    /\ meta \in Nat /\ safe \in Nat /\ cursor \in Nat
    /\ crashes \in 0 .. MaxCrashes /\ faults \in 0 .. MaxFaults
    /\ gap \in [Tasks -> [ops : SUBSET Batches, seq : Nat, req : SUBSET Batches]]
    /\ chunks \in [Keys -> Chunk]
    /\ pc \in {"replay", "idle", "work", "upload", "stage", "drain", "meta",
               "metawrite", "clean", "stopped"}
    /\ todo \in [Tables -> SUBSET Windows]
    /\ job \in Job \cup {NoJob}
    /\ pc \in {"upload", "stage", "drain"} => job \in Job
    /\ DOMAIN staged \subseteq Names /\ staged \in [DOMAIN staged -> SUBSET Batches]
    /\ DOMAIN store \subseteq Names /\ store \in [DOMAIN store -> SUBSET Batches]
    /\ net \subseteq [name : Names, rows : SUBSET Batches]
    /\ sent \subseteq Batches /\ acked \subseteq Batches
    /\ uncovered \subseteq Batches /\ overtaken \subseteq Batches
    /\ clobbered \subseteq Batches /\ aborted \in Nat

-----------------------------------------------------------------------------
(* Safety *)

(* Files are never given a number again while it matters: a new WAL file
   replaces no file but one that is torn or that an abandoned write left, and
   replay does not skip it (the comment in WalManager::new). *)
FreshSequence ==
    /\ meta < curSeq
    /\ \A n \in DOMAIN wal : n < curSeq \/ (n = curSeq /\ wal[n] \subseteq abandoned)

(* Every row in the buffer comes back after a crash: it is in a WAL file above
   the watermark, unless a handoff passed it between its flush and its apply, or
   an abandoned write went over its file. *)
BufferedReplayable == Buffered \ uncovered \subseteq Replayable

(* An acknowledged row survives whatever happens to the process: it is
   delivered, staged or in a WAL file that a restart replays.  The exceptions
   are the four ways the code loses rows: a watermark that passes a row in the gap,
   or a file that recovery could not read, a WAL file that an abandoned write goes
   over, and a file name that holds other rows. *)
AckedSafe ==
    acked \ (uncovered \cup clobbered)
        \subseteq Delivered \cup Staged \cup Replayable

(* What these ways of losing rows have lost: as long as there is no crash a
   watermark or a WAL file costs nothing. *)
Lost == clobbered \cup (IF crashes = 0 THEN {} ELSE uncovered)

(* What is in the files that recovery skipped: it waits for the next restart, or for
   the watermark that deletes it. *)
Unread == UNION {wal[n] : n \in unread}

(* While the agent runs, an acknowledged row is on its way: buffered (the next cycle
   takes it), staged (the next retry takes it) or delivered; or it is Unread. *)
AckedReachable ==
    Running => acked \ Lost \subseteq Buffered \cup Staged \cup Delivered \cup Unread

(* Only captured rows leave the buffer of a running agent: what arrives in a chunk
   during its upload stays (complete_chunk_handoff).  And they leave only when they
   are stored or staged, or when their upload met a name that was taken. *)
HandoffKeepsRows ==
    [][pc' # "replay" =>
         Buffered \ Buffered' \subseteq
             job.rows \cap (Delivered \cup Staged \cup clobbered)]_vars

(* What the agent has or has delivered; during recovery, with what it will replay. *)
Custody ==
    Buffered \cup Staged \cup Delivered \cup Unread
        \cup (IF Running THEN {} ELSE UNION {wal[n] : n \in ToReplay})

(* To its clients the agent is a keeper of rows: cycles, staging, retries, late
   uploads, crashes and recovery are invisible, but for the rows noted as Lost. *)
RC == INSTANCE RowCustody WITH Items <- Batches, held <- Custody, lost <- Lost

RowsKept == RC!Spec

(* The backend is given one name for two different sets of rows only if files
   were applied out of order, or rows already uploaded were captured again,
   after a crash or because staging failed.  So it is with names that have the
   sequence number in them; S3's keys do not. *)
CollisionNeedsCause ==
    \A b \in clobbered :
        (\E o \in overtaken : TableOf[o] = TableOf[b]) \/ crashes > 0 \/ aborted > 0

(* A row is stored twice only if it was captured twice: retries and late
   arrivals are absorbed by the name, where it is the same for both. *)
DuplicateNeedsCause ==
    (\E n, m \in DOMAIN store : n # m /\ store[n] \cap store[m] # {})
        => crashes > 0 \/ aborted > 0

(* Liveness: an acknowledged row gets to the backend, as long as it is not lost in one
   of the ways AckedSafe names, or left in a file that recovery could not read; unless
   the scheduler was told to stop, or has an unwritable row to fail on in every cycle. *)
Stuck == Buffered \cap Unwritable # {}

AckedDelivered ==
    \A b \in Batches :
        b \in acked ~> \/ b \in Delivered \cup uncovered \cup clobbered \cup Unread
                       \/ pc = "stopped" \/ Stuck

-----------------------------------------------------------------------------
(* The inductive invariant behind the safety theorems, part by part. *)

(* A live chunk's sequence bounds are numbers of files already written. *)
BoundsInv ==
    /\ safe < curSeq /\ (pc = "replay" => safe = 0)
    /\ \A t \in Tasks : gap[t].seq < curSeq /\ (InGap(t) => 0 < gap[t].seq)
    /\ \A k \in Keys :
          /\ chunks[k].hi < curSeq
          /\ chunks[k].rows # << >> => 0 < chunks[k].lo /\ chunks[k].lo <= chunks[k].hi

(* An abandoned write goes to a number that was the next one then; none outlives
   the process, and recovery leaves the next number free. *)
LateInv ==
    /\ \A w \in late : w.seq <= curSeq /\ w.ops \subseteq abandoned
    /\ pc = "replay" => late = {} /\ \A n \in DOMAIN wal : n < curSeq

(* File n will be replayed, whatever the handoff under way or the next write does. *)
Kept(n) == n \in DOMAIN wal /\ n < curSeq /\ meta < n /\ safe < n

(* Recovery comes after a crash, and a file that it skipped is there until a watermark
   passes it. *)
UnreadInv ==
    /\ crashes = 0 => Running /\ unread = {}
    /\ \A n \in unread : Kept(n)

(* The file of a buffered row is no older than its chunk's low bound ... *)
BufferInv ==
    \A k \in Keys : \A b \in RowsOf(chunks[k]) \ uncovered :
        \E n \in DOMAIN wal : b \in wal[n] /\ Kept(n) /\ chunks[k].lo <= n

(* ... and that of a row in the gap has the number it will be applied with. *)
GapInv ==
    \A t \in Tasks :
        /\ gap[t].req \subseteq gap[t].ops
        /\ InGap(t) =>
             /\ Running
             /\ \/ gap[t].ops \subseteq uncovered
                \/ Kept(gap[t].seq) /\ wal[gap[t].seq] = gap[t].ops

(* What the handoff drains is in the capture, which is buffered until then, and the
   capture has a durable copy by then. *)
JobInv ==
    /\ pc \in {"upload", "stage", "drain"} =>
          \A w \in Windows :
              LET rows == chunks[<<job.table, w>>].rows
              IN  /\ job.taken[w] <= Len(rows)
                  /\ \A i \in 1 .. job.taken[w] : rows[i] \subseteq job.rows
    /\ pc \in {"upload", "stage", "drain"} => job.rows \subseteq Buffered
    /\ pc = "drain" => job.rows \subseteq Delivered \cup Staged \cup clobbered

(* Where an acknowledged row is; during recovery, perhaps in a file to come. *)
AckedInv ==
    \A b \in acked \ Lost :
        \/ b \in Buffered \cup Staged \cup Delivered \cup Unread
        \/ pc = "replay" /\ \E n \in ToReplay : b \in wal[n]

IInv ==
    /\ TypeOK /\ FreshSequence /\ BoundsInv /\ LateInv /\ UnreadInv /\ BufferInv /\ GapInv
    /\ JobInv /\ AckedInv

-----------------------------------------------------------------------------
(* What makes a collision or a second copy need a cause: the invariant behind
   CollisionNeedsCause and DuplicateNeedsCause. *)

(* The groups of a chunk that a capture may still take: those that came after the one
   under way, if there is one. *)
Capturing == pc \in {"upload", "stage", "drain"}

Taken(k) == IF Capturing /\ k[1] = job.table THEN job.taken[k[2]] ELSE 0

Later(k) == IF pc = "stopped" THEN {} ELSE (Taken(k) + 1) .. Len(chunks[k].rows)

(* What is to be uploaded, and all there is outside of the buffer. *)
Uploads ==
    net \cup {[name |-> RetryName(n), rows |-> staged[n]] : n \in DOMAIN staged}
        \cup (IF Capturing THEN {[name |-> job.name, rows |-> job.rows]} ELSE {})

Copies == Uploads \cup {[name |-> n, rows |-> store[n]] : n \in DOMAIN store}

(* Rows are where their table and window say, and so is what is to be captured. *)
SortedInv ==
    /\ \A k \in Keys : RowsOf(chunks[k]) \subseteq BatchesOf(k, Batches)
    /\ \A x \in Copies : \A b \in x.rows : TableOf[b] = x.name[1]
    /\ \A t \in Tables : \A w \in todo[t] : chunks[<<t, w>>].rows # << >>
    /\ Capturing => todo[job.table] = {} /\ job.stageName = job.name /\ job.name[1] = job.table

(* A row is in one place before it is applied, and then nowhere else; captured and
   drained, it is under one name. *)
OnceInv ==
    /\ pending \subseteq sent /\ Buffered \subseteq sent
    /\ \A t \in Tasks : gap[t].ops \subseteq sent /\ gap[t].ops \cap pending = {}
    /\ \A t, u \in Tasks : t # u => gap[t].ops \cap gap[u].ops = {}
    /\ Buffered \cap pending = {} /\ \A t \in Tasks : gap[t].ops \cap Buffered = {}
    /\ \A x \in Copies :
          /\ x.rows \subseteq sent /\ x.rows \cap pending = {}
          /\ \A t \in Tasks : gap[t].ops \cap x.rows = {}
          /\ \A k \in Keys : \A i \in Later(k) : chunks[k].rows[i] \cap x.rows = {}
          /\ \A y \in Copies : x.rows \cap y.rows # {} => x.name = y.name

(* No file was applied before an older one with rows of the table. *)
InOrder(t) == \A o \in overtaken : TableOf[o] # t

(* Then the rows in the gap are newer than whatever has been captured, and those of a
   chunk newer than what a file named after its window has. *)
OrderInv ==
    /\ \A t, u \in Tasks : t # u /\ InGap(t) /\ InGap(u) => gap[t].seq # gap[u].seq
    /\ \A x \in Copies : x.name[3] < curSeq
    /\ \A t \in Tasks : \A b \in gap[t].ops : InOrder(TableOf[b]) =>
          /\ \A k \in Keys : k[1] = TableOf[b] => chunks[k].hi < gap[t].seq
          /\ \A x \in Copies : x.name[1] = TableOf[b] => x.name[3] < gap[t].seq
    /\ \A k \in Keys : InOrder(k[1]) /\ Later(k) # {} =>
          \A x \in Copies :
              x.name[1] = k[1] /\ x.name[2] = k[2] => x.name[3] < chunks[k].hi

(* ... and a name is for one set of rows. *)
NameInv ==
    \A x \in Uploads : InOrder(x.name[1]) =>
        /\ \A y \in Uploads : x.name = y.name => x.rows = y.rows
        /\ x.name \in DOMAIN store =>
              store[x.name] = x.rows \/ (Backend = "local" /\ store[x.name] = {})

OnePass ==
    /\ Running /\ SortedInv /\ OnceInv /\ OrderInv /\ NameInv
    /\ \A b \in clobbered : ~InOrder(TableOf[b])

(* S3's names say nothing of the sequence. *)
PassInv == Backend # "s3" /\ crashes = 0 /\ aborted = 0 => OnePass

-----------------------------------------------------------------------------
(* What the comments of the source promise, and the code does not keep *)

(* flush_and_apply (wal_core.rs:739-743): no handoff cleans a WAL file whose
   rows are not yet part of a snapshot. *)
NoBufferedRowUncovered == Running => Buffered \subseteq Replayable

(* do_snapshot and upload_bytes (scheduler.rs:225-227, 374-378): names of
   uploads never collide. *)
NamesNeverCollide == clobbered = {}
=============================================================================
