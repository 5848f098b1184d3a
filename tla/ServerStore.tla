---------------------------- MODULE ServerStore ----------------------------
(***************************************************************************)
(* The server's Parquet files: the ingest endpoint that stores what agents *)
(* upload, the compaction task that merges small files, the tombstones and *)
(* row counts both keep in SQLite, and restarts of the server.             *)
(*                                                                         *)
(* An upload is a file's worth of rows for one table under one name; that  *)
(* an agent never gives two uploads of a table one name is AgentIngest's    *)
(* concern.  A file on disk is identified with the set of uploads its name  *)
(* stands for: {u} is u's own file, a larger set a compacted one, whose     *)
(* name is a hash of the names of the files merged (taken to be injective). *)
(* Steps of a handler are separate where it awaits or touches the disk:     *)
(* tasks run on several threads.                                            *)
(*                                                                         *)
(* Left out: sizes (every file is small, and they never add up to the       *)
(* target), time ranges and field lists, the registration of tables and     *)
(* agents that ends an upload (idempotent, its errors are ignored), what a  *)
(* power cut does to SQLite and to deletions not yet on disk.  A directory  *)
(* is listed in one step.                                                   *)
(***************************************************************************)
EXTENDS Integers, FiniteSets

CONSTANTS
    Uploads,    \* what the agents have to upload
    Tables,     \* the (database, table) pairs
    Names,      \* the file names, agent_window_sequence.parquet
    TableOf,    \* the table of an upload
    NameOf,     \* the name of an upload's file
    Handlers,   \* the tasks serving POST /api/v1/ingest/parquet
    NoUpload,   \* what an idle handler serves
    PowerCuts,  \* whether a restart may be one after a power cut
    MaxCrashes, \* bound: how often the server may go down
    MaxFaults   \* bound: how often something else may go wrong

ASSUME StoreAssumption ==
    /\ TableOf \in [Uploads -> Tables]
    /\ NameOf \in [Uploads -> Names]
    /\ \A u, v \in Uploads : TableOf[u] = TableOf[v] /\ NameOf[u] = NameOf[v] => u = v
    /\ IsFiniteSet(Uploads) /\ NoUpload \notin Uploads
    /\ PowerCuts \in BOOLEAN
    /\ MaxCrashes \in Nat /\ MaxFaults \in Nat

VARIABLES
    whole,     \* the files on disk with all their content
    torn,      \* those with part of it, or none
    unsynced,  \* those a power cut may tear
    tombs,     \* compaction_tombstones: names of files merged away
    total,     \* tables.total_rows, in uploads
    req,       \* what each handler is doing
    cpc,       \* what the compaction task does next
    cycle,     \* the tables its cycle has yet to visit
    table,     \* the table it works on
    inputs,    \* the uploads whose files it merges
    left,      \* those whose files it has yet to remove
    scan,      \* the rows it counted
    crashes,   \* number of restarts so far
    faults,    \* number of other mishaps so far
    acked,     \* history: the uploads whose agent has been told 200
    lost,      \* history: given up, or answered 200 without being readable
    spoiled,   \* history: sent twice at once, or their file's writing failed
    unmarked,  \* history: merged without a tombstone that every retry sees
    skewed     \* history: tables whose count was disturbed

diskVars    == <<whole, torn, unsynced>>
compactVars == <<cpc, cycle, table, inputs, left, scan>>
history     == <<acked, lost, spoiled, unmarked, skewed>>
vars == <<whole, torn, unsynced, tombs, total, req, cpc, cycle, table, inputs, left,
          scan, crashes, faults, acked, lost, spoiled, unmarked, skewed>>

-----------------------------------------------------------------------------
Files == whole \cup torn

Readable == UNION whole

(* What recount_table counts: a row once for each file it is in. *)
RowCount(t) == Cardinality({p \in whole \X Uploads : p[2] \in p[1] /\ TableOf[p[2]] = t})

SharesName(u) == \E v \in Uploads \ {u} : NameOf[v] = NameOf[u]

Tombstoned(u) == NameOf[u] \in tombs

Idle == [pc |-> "idle", up |-> NoUpload, live |-> FALSE]

Serving(h, place) == req[h].pc = place

Goto(h, place) == req' = [req EXCEPT ![h].pc = place]

(* The merged files of u's swap are being removed, and no tombstone is there. *)
InSwap(u) == u \in inputs /\ cpc \in {"remove", "mark"}

Fault == faults < MaxFaults /\ faults' = faults + 1

Init ==
    /\ whole = {} /\ torn = {} /\ unsynced = {}
    /\ tombs = {} /\ total = [t \in Tables |-> 0]
    /\ req = [h \in Handlers |-> Idle]
    /\ cpc = "idle" /\ cycle = {} /\ table \in Tables
    /\ inputs = {} /\ left = {} /\ scan = 0
    /\ crashes = 0 /\ faults = 0
    /\ acked = {} /\ lost = {} /\ spoiled = {} /\ unmarked = {} /\ skewed = {}

-----------------------------------------------------------------------------
(* The agents: upload until told 200, then delete the copy.  An agent that  *)
(* gave up sends again while the old request may still be served; one that  *)
(* could not delete its copy sends what was acknowledged.                   *)

Send(h, u) ==
    LET others == {g \in Handlers : req[g].up = u}
    IN  /\ Serving(h, "idle")
        /\ \A g \in others : ~req[g].live
        /\ IF u \in acked THEN Fault ELSE UNCHANGED faults
        /\ req' = [req EXCEPT ![h] = [pc |-> "check", up |-> u, live |-> TRUE]]
        /\ IF others = {} THEN UNCHANGED <<spoiled, unmarked, skewed>>
           ELSE /\ spoiled' = spoiled \cup {u}
                /\ unmarked' = unmarked \cup {u}
                /\ skewed' = skewed \cup {TableOf[u]}
        /\ UNCHANGED <<diskVars, tombs, total, compactVars, crashes, acked, lost>>

GiveUp(h) ==
    /\ req[h].live
    /\ Fault
    /\ req' = [req EXCEPT ![h].live = FALSE]
    /\ UNCHANGED <<diskVars, tombs, total, compactVars, crashes, history>>

(* The HTTP server drops the handler of a connection that is gone, where the
   handler awaits: the body, the tombstone query, the statistics, the rest. *)
Cancel(h) ==
    /\ ~req[h].live
    /\ req[h].pc \in {"check", "tomb", "update", "ok", "err"}
    /\ req' = [req EXCEPT ![h] = Idle]
    /\ skewed' = skewed \cup
          (IF Serving(h, "update") THEN {TableOf[req[h].up]} ELSE {})
    /\ UNCHANGED <<diskVars, tombs, total, compactVars, crashes, faults, acked, lost,
                   spoiled, unmarked>>

-----------------------------------------------------------------------------
(* IngestApiHandler::handle *)

(* Mutant: a file that exists is written again. *)
CheckBlind(h) ==
    /\ Serving(h, "check")
    /\ Goto(h, "tomb")
    /\ UNCHANGED <<diskVars, tombs, total, compactVars, crashes, faults, history>>

(* A name that exists is answered 200 at once, whatever is in the file. *)
Check(h) ==
    LET u == req[h].up
    IN  /\ Serving(h, "check")
        /\ \/ {u} \in Files /\ Goto(h, "ok") /\ lost' = lost \cup ({u} \ Readable)
           \/ {u} \notin Files /\ Goto(h, "tomb") /\ UNCHANGED lost
        /\ UNCHANGED <<diskVars, tombs, total, compactVars, crashes, faults, acked,
                       spoiled, unmarked, skewed>>

TombSkip(h) ==
    LET u == req[h].up
    IN  /\ Serving(h, "tomb")
        /\ Tombstoned(u)
        /\ Goto(h, "ok")
        /\ lost' = lost \cup ({u} \ Readable)
        /\ UNCHANGED <<diskVars, tombs, total, compactVars, crashes, faults, acked,
                       spoiled, unmarked, skewed>>

(* An error of the query counts as no tombstone. *)
TombPass(h) ==
    LET u == req[h].up
    IN  /\ Serving(h, "tomb")
        /\ \/ ~Tombstoned(u) /\ UNCHANGED faults
           \/ Tombstoned(u) /\ Fault
        /\ Goto(h, "create")
        /\ unmarked' = unmarked \cup (IF Tombstoned(u) \/ InSwap(u) THEN {u} ELSE {})
        /\ UNCHANGED <<diskVars, tombs, total, compactVars, crashes, acked, lost,
                       spoiled, skewed>>

(* File::create truncates what another request may have written. *)
Create(h) ==
    LET u == req[h].up
    IN  /\ Serving(h, "create")
        /\ whole' = whole \ {{u}}
        /\ torn' = torn \cup {{u}}
        /\ lost' = lost \cup (Readable \ Readable')
        /\ Goto(h, "write")
        /\ UNCHANGED <<unsynced, tombs, total, compactVars, crashes, faults, acked,
                       spoiled, unmarked, skewed>>

CreateFails(h) ==
    /\ Serving(h, "create")
    /\ Fault
    /\ Goto(h, "err")
    /\ UNCHANGED <<diskVars, tombs, total, compactVars, crashes, history>>

(* write_all, sync_all and the sync of the directory. *)
Write(h) ==
    LET u == req[h].up
    IN  /\ Serving(h, "write")
        /\ whole' = whole \cup {{u}}
        /\ torn' = torn \ {{u}}
        /\ unsynced' = unsynced \ {{u}}
        /\ Goto(h, "stats")
        /\ UNCHANGED <<tombs, total, compactVars, crashes, faults, history>>

(* ... to a file that compaction removed since it was created. *)
WriteDetached(h) ==
    /\ Serving(h, "detached")
    /\ Goto(h, "stats")
    /\ UNCHANGED <<diskVars, tombs, total, compactVars, crashes, faults, history>>

(* The file stays as it is, under its final name: with part of its content, or
   with all of it but not synced. *)
WriteFails(h) ==
    LET u == req[h].up
    IN  /\ Serving(h, "write")
        /\ Fault
        /\ \/ UNCHANGED diskVars
           \/ /\ whole' = whole \cup {{u}}
              /\ torn' = torn \ {{u}}
              /\ unsynced' = unsynced \cup {{u}}
        /\ Goto(h, "err")
        /\ spoiled' = spoiled \cup {u}
        /\ skewed' = skewed \cup {TableOf[u]}
        /\ UNCHANGED <<tombs, total, compactVars, crashes, acked, lost, unmarked>>

(* read_parquet_stats; its error is ignored and leaves nothing to add. *)
ReadStats(h) ==
    /\ Serving(h, "stats")
    /\ Goto(h, IF {req[h].up} \in whole THEN "update" ELSE "ok")
    /\ UNCHANGED <<diskVars, tombs, total, compactVars, crashes, faults, history>>

(* update_stats accumulates; its error is ignored.  The count is disturbed if
   a recount has scanned the files and not yet replaced the count. *)
UpdateStats(h) ==
    LET its == TableOf[req[h].up]
    IN  /\ Serving(h, "update")
        /\ \/ total' = [total EXCEPT ![its] = @ + 1] /\ UNCHANGED faults
           \/ UNCHANGED total /\ Fault
        /\ Goto(h, "ok")
        /\ skewed' = skewed \cup
              (IF faults' # faults \/ (cpc = "recount" /\ table = its) THEN {its} ELSE {})
        /\ UNCHANGED <<diskVars, tombs, compactVars, crashes, acked, lost, spoiled,
                       unmarked>>

Respond(h) ==
    /\ req[h].pc \in {"ok", "err"}
    /\ req' = [req EXCEPT ![h] = Idle]
    /\ acked' = acked \cup
          (IF Serving(h, "ok") /\ req[h].live THEN {req[h].up} ELSE {})
    /\ UNCHANGED <<diskVars, tombs, total, compactVars, crashes, faults, lost, spoiled,
                   unmarked, skewed>>

Handle(h) ==
    \/ Check(h) \/ TombSkip(h) \/ TombPass(h) \/ Create(h) \/ CreateFails(h)
    \/ Write(h) \/ WriteDetached(h) \/ WriteFails(h)
    \/ ReadStats(h) \/ UpdateStats(h) \/ Respond(h)

-----------------------------------------------------------------------------
(* CompactionScheduler::run_once *)

(* The cycle starts with pruning: that a tombstone is seven days old is one of
   the mishaps. *)
CycleStart(old) ==
    /\ cpc = "idle"
    /\ old \subseteq tombs
    /\ IF old = {} THEN UNCHANGED faults ELSE Fault
    /\ tombs' = tombs \ old
    /\ unmarked' = unmarked \cup {u \in Uploads : NameOf[u] \in old}
    /\ cycle' = Tables
    /\ cpc' = "list"
    /\ UNCHANGED <<diskVars, total, req, table, inputs, left, scan, crashes, acked,
                   lost, spoiled, skewed>>

(* Mutant: the small files of every table. *)
SmallFilesAll(t) == {u \in Uploads : {u} \in Files}

(* The small files of a table; one or none are left alone. *)
SmallFiles(t) == {u \in Uploads : {u} \in Files /\ TableOf[u] = t}

List(t) ==
    /\ cpc = "list"
    /\ t \in cycle
    /\ cycle' = cycle \ {t}
    /\ IF \E u, v \in SmallFiles(t) : u # v
       THEN inputs' = SmallFiles(t) /\ table' = t /\ cpc' = "merge"
       ELSE UNCHANGED <<inputs, table, cpc>>
    /\ UNCHANGED <<diskVars, tombs, total, req, left, scan, crashes, faults, history>>

CycleDone ==
    /\ cpc = "list"
    /\ cycle = {}
    /\ cpc' = "idle"
    /\ UNCHANGED <<diskVars, tombs, total, req, cycle, table, inputs, left, scan,
                   crashes, faults, history>>

(* Read the files and write compacted_*.parquet.tmp. *)
Merge ==
    /\ cpc = "merge"
    /\ \A u \in inputs : {u} \in whole
    /\ cpc' = "rename"
    /\ UNCHANGED <<diskVars, tombs, total, req, cycle, table, inputs, left, scan,
                   crashes, faults, history>>

(* A file without its footer cannot be read; the error ends the whole cycle. *)
MergeFails ==
    /\ \/ cpc = "merge" /\ (\E u \in inputs : {u} \in torn) /\ UNCHANGED faults
       \/ cpc \in {"merge", "rename"} /\ Fault
    /\ cpc' = "idle" /\ cycle' = {} /\ inputs' = {}
    /\ UNCHANGED <<diskVars, tombs, total, req, table, left, scan, crashes, history>>

(* Mutant: the originals go although the rename failed. *)
RenameUnchecked ==
    /\ cpc = "rename"
    /\ left' = inputs
    /\ cpc' = "remove"
    /\ UNCHANGED <<diskVars, tombs, total, req, cycle, table, inputs, scan, crashes,
                   faults, history>>

Rename ==
    /\ cpc = "rename"
    /\ whole' = whole \cup {inputs}
    /\ torn' = torn \ {inputs}
    /\ unsynced' = unsynced \cup {inputs}
    /\ left' = inputs
    /\ cpc' = "remove"
    /\ UNCHANGED <<tombs, total, req, cycle, table, inputs, scan, crashes, faults,
                   history>>

(* One merged file is removed, or an error is ignored.  Whoever has it open goes
   on writing to a file that is in no directory. *)
Remove(u) ==
    /\ cpc = "remove"
    /\ u \in left
    /\ left' = left \ {u}
    /\ cpc' = IF left' = {} THEN "mark" ELSE "remove"
    /\ \/ /\ whole' = whole \ {{u}} /\ torn' = torn \ {{u}}
          /\ unsynced' = unsynced \ {{u}}
          /\ req' = [h \in Handlers |->
                       IF req[h].up = u /\ Serving(h, "write")
                       THEN [req[h] EXCEPT !.pc = "detached"] ELSE req[h]]
          /\ UNCHANGED <<faults, unmarked>>
       \/ /\ Fault
          /\ unmarked' = unmarked \cup {u}
          /\ UNCHANGED <<diskVars, req>>
    /\ UNCHANGED <<tombs, total, cycle, table, inputs, scan, crashes, acked, lost,
                   spoiled, skewed>>

(* Mutant: nothing is recorded about the merged files. *)
MarkNothing(us) ==
    /\ cpc = "mark"
    /\ us = inputs
    /\ cpc' = "scan"
    /\ UNCHANGED <<diskVars, tombs, total, req, cycle, table, inputs, left, scan,
                   crashes, faults, history>>

(* tombstone_files inserts one name after the other and stops at an error. *)
Mark(us) ==
    /\ cpc = "mark"
    /\ us \subseteq inputs
    /\ IF us = inputs THEN UNCHANGED faults ELSE Fault
    /\ tombs' = tombs \cup {NameOf[u] : u \in us}
    /\ unmarked' = unmarked \cup (inputs \ us)
    /\ cpc' = "scan"
    /\ UNCHANGED <<diskVars, total, req, cycle, table, inputs, left, scan, crashes,
                   acked, lost, spoiled, skewed>>

(* recount_table scans the directory: it counts the file of an upload that is
   still to be added to the count. *)
Scan ==
    /\ cpc = "scan"
    /\ scan' = RowCount(table)
    /\ cpc' = "recount"
    /\ skewed' = skewed \cup
          (IF \E h \in Handlers : req[h].pc \in {"stats", "update"} /\ TableOf[req[h].up] = table
           THEN {table} ELSE {})
    /\ UNCHANGED <<diskVars, tombs, total, req, cycle, table, inputs, left, crashes,
                   faults, acked, lost, spoiled, unmarked>>

(* Mutant: the recount accumulates, as update_stats does. *)
RecountAdds ==
    /\ cpc = "recount"
    /\ total' = [total EXCEPT ![table] = @ + scan]
    /\ cpc' = "list" /\ inputs' = {} /\ scan' = 0
    /\ UNCHANGED <<diskVars, tombs, req, cycle, table, left, crashes, faults, history>>

(* ... and then replaces the count, or fails to. *)
Recount ==
    /\ cpc = "recount"
    /\ \/ /\ total' = [total EXCEPT ![table] = scan]
          /\ UNCHANGED <<faults, skewed>>
       \/ Fault /\ skewed' = skewed \cup {table} /\ UNCHANGED total
    /\ cpc' = "list" /\ inputs' = {} /\ scan' = 0
    /\ UNCHANGED <<diskVars, tombs, req, cycle, table, left, crashes, acked, lost,
                   spoiled, unmarked>>

Compact ==
    \/ \E old \in SUBSET tombs : CycleStart(old)
    \/ \E t \in Tables : List(t)
    \/ CycleDone
    \/ Merge \/ MergeFails \/ Rename
    \/ \E u \in left : Remove(u)
    \/ \E us \in SUBSET inputs : Mark(us)
    \/ Scan \/ Recount

-----------------------------------------------------------------------------
(* The server goes down and comes up: files, tombstones and counts are there,  *)
(* tasks are not.  A power cut tears files of which nothing was synced.        *)
Down(cut) ==
    LET open(places) == {req[h].up : h \in {g \in Handlers : req[g].pc \in places}}
    IN  /\ crashes < MaxCrashes
        /\ crashes' = crashes + 1
        /\ cut \subseteq unsynced \cap whole
        /\ cut = {} \/ PowerCuts
        /\ whole' = whole \ cut
        /\ torn' = torn \cup cut
        /\ unsynced' = {}
        /\ lost' = lost \cup (Readable \ Readable')
        /\ req' = [h \in Handlers |-> Idle]
        /\ cpc' = "idle" /\ cycle' = {} /\ inputs' = {} /\ left' = {} /\ scan' = 0
        /\ spoiled' = spoiled \cup open({"write"}) \cup UNION cut
        /\ unmarked' = unmarked \cup
              (IF cpc \in {"remove", "mark"} THEN inputs ELSE {}) \cup UNION cut
        /\ skewed' = skewed \cup
              {TableOf[u] : u \in open({"stats", "update"}) \cup UNION cut} \cup
              (IF cpc \in {"remove", "mark", "scan", "recount"} THEN {table} ELSE {})
        /\ UNCHANGED <<tombs, total, table, faults, acked>>

Next ==
    \/ \E h \in Handlers : (\E u \in Uploads : Send(h, u)) \/ GiveUp(h) \/ Cancel(h)
    \/ \E h \in Handlers : Handle(h)
    \/ Compact
    \/ \E cut \in SUBSET unsynced : Down(cut)

Spec == Init /\ [][Next]_vars

-----------------------------------------------------------------------------
Request == [pc : {"idle", "check", "tomb", "create", "write", "detached", "stats",
                  "update", "ok", "err"},
            up : Uploads \cup {NoUpload}, live : BOOLEAN]

(* What the state is made of.  A file holds rows of one table. *)
TypeOK ==
    /\ whole \subseteq SUBSET Uploads /\ torn \subseteq SUBSET Uploads
    /\ \A f \in Files : \A u, v \in f : TableOf[u] = TableOf[v]
    /\ unsynced \subseteq Files
    /\ tombs \subseteq Names
    /\ total \in [Tables -> Nat]
    /\ req \in [Handlers -> Request]
    /\ \A h \in Handlers : Serving(h, "idle") <=> req[h].up = NoUpload
    /\ cpc \in {"idle", "list", "merge", "rename", "remove", "mark", "scan", "recount"}
    /\ cycle \subseteq Tables /\ table \in Tables
    /\ inputs \subseteq Uploads /\ left \subseteq inputs /\ scan \in Nat
    /\ \A u \in inputs : TableOf[u] = table
    /\ cpc = "remove" \/ left = {}
    /\ crashes \in 0 .. MaxCrashes /\ faults \in 0 .. MaxFaults
    /\ acked \subseteq Uploads /\ lost \subseteq Uploads /\ spoiled \subseteq Uploads
    /\ unmarked \subseteq Uploads /\ skewed \subseteq Tables

-----------------------------------------------------------------------------
(* Files, merges, tombstones and retries are invisible from outside: but for
   the ways of losing an upload noted in lost, the server is a store that
   keeps what it holds and acknowledges what it keeps. *)
RC == INSTANCE RowCustody WITH Items <- Uploads, held <- Readable

StoreKept == RC!Spec

(* An upload is given up, or answered 200 without being readable, only if it
   was sent twice at once, its writing failed or was cut short, or an upload
   of another table has the same file name. *)
LossNeedsCause == \A u \in lost : u \in spoiled \/ SharesName(u)

(* A row is in one readable file, except for the files a swap is removing, and
   for uploads that a retry could bring back because no tombstone said no. *)
DuplicateNeedsCause ==
    \A u \in Uploads \ unmarked : \A f, g \in whole :
        u \in f \cap g => f = g \/ (cpc = "remove" /\ u \in left /\ {f, g} = {{u}, inputs})

(* When nobody is at work on a table its row count is that of its files, unless
   a restart, an error, a dropped request or a recount interfered. *)
Quiet(t) ==
    /\ \A h \in Handlers : req[h].up # NoUpload => TableOf[req[h].up] # t
    /\ cpc \in {"idle", "list", "merge", "rename"} \/ table # t

CountNeedsCause ==
    \A t \in Tables \ skewed : Quiet(t) => total[t] = RowCount(t)

-----------------------------------------------------------------------------
(* The inductive invariant behind the theorems. *)

(* A request that got past the checks and the writing is held. *)
HeldInv ==
    /\ acked \subseteq Readable \cup lost
    /\ \A h \in Handlers :
          req[h].pc \in {"detached", "stats", "update", "ok"} =>
              req[h].up \in Readable \cup lost

(* A compacted file is never one upload's own file, and it is there, readable,
   for as long as files are removed. *)
SwapInv ==
    /\ cpc \in {"merge", "rename", "remove"} => \A u \in Uploads : inputs # {u}
    /\ cpc = "remove" => inputs \in whole

IInv == TypeOK /\ HeldInv /\ SwapInv

-----------------------------------------------------------------------------
(* What makes a loss or a second copy need a cause: the invariant behind
   LossNeedsCause and DuplicateNeedsCause. *)

Merged(f) == \A u \in Uploads : f # {u}

(* f is the compacted file of the swap under way, which has yet to remove u's. *)
Swapping(u, f) == cpc = "remove" /\ u \in left /\ f = inputs

(* Two requests for one upload are known to be two. *)
TwiceInv ==
    \A g, h \in Handlers :
        g # h /\ req[g].up = req[h].up => req[g].up \in {NoUpload} \cup (spoiled \cap unmarked)

(* A request that found no file finds none later, unless another one makes it; it
   writes to a file that is there, of an upload that was not merged. *)
Placed(h) ==
    LET u == req[h].up
    IN  /\ req[h].pc \in {"tomb", "create"} /\ {u} \in Files => u \in spoiled \cap unmarked
        /\ Serving(h, "write") => {u} \in Files
        /\ req[h].pc \in {"create", "write"} =>
              \A f \in whole : u \in f /\ Merged(f) => u \in unmarked \/ Swapping(u, f)

PlaceInv == \A h \in Handlers : Placed(h)

(* A torn file is being written, or its upload is spoiled; a tombstone is for rows
   that are readable. *)
TornInv ==
    \A u \in Uploads :
        /\ {u} \in torn => u \in spoiled \/ \E h \in Handlers : Serving(h, "write") /\ req[h].up = u
        /\ Tombstoned(u) => SharesName(u) \/ u \in spoiled \/ u \in Readable

(* What is in a compacted file has no file of its own, is in no other compacted file,
   and has a tombstone. *)
MergedInv ==
    \A u \in Uploads \ unmarked : \A f \in whole :
        u \in f /\ Merged(f) =>
            /\ {u} \in Files => Swapping(u, f)
            /\ Tombstoned(u) \/ (cpc \in {"remove", "mark"} /\ f = inputs)
            /\ \A g \in whole : u \in g /\ Merged(g) => f = g

(* The files to be merged stay until they are removed. *)
MergeInv ==
    /\ cpc \in {"merge", "rename"} => \A u \in inputs : {u} \in Files
    /\ cpc = "remove" => \A u \in left : {u} \in Files
    /\ cpc \in {"remove", "mark"} => inputs \in whole /\ Merged(inputs)

Causes == TwiceInv /\ PlaceInv /\ TornInv /\ MergedInv /\ MergeInv

CauseInv == Causes /\ LossNeedsCause

(* What makes a wrong count need a cause: the invariant behind CountNeedsCause. *)

(* The uploads of t that are on disk, or were, and are still to be added to the count. *)
Due(t) ==
    {u \in Uploads : TableOf[u] = t /\ \E h \in Handlers :
        req[h].up = u /\ (Serving(h, "update") \/ (Serving(h, "stats") /\ {u} \in whole))}

(* Two requests for one upload, and one whose file somebody else made, are noted. *)
AloneInv ==
    /\ \A g, h \in Handlers :
          g # h /\ req[g].up = req[h].up /\ req[g].up # NoUpload => TableOf[req[g].up] \in skewed
    /\ \A h \in Handlers :
          LET u == req[h].up IN
          /\ req[h].pc \in {"tomb", "create"} /\ {u} \in Files => TableOf[u] \in skewed
          /\ req[h].pc \in {"write", "detached"} /\ {u} \in whole => TableOf[u] \in skewed

(* The count of a table and what is still to be added make what its files hold; not
   while merged files are removed, and then it is the scan that has the count. *)
Counted(t) ==
    /\ cpc \in {"idle", "list", "merge", "rename"} \/ table # t
          => total[t] + Cardinality(Due(t)) = RowCount(t)
    /\ cpc = "recount" /\ table = t => scan + Cardinality(Due(t)) = RowCount(t)

CountInv == AloneInv /\ \A t \in Tables \ skewed : Counted(t)

=============================================================================
