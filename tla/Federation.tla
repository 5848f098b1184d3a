---------------------------- MODULE Federation -----------------------------
(***************************************************************************)
(* Queries at the server, while rows move from the agents' buffers into its *)
(* files.  A query of mode "history" reads the files; "buffer" reads what   *)
(* the agents still hold; "all" reads both.  For the last two a query takes *)
(* the federation lock, asks the agents for its tables one after the other, *)
(* puts providers of its own into the catalog that all queries share,       *)
(* plans, and puts back what was there.  It executes its plan later,        *)
(* without the lock.                                                        *)
(*                                                                         *)
(* A query is named by the slot of the semaphore it holds.  The response    *)
(* counts how often each row was read; what SQL makes of the rows is        *)
(* DataFusion's.                                                            *)
(***************************************************************************)
EXTENDS TimeFilter, Sequences, FiniteSets

CONSTANTS
    Slots,      \* permits of query_slots
    Tables, Rows, Agents,
    RowTable, RowAgent, RowTime,
    Starts,     \* bound: the rows in buffers, and in files, when the server starts
    Moving,     \* bound: the rows that move on from where they start
    Requests,   \* what clients ask: see RequestOK
    MaxQueries, \* bound: how many queries are sent
    MaxDrops,   \* bound: how many requests time out, or lose their client
    Nobody      \* the holder of a lock nobody holds

Modes == {"history", "buffer", "all"}

(* A request has a mode and a statement.  The statement reads the tables its
   FROM clauses name, in order of appearance, and others that
   extract_table_names does not find: those in subqueries of an expression, and
   those with the name of a CTE.  Its terms are about the `time` of a table. *)
RequestOK(s) ==
    /\ s.mode \in Modes
    /\ s.named \in Seq(Tables) /\ s.hidden \subseteq Tables
    /\ \A i, j \in DOMAIN s.named : s.named[i] = s.named[j] => i = j
    /\ \A i \in DOMAIN s.named : s.named[i] \notin s.hidden
    /\ \A x \in s.where : x.op \in {"lt", "le", "gt", "ge", "other"} /\ x.value \in Times

ASSUME FederationAssumption ==
    /\ RowTable \in [Rows -> Tables]
    /\ RowAgent \in [Rows -> Agents]
    /\ RowTime \in [Rows -> Times]
    /\ Starts \subseteq (SUBSET Rows) \X (SUBSET Rows)
    /\ Moving \subseteq Rows
    /\ Requests # {} /\ \A s \in Requests : RequestOK(s)
    /\ MaxQueries \in Nat /\ MaxDrops \in Nat
    /\ Nobody \notin Slots

Named(s) == {s.named[i] : i \in DOMAIN s.named}
Reads(s) == Named(s) \cup s.hidden

(* The WHERE clause is applied again to every row that is read. *)
Wanted(s, r) ==
    /\ RowTable[r] \in Reads(s)
    /\ Satisfies(RowTime[r], {x \in s.where : x.on = RowTable[r]})

(* What a name in the catalog stands for: the table's files, row sets in
   memory, or both. *)
Provider(files, mems) == [files |-> files, mems |-> mems]
Absent    == Provider(FALSE, << >>)
Listing   == Provider(TRUE, << >>)
Memory(R) == Provider(FALSE, <<R>>)
Union(p, R) == Provider(p.files, Append(p.mems, R))

Transient(p) == p.mems # << >>

VARIABLES
    buffered, staged, stored, \* where the rows are; a row may be in several
    landing,  \* rows whose upload is not answered yet, with the file written
    mapped,   \* agent_tables: which agents have rows of which table
    catalog,  \* the tables of the session all queries share
    writer,   \* the query that holds the federation lock for writing
    at,       \* where each query is
    job,      \* what it carries
    leaked,   \* history: tables for which a dropped query left its provider
    sent, drops  \* counters for the bounds

rows == <<buffered, staged, stored, landing>>
server == <<mapped, catalog, writer>>
vars == <<buffered, staged, stored, landing, mapped, catalog, writer, at, job, leaked, sent, drops>>

NoneReplaced == [t \in {} |-> Absent]

(* A query for request s.  The last lines are history, for the properties. *)
Fresh(s) ==
    [sql |-> s, again |-> FALSE,
     next |-> 1,                  \* the table whose turn it is
     asked |-> {}, got |-> {},    \* agents that have not answered, rows sent
     replaced |-> NoneReplaced, plan |-> NoneReplaced,
     skipped |-> FALSE,           \* agents_skipped > 0
     count |-> [r \in {} |-> 0],  \* the answer: how often each row was read
     due |-> {}, settled |-> {}, unasked |-> {}, unlisted |-> {}, failed |-> {},
     tainted |-> {}, strayed |-> FALSE, apart |-> {}]

NoQuery == Fresh(CHOOSE s \in Requests : TRUE)

(* register_all, at the server's start *)
Init ==
    /\ \E start \in Starts : buffered = start[1] /\ stored = start[2]
    /\ staged = {} /\ landing = {}
    /\ mapped = {<<RowAgent[r], RowTable[r]>> : r \in stored}
    /\ catalog = [t \in Tables |->
                     IF \E r \in stored : RowTable[r] = t THEN Listing ELSE Absent]
    /\ writer = Nobody
    /\ at = [q \in Slots |-> "idle"]
    /\ job = [q \in Slots |-> NoQuery]
    /\ leaked = {} /\ sent = 0 /\ drops = 0

Go(q, from, to) == at[q] = from /\ at' = [at EXCEPT ![q] = to]

Update(q, j) == job' = [job EXCEPT ![q] = j]

ThisTable(q) == job[q].sql.named[job[q].next]

(* Where a query begins: a statement without a named table is planned as it is. *)
Start(s) == IF s.mode = "history" \/ s.named # << >> THEN "queued" ELSE "unlocked"

-----------------------------------------------------------------------------
(* QueryEngine::query takes a slot. *)
Submit(q, s) ==
    /\ sent < MaxQueries /\ sent' = sent + 1
    /\ Go(q, "idle", Start(s))
    /\ Update(q, [Fresh(s) EXCEPT
                     !.due = CASE s.mode = "history" -> stored
                               [] s.mode = "all" -> buffered \cup stored
                               [] s.mode = "buffer" -> {},
                     !.settled = IF s.mode = "buffer" THEN {} ELSE stored \ buffered])
    /\ UNCHANGED <<rows, server, leaked, drops>>

(* Planning.  The plan keeps the providers its names had; a name that is not in
   the catalog is an error, after which a history or all query looks for new
   tables on the disk and tries once more. *)

Planned(q, stray) ==
    LET j == job[q] IN
    /\ \A t \in Reads(j.sql) : catalog[t] # Absent
    /\ at' = [at EXCEPT ![q] = "collect"]
    /\ Update(q, [j EXCEPT !.plan = [t \in Reads(j.sql) |-> catalog[t]],
                           !.replaced = NoneReplaced,
                           !.tainted = leaked \cap Reads(j.sql),
                           !.strayed = stray])

NotFound(q) == \E t \in Reads(job[q].sql) : catalog[t] = Absent

Fails(q) ==
    /\ at' = [at EXCEPT ![q] = "idle"]
    /\ Update(q, NoQuery)

Unplanned(q) ==
    /\ NotFound(q)
    /\ IF job[q].sql.mode = "buffer" \/ job[q].again THEN Fails(q)
       ELSE at' = [at EXCEPT ![q] = "register"] /\ UNCHANGED job

(* Mutant: history queries do not take the lock. *)
PlanHistoryUnlocked(q) ==
    /\ at[q] = "queued" /\ job[q].sql.mode = "history"
    /\ Planned(q, FALSE) \/ Unplanned(q)
    /\ UNCHANGED <<rows, server, leaked, sent, drops>>

(* A history query plans under a read lock; nothing in it waits. *)
PlanHistory(q) ==
    /\ at[q] = "queued" /\ job[q].sql.mode = "history"
    /\ writer = Nobody
    /\ Planned(q, FALSE) \/ Unplanned(q)
    /\ UNCHANGED <<rows, server, leaked, sent, drops>>

(* Without the lock: statements without a named table, and all queries whose
   federated planning failed. *)
PlanUnlocked(q) ==
    /\ at[q] = "unlocked"
    /\ Planned(q, TRUE) \/ Unplanned(q)
    /\ UNCHANGED <<rows, server, leaked, sent, drops>>

(* SqlApiHandler: register_all, which stops at the first table whose schema it
   cannot read, and the same query again.  Another one may have taken the slot. *)
Register(q) ==
    /\ at[q] = "register"
    /\ \E found \in SUBSET {t \in Tables : catalog[t] = Absent
                                /\ \E r \in stored : RowTable[r] = t} :
          catalog' = [t \in Tables |-> IF t \in found THEN Listing ELSE catalog[t]]
    /\ LET j == job[q] IN
       \/ /\ at' = [at EXCEPT ![q] = Start(j.sql)]
          /\ Update(q, [Fresh(j.sql) EXCEPT !.again = TRUE, !.due = j.due,
                                                    !.settled = j.settled])
       \/ Fails(q)
    /\ UNCHANGED <<rows, mapped, writer, leaked, sent, drops>>

-----------------------------------------------------------------------------
(* Federator::prepare_and_plan, under the write lock *)

(* Mutant: the lock is not taken. *)
LockWriteShared(q) ==
    /\ job[q].sql.mode # "history"
    /\ Go(q, "queued", "turn")
    /\ writer' = q
    /\ UNCHANGED <<rows, mapped, catalog, job, leaked, sent, drops>>

LockWrite(q) ==
    /\ job[q].sql.mode # "history"
    /\ Go(q, "queued", "turn")
    /\ writer = Nobody /\ writer' = q
    /\ UNCHANGED <<rows, mapped, catalog, job, leaked, sent, drops>>

NextTurn(q) == IF job[q].next < Len(job[q].sql.named) THEN "turn" ELSE "bind"

RowsOf(t) == {r \in Rows : RowTable[r] = t}

(* The agents the store knows for the table are asked; one that is offline is one
   that does not reply. *)
Ask(q) ==
    LET j == job[q]
        known == {a \in Agents : <<a, ThisTable(q)>> \in mapped} IN
    /\ Go(q, "turn", "fetch")
    /\ Update(q, [j EXCEPT !.asked = known,
                           !.unasked = @ \cup {r \in RowsOf(ThisTable(q)) :
                                                  RowAgent[r] \notin known}])
    /\ UNCHANGED <<rows, server, leaked, sent, drops>>

(* list_table_agents fails: the table is left as it is. *)
ListFails(q) ==
    LET t == ThisTable(q) IN
    /\ Go(q, "turn", NextTurn(q))
    /\ Update(q, [job[q] EXCEPT !.next = @ + 1, !.failed = @ \cup {t},
                                !.unasked = @ \cup RowsOf(t)])
    /\ UNCHANGED <<rows, server, leaked, sent, drops>>

(* FederationQueryHandler sends what is in its buffer at that moment. *)
Held(a, t, terms) ==
    {r \in buffered : RowAgent[r] = a /\ RowTable[r] = t /\ InRange(RowTime[r], terms)}

(* The agent's answer is decoded, ... *)
Reply(q, a) ==
    LET j == job[q] IN
    /\ at[q] = "fetch" /\ a \in j.asked
    /\ Update(q, [j EXCEPT !.asked = @ \ {a},
                           !.got = @ \cup Held(a, ThisTable(q), j.sql.where)])
    /\ UNCHANGED <<rows, server, at, leaked, sent, drops>>

(* ... or it is offline, fails, does not know the table, or takes longer than two seconds. *)
NoReply(q, a) ==
    /\ at[q] = "fetch" /\ a \in job[q].asked
    /\ Update(q, [job[q] EXCEPT !.asked = @ \ {a}, !.skipped = TRUE])
    /\ UNCHANGED <<rows, server, at, leaked, sent, drops>>

(* Mutant: a table without buffered rows is left as it is in buffer mode too. *)
OwnProviderUnshadowed(mode, p, got) ==
    CASE got # {} /\ mode = "all" /\ p # Absent -> {Union(p, got)}
      [] got # {} /\ (mode = "buffer" \/ p = Absent) -> {Memory(got)}
      [] OTHER -> {}

(* The provider the query puts in place of p, if it puts one: in buffer mode an
   empty one hides the files of a table for which nothing was fetched. *)
OwnProvider(mode, p, got) ==
    CASE got # {} /\ mode = "all" /\ p # Absent -> {Union(p, got)}
      [] got # {} /\ (mode = "buffer" \/ p = Absent) -> {Memory(got)}
      [] got = {} /\ mode = "buffer" /\ p # Absent -> {Memory({})}
      [] OTHER -> {}

(* swap_provider *)
SwapProvider(t, p) == catalog' = [catalog EXCEPT ![t] = p]

Swap(q) ==
    LET j == job[q]
        t == ThisTable(q)
        p == catalog[t]
        own == OwnProvider(j.sql.mode, p, j.got) IN
    /\ Go(q, "fetch", NextTurn(q)) /\ j.asked = {}
    /\ IF own = {} THEN UNCHANGED catalog
       ELSE \E new \in own : SwapProvider(t, new)
    /\ Update(q, [j EXCEPT !.next = @ + 1, !.got = {},
                           !.replaced = IF own = {} THEN @
                                        ELSE [u \in DOMAIN @ \cup {t} |->
                                                 IF u = t THEN p ELSE @[u]],
                           !.unlisted = IF p = Absent THEN @ \cup {t} ELSE @])
    /\ UNCHANGED <<rows, mapped, writer, leaked, sent, drops>>

Restored(q) ==
    LET before == job[q].replaced IN
    [t \in Tables |-> IF t \in DOMAIN before THEN before[t] ELSE catalog[t]]

Unlock(q) == writer' = Nobody /\ catalog' = Restored(q)

(* What an all query does after its planning failed, and a buffer query. *)
FallBack(q) ==
    IF job[q].sql.mode = "buffer" THEN Fails(q)
    ELSE /\ at' = [at EXCEPT ![q] = "unlocked"]
         /\ Update(q, [job[q] EXCEPT !.replaced = NoneReplaced, !.got = {}])

(* The rows of two agents, or of an agent and the files, do not fit together. *)
Misfit(q) ==
    /\ at[q] = "fetch" /\ job[q].asked = {} /\ job[q].got # {}
    /\ FallBack(q) /\ Unlock(q)
    /\ UNCHANGED <<rows, mapped, leaked, sent, drops>>

(* Mutant: an error returns before the providers are put back. *)
BindLockedEarly(q) ==
    /\ at[q] = "bind"
    /\ \/ Planned(q, FALSE) /\ Unlock(q)
       \/ NotFound(q) /\ FallBack(q) /\ writer' = Nobody /\ UNCHANGED catalog
    /\ UNCHANGED <<rows, mapped, leaked, sent, drops>>

BindLocked(q) ==
    /\ at[q] = "bind"
    /\ \/ Planned(q, FALSE)
       \/ NotFound(q) /\ FallBack(q)
    /\ Unlock(q)
    /\ UNCHANGED <<rows, mapped, leaked, sent, drops>>

-----------------------------------------------------------------------------
(* The plan is executed: the files are listed now, the memory is as it was. *)

Copies(p, r) ==
    (IF p.files /\ r \in stored THEN 1 ELSE 0)
        + Cardinality({i \in DOMAIN p.mems : r \in p.mems[i]})

Collect(q) ==
    LET j == job[q] IN
    /\ Go(q, "collect", "done")
    /\ Update(q, [j EXCEPT
          !.count = [r \in {x \in Rows : Wanted(j.sql, x)} |-> Copies(j.plan[RowTable[r]], r)],
          !.apart = staged,
          !.plan = [t \in DOMAIN @ |-> Provider(@[t].files, << >>)]])
    /\ UNCHANGED <<rows, server, leaked, sent, drops>>

(* A file is gone when it is read, because of a compaction, or has no footer. *)
CollectFails(q) == at[q] = "collect" /\ Fails(q) /\ UNCHANGED <<rows, server, leaked, sent, drops>>

Answered(q) == at[q] = "done" /\ Fails(q) /\ UNCHANGED <<rows, server, leaked, sent, drops>>

(* Mutant: the lock is not a guard that goes with the future. *)
DropKeepsLock(q) ==
    /\ drops < MaxDrops /\ drops' = drops + 1
    /\ at[q] \in {"queued", "turn", "fetch", "collect"}
    /\ Fails(q)
    /\ leaked' = leaked \cup DOMAIN job[q].replaced
    /\ UNCHANGED <<rows, mapped, catalog, writer, sent>>

(* The timeout of the whole query, or a client that goes away: the future is
   dropped where it waits, with the lock and the slot, and nothing is restored. *)
Drop(q) ==
    /\ drops < MaxDrops /\ drops' = drops + 1
    /\ at[q] \in {"queued", "turn", "fetch", "collect"}
    /\ Fails(q)
    /\ writer' = IF writer = q THEN Nobody ELSE writer
    /\ leaked' = leaked \cup DOMAIN job[q].replaced
    /\ UNCHANGED <<rows, mapped, catalog, sent>>

-----------------------------------------------------------------------------
(* Rows on their way, and what the server makes of it (see AgentIngest and
   ServerStore): an upload, or the retry of a staged file, writes the file ... *)

Upload(r) ==
    /\ r \in (buffered \cup staged) \ stored
    /\ stored' = stored \cup {r} /\ landing' = landing \cup {r}
    /\ staged' = staged \ {r}
    /\ UNCHANGED <<buffered, server, at, job, leaked, sent, drops>>

(* ... and, at the end of the handler, makes the table and its agent known; an
   error of either is logged only. *)
Announce(r) ==
    /\ r \in landing /\ landing' = landing \ {r}
    /\ mapped' \in {mapped, mapped \cup {<<RowAgent[r], RowTable[r]>>}}
    /\ \/ UNCHANGED catalog
       \/ catalog[RowTable[r]] = Absent /\ SwapProvider(RowTable[r], Listing)
    /\ UNCHANGED <<buffered, staged, stored, writer, at, job, leaked, sent, drops>>

(* The handler is dropped; a retry finds the file and is answered at once. *)
Unannounced(r) ==
    /\ drops < MaxDrops /\ drops' = drops + 1
    /\ r \in landing /\ landing' = landing \ {r}
    /\ UNCHANGED <<buffered, staged, stored, server, at, job, leaked, sent>>

Stage(r) ==
    /\ r \in buffered \ stored /\ staged' = staged \cup {r}
    /\ UNCHANGED <<buffered, stored, landing, server, at, job, leaked, sent, drops>>

Drain(r) ==
    /\ r \in buffered /\ r \in staged \cup (stored \ landing)
    /\ buffered' = buffered \ {r}
    /\ UNCHANGED <<staged, stored, landing, server, at, job, leaked, sent, drops>>

(* A heartbeat reports the tables in its agent's buffer. *)
Report(r) ==
    /\ r \in buffered
    /\ mapped' = mapped \cup {<<RowAgent[r], RowTable[r]>>}
    /\ UNCHANGED <<rows, catalog, writer, at, job, leaked, sent, drops>>

-----------------------------------------------------------------------------
Federate(q) ==
    \/ LockWrite(q) \/ Ask(q) \/ ListFails(q)
    \/ \E a \in Agents : Reply(q, a) \/ NoReply(q, a)
    \/ Swap(q) \/ Misfit(q) \/ BindLocked(q)

Move(r) ==
    Upload(r) \/ Announce(r) \/ Unannounced(r) \/ Stage(r) \/ Drain(r) \/ Report(r)

Next ==
    \/ \E q \in Slots :
          \/ \E s \in Requests : Submit(q, s)
          \/ PlanHistory(q) \/ PlanUnlocked(q) \/ Register(q)
          \/ Federate(q)
          \/ Collect(q) \/ CollectFails(q) \/ Answered(q) \/ Drop(q)
    \/ \E r \in Moving : Move(r)

Spec == Init /\ [][Next]_vars

-----------------------------------------------------------------------------
Places == {"idle", "queued", "turn", "fetch", "bind", "unlocked", "register",
           "collect", "done"}

IsProvider(p) ==
    /\ p = Provider(p.files, p.mems) /\ p.files \in BOOLEAN
    /\ p.mems \in Seq(SUBSET Rows)

TypeOK ==
    /\ buffered \subseteq Rows /\ staged \subseteq Rows
    /\ stored \subseteq Rows /\ landing \subseteq stored
    /\ mapped \subseteq Agents \X Tables
    /\ DOMAIN catalog = Tables /\ \A t \in Tables : IsProvider(catalog[t])
    /\ writer \in Slots \cup {Nobody}
    /\ at \in [Slots -> Places]
    /\ \A q \in Slots : (at[q] \in {"turn", "fetch", "bind"}) <=> (writer = q)
    /\ leaked \subseteq Tables
    /\ sent \in 0 .. MaxQueries /\ drops \in 0 .. MaxDrops

(* Only the query that holds the lock has providers of its own in the catalog:
   at any other time a name stands for the table's files, or nothing, unless a
   dropped query left something there. *)
CatalogRestored ==
    \A t \in Tables :
        Transient(catalog[t]) =>
            \/ t \in leaked
            \/ writer # Nobody /\ t \in DOMAIN job[writer].replaced

(* A history query reads every row that was in a file when it was sent, and no
   row twice, whatever federated queries swap in the meantime. *)
HistoryExact ==
    \A q \in Slots : at[q] = "done" /\ job[q].sql.mode = "history" /\ job[q].tainted = {} =>
        \A r \in DOMAIN job[q].count :
            job[q].count[r] <= 1 /\ (r \in job[q].due => job[q].count[r] = 1)

(* "Buffer mode must never leak persisted rows" (mod.rs:281): a buffer query
   reads the files of a table only if it did not see the name, if the store did
   not say who has rows of it, or if the table was registered after its turn. *)
BufferPure ==
    \A q \in Slots : at[q] = "done" /\ job[q].sql.mode = "buffer" =>
        \A t \in DOMAIN job[q].plan :
            job[q].plan[t].files => t \in job[q].sql.hidden \cup job[q].failed \cup job[q].unlisted

(* A row that was there when an all query was sent is in its answer, although it
   may move from a buffer into a file while the query is under way; unless the
   answer says that agents were skipped, or
   - the server does not know that the row's agent has rows of the table,
   - the row's upload failed and it is only in a staged file,
   - the catalog did not list the table's files at its turn,
   - the query planned without the lock, or met what a dropped query left,
   - it did not see the table's name, or
   - a term about another table's time cut the fetch. *)
NothingMissed ==
    \A q \in Slots : at[q] = "done" /\ job[q].sql.mode = "all" /\ ~job[q].skipped =>
        \A r \in DOMAIN job[q].count \cap job[q].due :
            job[q].count[r] = 0 =>
                \/ r \in job[q].unasked \cup job[q].apart
                \/ RowTable[r] \in job[q].unlisted \cup job[q].tainted \cup job[q].sql.hidden
                \/ job[q].strayed
                \/ ~Satisfies(RowTime[r], job[q].sql.where)

(* A row is read twice only if it was not yet settled in a file when the query
   was sent, or for what a dropped query left or another one put in place. *)
SettledOnce ==
    \A q \in Slots : at[q] = "done" =>
        \A r \in DOMAIN job[q].count \cap job[q].settled :
            job[q].count[r] > 1 => RowTable[r] \in job[q].tainted \/ job[q].strayed
=============================================================================
