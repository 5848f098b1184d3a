----------------------------- MODULE ConfigSync -----------------------------
(***************************************************************************)
(* How an agent and the server keep each other informed: the agent         *)
(* registers when it starts and then sends heartbeats; the answers carry    *)
(* the configuration an operator has put, the heartbeats what tables and    *)
(* fields the agent has.  Both keep version numbers: the server counts the  *)
(* puts, the agent the updates it has got.                                  *)
(*                                                                         *)
(* One agent and its row in the server's table of agents.  A configuration  *)
(* is the settings it gives a value; an invalid body reads like none.  A    *)
(* step of a request is one hold of the lock around SQLite, and a request   *)
(* the agent gave up on, or sent before it crashed, may be served later.    *)
(*                                                                         *)
(* Left out: times and addresses, the tables an upload announces (reports   *)
(* matter for what is still buffered), restarts of the server (SQLite keeps *)
(* the state; to the agent they are failing requests).                      *)
(***************************************************************************)
EXTENDS Integers

CONSTANTS
    Settings,   \* what HotConfig holds
    Values,     \* of settings
    Garbage,    \* values that cannot be read, or are zero or less
    Local,      \* the agent's configuration file, with defaults for garbage
    Configs,    \* what operators put
    NoConfig,   \* no configuration, or one that cannot be parsed
    VersionIn,  \* the "version" of the configurations that have such a field
    Fields,     \* the columns of the agent's tables
    Tables,
    TableOf,    \* the table of a field
    Conns,      \* requests under way at a time
    NoRow,      \* the row of an agent the server does not know
    MaxPuts,    \* bound: how often a configuration is put
    MaxMishaps  \* bound: crashes, failures and deletions of the agent's row

(* Functions from some settings to values: a JSON object, or the cache file. *)
Partial == UNION {[S -> Values] : S \in SUBSET Settings}

(* An agent's row: the configuration, the version the agent has reported, the
   version it should have. *)
Row == [config : Configs \cup {NoConfig}, reported : Nat, target : Nat]

ASSUME SyncAssumption ==
    /\ Garbage \subseteq Values /\ Local \in [Settings -> Values \ Garbage]
    /\ Configs \subseteq Partial
    /\ DOMAIN VersionIn \subseteq Configs /\ VersionIn \in [DOMAIN VersionIn -> Nat]
    /\ NoConfig \notin Partial /\ NoRow \notin Row
    /\ TableOf \in [Fields -> Tables]
    /\ MaxPuts \in Nat /\ MaxMishaps \in Nat

VARIABLES
    row,      \* agents: config_json, config_version, target_config_version
    known,    \* fields: the columns the server has heard of
    mapped,   \* agent_tables: the tables it associates with the agent
    agent,    \* what the agent's heartbeat task does
    hot,      \* HotConfig
    version,  \* the agent's config_version
    cache,    \* agent_config.cache
    draft,    \* what the agent is about to write there
    schema,   \* the fields in the agent's buffer
    last,     \* last_schema: those of the last heartbeat
    conn,     \* the requests under way
    puts,     \* number of puts so far
    mishaps,  \* number of mishaps so far
    haunted,  \* history: the row was made while numbers of an earlier one were about,
              \* or a configuration with a version had the agent skip numbers
    missed,   \* history: fields in a report that failed
    told,     \* history: the settings of the registration and the updates since
    cut       \* history: since the registration a write of the cache was cut short,
              \* or it could not be read

serverVars == <<row, known, mapped>>
cacheVars  == <<cache, draft, told, cut>>
agentVars  == <<agent, hot, version, cacheVars, schema, last>>
bounds     == <<puts, mishaps>>
vars == <<row, known, mapped, agent, hot, version, cache, draft, schema, last, conn,
          puts, mishaps, haunted, missed, told, cut>>

-----------------------------------------------------------------------------
(* merge_json: what is in both keeps the value of the second. *)
Overlay(f, g) ==
    [x \in DOMAIN f \cup DOMAIN g |-> IF x \in DOMAIN g THEN g[x] ELSE f[x]]

(* parse_duration_opt, parse_bytes_opt and the tests for zero *)
Parses(v) == v \notin Garbage

(* HotConfig::apply_update: "missing sections and invalid values leave the
   current value untouched". *)
ApplyUpdate(f, g) ==
    [x \in DOMAIN f |-> IF x \in DOMAIN g /\ Parses(g[x]) THEN g[x] ELSE f[x]]

Nothing == [x \in {} |-> x]

Read(c) == IF c = NoConfig THEN Nothing ELSE c

(* The settings in f have the values the configuration c gives them. *)
Applied(c, f) == \A x \in DOMAIN Read(c) : Parses(Read(c)[x]) => f[x] = Read(c)[x]

FieldsOf(t, fs) == {f \in fs : TableOf[f] = t}

Free == [pc |-> "free", ver |-> 0, report |-> {}, reply |-> NoConfig, live |-> FALSE]

Serving(k, place) == conn[k].pc = place

Goto(k, place) == conn' = [conn EXCEPT ![k].pc = place]

Answered(k, place) == Serving(k, place) /\ conn[k].live

Mishap == mishaps < MaxMishaps /\ mishaps' = mishaps + 1

Init ==
    /\ row = NoRow /\ known = {} /\ mapped = {}
    /\ agent = "down" /\ hot = Local /\ version = 0
    /\ cache = Nothing /\ draft = Nothing /\ told = Nothing /\ cut = FALSE
    /\ schema = {} /\ last = {}
    /\ conn = [k \in Conns |-> Free]
    /\ puts = 0 /\ mishaps = 0
    /\ haunted = FALSE /\ missed = {}

-----------------------------------------------------------------------------
(* The agent: run_agent up to its registration, and the heartbeat task *)

(* Replay brings back what is in the WAL.  A cache that cannot be read is as good as
   none. *)
Boot(k, replayed) ==
    /\ agent = "down"
    /\ Serving(k, "free")
    /\ replayed \subseteq schema
    /\ \/ hot' = ApplyUpdate(Local, cache) /\ UNCHANGED <<cut, mishaps>>
       \/ hot' = Local /\ cut' = TRUE /\ Mishap
    /\ version' = 0 /\ last' = {} /\ schema' = replayed
    /\ conn' = [conn EXCEPT ![k] = [Free EXCEPT !.pc = "register", !.live = TRUE]]
    /\ agent' = "starting"
    /\ UNCHANGED <<serverVars, cache, draft, told, puts, haunted, missed>>

(* The agent takes the version the server has heard from it and the current
   configuration; the cache is written over. *)
Registered(k) ==
    /\ Answered(k, "welcome")
    /\ hot' = ApplyUpdate(hot, Read(conn[k].reply))
    /\ version' = conn[k].ver
    /\ draft' = Read(conn[k].reply)
    /\ told' = Read(conn[k].reply) /\ cut' = FALSE
    /\ conn' = [conn EXCEPT ![k] = Free]
    /\ agent' = "save"
    /\ UNCHANGED <<serverVars, cache, schema, last, bounds, haunted, missed>>

(* compute_schema_changes: a table that has something new is reported whole. *)
SchemaChanges == {f \in schema : \E g \in schema \ last : TableOf[g] = TableOf[f]}

(* What changed since the last heartbeat is recorded before this one is sent. *)
Heartbeat(k) ==
    LET report == SchemaChanges
    IN  /\ agent = "on"
        /\ \A c \in Conns : ~conn[c].live
        /\ Serving(k, "free")
        /\ last' = schema
        /\ missed' = missed \ report
        /\ conn' = [conn EXCEPT ![k] = [Free EXCEPT !.pc = "beat", !.ver = version,
                                                   !.report = report, !.live = TRUE]]
        /\ UNCHANGED <<serverVars, agent, hot, version, cacheVars, schema, bounds,
                       haunted>>

(* An update counts one, however many puts it makes up for, or says how high. *)
NextVersion(c) == IF c \in DOMAIN VersionIn THEN VersionIn[c] ELSE version + 1

(* Mutant: the cache is written over by an update, too. *)
UpdatedReplaces(k) ==
    LET update == conn[k].reply
    IN  /\ Answered(k, "reply")
        /\ update # NoConfig
        /\ hot' = ApplyUpdate(hot, update)
        /\ version' = NextVersion(update)
        /\ haunted' = (haunted \/ NextVersion(update) > version + 1)
        /\ draft' = update
        /\ told' = Overlay(told, update)
        /\ conn' = [conn EXCEPT ![k] = Free]
        /\ agent' = "save"
        /\ UNCHANGED <<serverVars, cache, cut, schema, last, bounds, missed>>

(* The update goes over what is cached, or replaces it when that cannot be read. *)
Updated(k) ==
    LET update == conn[k].reply
    IN  /\ Answered(k, "reply")
        /\ update # NoConfig
        /\ hot' = ApplyUpdate(hot, update)
        /\ version' = NextVersion(update)
        /\ haunted' = (haunted \/ NextVersion(update) > version + 1)
        /\ \/ draft' = Overlay(cache, update) /\ UNCHANGED <<cut, mishaps>>
           \/ draft' = update /\ cut' = TRUE /\ Mishap
        /\ told' = Overlay(told, update)
        /\ conn' = [conn EXCEPT ![k] = Free]
        /\ agent' = "save"
        /\ UNCHANGED <<serverVars, cache, schema, last, puts, missed>>

(* Nothing new, or a request that failed; after a registration the agent goes
   on with version 0. *)
NotUpdated(k) ==
    /\ conn[k].live
    /\ \/ Serving(k, "refused")
       \/ Serving(k, "reply") /\ conn[k].reply = NoConfig
    /\ conn' = [conn EXCEPT ![k] = Free]
    /\ agent' = "on"
    /\ UNCHANGED <<serverVars, hot, version, cacheVars, schema, last, bounds, haunted,
                   missed>>

(* A timeout, or the connection breaks: the server may not know. *)
GiveUp(k) ==
    /\ conn[k].live
    /\ Mishap
    /\ conn' = [conn EXCEPT ![k].live = FALSE]
    /\ agent' = "on"
    /\ missed' = missed \cup conn[k].report
    /\ UNCHANGED <<serverVars, hot, version, cacheVars, schema, last, puts, haunted>>

(* fs::write truncates the cache and fills it. *)
Truncate ==
    /\ agent = "save"
    /\ cache' = Nothing
    /\ agent' = "fill"
    /\ UNCHANGED <<serverVars, hot, version, draft, told, cut, schema, last, conn, bounds,
                   haunted, missed>>

Fill ==
    /\ agent = "fill"
    /\ \/ cache' = draft /\ UNCHANGED <<cut, mishaps>>
       \/ cut' = TRUE /\ UNCHANGED cache /\ Mishap
    /\ draft' = Nothing
    /\ agent' = "on"
    /\ UNCHANGED <<serverVars, hot, version, told, schema, last, conn, puts, haunted,
                   missed>>

(* A row of a new field or table is written to the agent.  (The listener opens
   once a registration is saved; an earlier row is one replayed.) *)
Write(f) ==
    /\ agent \in {"on", "save", "fill"}
    /\ f \in Fields \ schema
    /\ schema' = schema \cup {f}
    /\ UNCHANGED <<serverVars, agent, hot, version, cacheVars, last, conn, bounds,
                   haunted, missed>>

Crash ==
    /\ agent # "down"
    /\ Mishap
    /\ agent' = "down"
    /\ cut' = (cut \/ agent \in {"save", "fill"})
    /\ draft' = Nothing
    /\ hot' = Local /\ version' = 0 /\ last' = {}
    /\ conn' = [k \in Conns |-> [conn[k] EXCEPT !.live = FALSE]]
    /\ UNCHANGED <<serverVars, cache, schema, puts, haunted, missed, told>>

-----------------------------------------------------------------------------
(* The server: AgentApiHandler and the stores behind it *)

(* A number or an update that was got from the row that is gone. *)
Echo(k) == conn[k].ver > 1 \/ conn[k].reply # NoConfig

(* Mutant: registering again starts the counting afresh. *)
RegisterResets(k) ==
    /\ Serving(k, "register")
    /\ row' = [config |-> IF row = NoRow THEN NoConfig ELSE row.config,
               reported |-> 1, target |-> 1]
    /\ haunted' = IF row = NoRow
                  THEN version > 1 \/ \E c \in Conns : Echo(c) ELSE haunted
    /\ Goto(k, "row")
    /\ UNCHANGED <<known, mapped, agentVars, bounds, missed>>

(* A new row, or the one that is there with all its numbers. *)
Register(k) ==
    /\ Serving(k, "register")
    /\ IF row = NoRow
       THEN /\ row' = [config |-> NoConfig, reported |-> 1, target |-> 1]
            /\ haunted' = (version > 1 \/ \E c \in Conns : Echo(c))
       ELSE UNCHANGED <<row, haunted>>
    /\ Goto(k, "row")
    /\ UNCHANGED <<known, mapped, agentVars, bounds, missed>>

GetRow(k) ==
    /\ Serving(k, "row")
    /\ IF row = NoRow THEN Goto(k, "refused")
       ELSE conn' = [conn EXCEPT ![k].pc = "welcome", ![k].ver = row.reported,
                                 ![k].reply = row.config]
    /\ UNCHANGED <<serverVars, agentVars, bounds, haunted, missed>>

(* AgentStore::heartbeat; an agent that is not there is answered 404. *)
SeeVersion(k) ==
    /\ Serving(k, "beat")
    /\ \/ /\ row # NoRow
          /\ row' = [row EXCEPT !.reported = IF conn[k].ver > @ THEN conn[k].ver ELSE @]
          /\ Goto(k, "schema")
          /\ UNCHANGED missed
       \/ /\ row = NoRow
          /\ Goto(k, "refused")
          /\ missed' = missed \cup conn[k].report
          /\ UNCHANGED row
    /\ UNCHANGED <<known, mapped, agentVars, bounds, haunted>>

(* Mutant: the tables of an agent are not recorded. *)
MergeSchemaAlone(k, t) ==
    LET its == FieldsOf(t, conn[k].report)
    IN  /\ Serving(k, "schema")
        /\ its # {}
        /\ known' = known \cup its
        /\ conn' = [conn EXCEPT ![k].report = @ \ its]
        /\ UNCHANGED <<row, mapped, agentVars, bounds, haunted, missed>>

(* merge_schema for one table of the report.  An error is logged and skipped;
   without the agent's row the foreign key makes one before any field. *)
MergeSchema(k, t) ==
    LET its == FieldsOf(t, conn[k].report)
    IN  /\ Serving(k, "schema")
        /\ its # {}
        /\ conn' = [conn EXCEPT ![k].report = @ \ its]
        /\ \/ /\ row # NoRow
              /\ mapped' = mapped \cup {t} /\ known' = known \cup its
              /\ UNCHANGED <<missed, mishaps>>
           \/ /\ \/ row = NoRow /\ UNCHANGED mishaps
                 \/ row # NoRow /\ Mishap
              /\ missed' = missed \cup its
              /\ UNCHANGED <<known, mapped>>
        /\ UNCHANGED <<row, agentVars, puts, haunted>>

(* Mutant: an update is due when the agent is two puts behind. *)
ShouldUpdateLate(k) ==
    /\ Serving(k, "schema")
    /\ conn[k].report = {}
    /\ Goto(k, IF row # NoRow /\ row.target > conn[k].ver + 1 THEN "get" ELSE "reply")
    /\ UNCHANGED <<serverVars, agentVars, bounds, haunted, missed>>

(* should_update_config; an error means no. *)
ShouldUpdate(k) ==
    /\ Serving(k, "schema")
    /\ conn[k].report = {}
    /\ Goto(k, IF row # NoRow /\ row.target > conn[k].ver THEN "get" ELSE "reply")
    /\ UNCHANGED <<serverVars, agentVars, bounds, haunted, missed>>

GetConfig(k) ==
    /\ Serving(k, "get")
    /\ conn' = [conn EXCEPT ![k].pc = "reply",
                            ![k].reply = IF row = NoRow THEN NoConfig ELSE row.config]
    /\ UNCHANGED <<serverVars, agentVars, bounds, haunted, missed>>

(* Nobody waits for the answer, or the handler is dropped before it is there. *)
Drop(k) ==
    /\ ~conn[k].live
    /\ ~Serving(k, "free")
    /\ conn' = [conn EXCEPT ![k] = Free]
    /\ UNCHANGED <<serverVars, agentVars, bounds, haunted, missed>>

(* Mutant: the version counts the puts that change something. *)
PutQuietly(c) ==
    /\ row # NoRow
    /\ puts < MaxPuts /\ puts' = puts + 1
    /\ row' = [row EXCEPT !.config = c,
                          !.target = IF @ = 1 THEN 2 ELSE @]
    /\ UNCHANGED <<known, mapped, agentVars, conn, mishaps, haunted, missed>>

(* PUT /api/v1/agents/{id}/config replaces the configuration; 404 changes
   nothing. *)
Put(c) ==
    /\ row # NoRow
    /\ puts < MaxPuts /\ puts' = puts + 1
    /\ row' = [row EXCEPT !.config = c, !.target = @ + 1]
    /\ UNCHANGED <<known, mapped, agentVars, conn, mishaps, haunted, missed>>

(* DELETE /api/v1/agents/{id} forgets the agent, and the agent may be running: first
   its tables, then its row, each in a transaction of its own, and the second may fail. *)
Delete ==
    /\ row # NoRow
    /\ Mishap
    /\ mapped' = {} /\ row' \in {NoRow, row}
    /\ missed' = missed \cup last
    /\ UNCHANGED <<known, agentVars, conn, puts, haunted>>

Serve(k) ==
    \/ Register(k) \/ GetRow(k)
    \/ SeeVersion(k) \/ (\E t \in Tables : MergeSchema(k, t)) \/ ShouldUpdate(k)
    \/ GetConfig(k)

-----------------------------------------------------------------------------
Answer(k) == Registered(k) \/ Updated(k) \/ NotUpdated(k)

Next ==
    \/ \E k \in Conns : (\E replayed \in SUBSET schema : Boot(k, replayed))
                            \/ Heartbeat(k) \/ Answer(k) \/ GiveUp(k)
    \/ Truncate \/ Fill \/ Crash
    \/ \E f \in Fields : Write(f)
    \/ \E k \in Conns : Serve(k) \/ Drop(k)
    \/ \E c \in Configs \cup {NoConfig} : Put(c)
    \/ Delete

Spec == Init /\ [][Next]_vars

(***************************************************************************)
(* Fairness.  The heartbeat task is a loop on a timer with nothing in it    *)
(* that ends it; the server serves every request it has got, and its        *)
(* answer, or a timeout, reaches the agent.  An operator need not put       *)
(* anything, nor anybody start an agent that has crashed.                   *)
(***************************************************************************)
Fairness ==
    /\ WF_vars(\E k \in Conns : Heartbeat(k))
    /\ WF_vars(Truncate \/ Fill)
    /\ \A k \in Conns : WF_vars(Serve(k)) /\ WF_vars(Answer(k)) /\ WF_vars(Drop(k))

FairSpec == Spec /\ Fairness

-----------------------------------------------------------------------------
Conn == [pc : {"free", "register", "row", "welcome", "beat", "schema", "get", "reply",
               "refused"},
         ver : Nat, report : SUBSET Fields, reply : Configs \cup {NoConfig},
         live : BOOLEAN]

(* What the state is made of.  At most one request is the agent's own, and it
   has none when it is down. *)
TypeOK ==
    /\ row \in Row \cup {NoRow}
    /\ known \subseteq Fields /\ mapped \subseteq Tables
    /\ agent \in {"down", "starting", "on", "save", "fill"}
    /\ hot \in [Settings -> Values \ Garbage] /\ version \in Nat
    /\ cache \in Partial /\ draft \in Partial /\ told \in Partial
    /\ schema \subseteq Fields /\ last \subseteq schema
    /\ conn \in [Conns -> Conn]
    /\ \A j, k \in Conns : conn[j].live /\ conn[k].live => j = k
    /\ agent = "down" => \A k \in Conns : ~conn[k].live
    /\ puts \in 0 .. MaxPuts /\ mishaps \in 0 .. MaxMishaps
    /\ haunted \in BOOLEAN /\ cut \in BOOLEAN /\ missed \subseteq Fields

-----------------------------------------------------------------------------
(* The row exists, and its numbers started afresh when it was made and went up by
   one since. *)
Counting == row # NoRow /\ ~haunted

(* An agent the server takes for up to date has the settings that were put
   last: no interleaving of puts with the steps of a heartbeat, no lost answer
   and no restart makes it count an update it did not get.  Not so when the row was
   deleted and made anew under an agent that goes on counting, or a configuration's
   own "version" took the agent ahead of the server. *)
UpToDate == Counting /\ version >= row.target => Applied(row.config, hot)

(* An agent that comes up and gets no answer has the settings that the server
   told it last, its updates on top of its registration, unless the cache was
   being written when it crashed, or could not be written or read.  (A value that
   means nothing takes the place of an earlier one in the cache: then it is the
   local one that comes back.) *)
FallbackKept == agent = "starting" /\ ~cut => hot = ApplyUpdate(Local, told)

(* What the agent takes for reported is known to the server, and on its table
   of who has what, or it is on its way; or the report failed. *)
ReportKnown ==
    \A f \in last \ missed :
        \/ f \in known /\ TableOf[f] \in mapped
        \/ \E k \in Conns : conn[k].live /\ f \in conn[k].report

(* Liveness: with heartbeats going through, a running agent ends up with the
   version of the last put and so, by UpToDate, its settings.  (With a "version" below
   the server's in it, the same update comes with every heartbeat.) *)
Converges ==
    <>[](agent = "on" /\ Counting /\ row.config \notin DOMAIN VersionIn \cup {NoConfig}
            => version = row.target)

-----------------------------------------------------------------------------
(* The inductive invariant behind the theorems. *)

(* Nobody counts ahead of the server ... *)
CountInv ==
    Counting =>
        /\ row.reported <= row.target /\ version <= row.target
        /\ \A k \in Conns : conn[k].ver <= row.target

(* ... and what was put is counted. *)
PutInv == row # NoRow => row.target >= 1 /\ (row.target = 1 => row.config = NoConfig)

(* An answer that will make the agent count as high as the server carries the
   current settings. *)
AnswerInv ==
    \A k \in Conns :
        /\ Serving(k, "beat") \/ Serving(k, "schema") => conn[k].reply = NoConfig
        /\ conn[k].live /\ conn[k].pc \in {"beat", "schema", "get", "reply"} =>
              conn[k].ver = version
        /\ Counting /\ Serving(k, "get") =>
              conn[k].ver < row.target \/ row.target = 1
        /\ Counting /\ Serving(k, "reply") /\ conn[k].reply # NoConfig =>
              /\ conn[k].ver < row.target
              /\ conn[k].ver + 1 = row.target => conn[k].reply = row.config
        /\ Counting /\ Serving(k, "welcome") /\ conn[k].ver = row.target =>
              conn[k].reply = row.config

IInv == TypeOK /\ CountInv /\ PutInv /\ AnswerInv /\ UpToDate

(* The cache holds what the agent was told, or is about to; an agent writes it
   between its requests. *)
CacheInv ==
    /\ \A k \in Conns : conn[k].live => agent \in {"starting", "on"}
    /\ ~cut => IF agent \in {"save", "fill"} THEN draft = told ELSE cache = told
    /\ agent = "starting" /\ ~cut => hot = ApplyUpdate(Local, cache)

(* A request has delivered its report before it is answered, or it failed. *)
ReportInv ==
    \A k \in Conns : conn[k].live =>
        /\ Serving(k, "refused") => conn[k].report \subseteq missed
        /\ conn[k].pc \in {"register", "row", "welcome", "get", "reply"} =>
              conn[k].report = {}
=============================================================================
