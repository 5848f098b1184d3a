------------------------- MODULE FederationProofs --------------------------
(***************************************************************************)
(* What holds of the server's catalog and of the queries that share it, for *)
(* any number of queries, tables, agents and rows.                          *)
(*                                                                         *)
(* FedInv is inductive.  It says, for the query that holds the lock, which   *)
(* of its tables had their turn and what the catalog has for them now, that  *)
(* what it is going to put back was not a provider of its own, and what a    *)
(* planned query has got.  GatherInv, inductive on top of it, follows the    *)
(* rows an all query looks for: before a table's turn they are in a buffer   *)
(* or in a file, after it in what an agent answered or in a file.            *)
(***************************************************************************)
EXTENDS Federation, TLAPS

INSTANCE FiniteSetTheorems
INSTANCE SequenceTheorems

-----------------------------------------------------------------------------
(* The time range sent to the agents cuts no row that satisfies the terms it
   was taken from: not for exclusive bounds, and not where they saturate. *)
THEOREM RangeIsSound ==
    ASSUME NEW time \in Times, NEW terms,
           \A x \in terms : x.op \in {"lt", "le", "gt", "ge", "other"} /\ x.value \in Times,
           Satisfies(time, terms)
    PROVE  InRange(time, terms)
<1>1. time \in Int /\ MinTime \in Int /\ MaxTime \in Int /\ MinTime <= time /\ time <= MaxTime
    BY TimeAssumption DEF Times
<1>2. ASSUME NEW x \in terms
      PROVE  /\ x.op \in {"gt", "ge"} => time >= LowerBound(x)
             /\ x.op \in {"lt", "le"} => time <= UpperBound(x)
    <2>1. x.value \in Int /\ Holds(time, x)
        BY TimeAssumption DEF Times, Satisfies
    <2>2. /\ x.op = "gt" => time > x.value /\ LowerBound(x) = SaturatingNext(x.value)
          /\ x.op = "ge" => time >= x.value /\ LowerBound(x) = x.value
          /\ x.op = "lt" => time < x.value /\ UpperBound(x) = SaturatingPrev(x.value)
          /\ x.op = "le" => time <= x.value /\ UpperBound(x) = x.value
        BY <2>1 DEF Holds, LowerBound, UpperBound
    <2> QED
        BY <1>1, <2>1, <2>2 DEF SaturatingNext, SaturatingPrev
<1> QED
    BY <1>2, Zenon DEF InRange, Lower, Upper

-----------------------------------------------------------------------------
(* The invariant *)

Locked == {"turn", "fetch", "bind"}

JobFields == {"sql", "again", "next", "asked", "got", "replaced", "plan", "skipped", "count",
              "due", "settled", "unasked", "unlisted", "failed", "tainted", "strayed", "apart"}

(* Where a query is says how far it is in its list of tables. *)
JobOK(j, place) ==
    /\ DOMAIN j = JobFields /\ j.sql \in Requests /\ j.next \in Nat /\ j.got \subseteq Rows
    /\ place = "queued" => j.next = 1 /\ Start(j.sql) = "queued"
    /\ place \in {"turn", "fetch"} => j.next \in 1 .. Len(j.sql.named)
    /\ place = "bind" => j.next = Len(j.sql.named) + 1
    /\ place \in Locked \cup {"unlocked"} => j.sql.mode # "history"
    /\ place = "unlocked" /\ j.sql.mode = "buffer" => j.sql.named = << >>
    /\ place = "register" => j.sql.mode # "buffer"

Turned(j) == {j.sql.named[i] : i \in 1 .. j.next - 1}

(* What a query will put back, if it may still do so. *)
ReplacedOK(j, place, left) ==
    /\ place \notin Locked => j.replaced = NoneReplaced
    /\ DOMAIN j.replaced \subseteq Turned(j)
    /\ \A t \in DOMAIN j.replaced :
          IsProvider(j.replaced[t]) /\ (Transient(j.replaced[t]) => t \in left)

(* The files of a table that had its turn are hidden from a buffer query. *)
Hides(j, place, cat) ==
    j.sql.mode = "buffer" =>
        /\ place \in Locked =>
              \A t \in Turned(j) : t \in j.failed \cup j.unlisted
                                      \/ (cat[t] # Absent /\ ~cat[t].files)
        /\ place \in {"collect", "done"} =>
              \A t \in DOMAIN j.plan :
                  j.plan[t].files => t \in j.sql.hidden \cup j.failed \cup j.unlisted

(* A history query has planned with the files of its tables. *)
Exact(j, place, st) ==
    j.sql.mode = "history" =>
        /\ j.due \subseteq st
        /\ place = "collect" /\ j.tainted = {} =>
              \A t \in Reads(j.sql) : t \in DOMAIN j.plan /\ j.plan[t] = Listing
        /\ place = "done" /\ j.tainted = {} =>
              \A r \in DOMAIN j.count :
                  j.count[r] <= 1 /\ (r \in j.due => j.count[r] = 1)

QueryInv ==
    \A q \in Slots :
        /\ JobOK(job[q], at[q])
        /\ ReplacedOK(job[q], at[q], leaked)
        /\ Hides(job[q], at[q], catalog)
        /\ Exact(job[q], at[q], stored)

FedInv == TypeOK /\ QueryInv /\ job = [q \in Slots |-> job[q]] /\ CatalogRestored

-----------------------------------------------------------------------------
(* Requests and providers *)

LEMMA Requested ==
    ASSUME NEW s \in Requests
    PROVE  /\ s.mode \in Modes /\ s.named \in Seq(Tables) /\ s.hidden \subseteq Tables
           /\ \A i, j \in DOMAIN s.named : s.named[i] = s.named[j] => i = j
           /\ Len(s.named) \in Nat /\ DOMAIN s.named = 1 .. Len(s.named)
           /\ \A i \in 1 .. Len(s.named) : s.named[i] \in Tables
           /\ Reads(s) \subseteq Tables
<1>1. /\ s.mode \in Modes /\ s.named \in Seq(Tables) /\ s.hidden \subseteq Tables
      /\ \A i, j \in DOMAIN s.named : s.named[i] = s.named[j] => i = j
    BY FederationAssumption DEF RequestOK
<1>2. Len(s.named) \in Nat /\ DOMAIN s.named = 1 .. Len(s.named)
    BY <1>1, LenProperties
<1>3. \A i \in 1 .. Len(s.named) : s.named[i] \in Tables
    BY <1>1, ElementOfSeq
<1> QED
    BY <1>1, <1>2, <1>3 DEF Reads, Named

LEMMA Providers ==
    /\ IsProvider(Absent) /\ IsProvider(Listing) /\ ~Transient(Absent) /\ ~Transient(Listing)
    /\ Listing # Absent
    /\ \A R \in SUBSET Rows : IsProvider(Memory(R)) /\ Memory(R) # Absent /\ ~Memory(R).files
    /\ \A R \in SUBSET Rows : \A p : IsProvider(p) => IsProvider(Union(p, R))
    /\ \A p : IsProvider(p) /\ p # Absent /\ ~Transient(p) => p = Listing
    BY DEF IsProvider, Absent, Listing, Memory, Union, Provider, Transient

(* A fresh query, wherever it starts, and a query that ended. *)
LEMMA FreshOK ==
    ASSUME NEW s \in Requests
    PROVE  LET j == Fresh(s)
           IN  /\ DOMAIN j = JobFields
               /\ j.sql = s /\ j.next = 1 /\ j.got = {} /\ j.due = {}
               /\ j.replaced = NoneReplaced /\ DOMAIN j.replaced = {}
    BY DEF Fresh, JobFields, NoneReplaced

LEMMA IdleOK ==
    ASSUME NEW left, NEW cat, NEW st
    PROVE  /\ JobOK(NoQuery, "idle") /\ ReplacedOK(NoQuery, "idle", left)
           /\ Hides(NoQuery, "idle", cat) /\ Exact(NoQuery, "idle", st)
<1>1. PICK s \in Requests : NoQuery = Fresh(s)
    BY FederationAssumption DEF NoQuery
<1>2. /\ DOMAIN NoQuery = JobFields
      /\ NoQuery.sql = s /\ NoQuery.next = 1 /\ NoQuery.got = {} /\ NoQuery.due = {}
      /\ NoQuery.replaced = NoneReplaced /\ DOMAIN NoQuery.replaced = {}
    BY <1>1, FreshOK
<1> QED
    BY <1>2 DEF JobOK, ReplacedOK, Hides, Exact, Locked

-----------------------------------------------------------------------------
(* A step of one query *)

(* The tables that had their turn, and the one whose turn it is. *)
LEMMA TurnOf ==
    ASSUME NEW j, NEW place \in Locked, JobOK(j, place)
    PROVE  /\ Turned(j) \subseteq Tables
           /\ place = "bind" => Turned(j) = Named(j.sql)
           /\ place # "bind" =>
                 /\ j.sql.named[j.next] \in Tables \ Turned(j)
                 /\ j.next + 1 \in Nat
                 /\ j.next < Len(j.sql.named) => j.next + 1 \in 1 .. Len(j.sql.named)
                 /\ ~(j.next < Len(j.sql.named)) => j.next + 1 = Len(j.sql.named) + 1
                 /\ {j.sql.named[i] : i \in 1 .. (j.next + 1) - 1}
                       = Turned(j) \cup {j.sql.named[j.next]}
<1> DEFINE n == Len(j.sql.named)
           named == j.sql.named
<1>1. /\ n \in Nat /\ DOMAIN named = 1 .. n
      /\ \A i \in 1 .. n : named[i] \in Tables
      /\ \A i, k \in DOMAIN named : named[i] = named[k] => i = k
    BY Requested DEF JobOK
<1>2. /\ j.next \in Nat /\ place \in {"turn", "fetch", "bind"}
      /\ place \in {"turn", "fetch"} => j.next \in 1 .. n
      /\ place = "bind" => j.next = n + 1
    BY DEF JobOK, Locked
<1>3. Turned(j) = {named[i] : i \in 1 .. j.next - 1} /\ Named(j.sql) = {named[i] : i \in 1 .. n}
    BY <1>1, Zenon DEF Turned, Named
<1> HIDE DEF n, named
<1>4. 1 .. j.next - 1 \subseteq 1 .. n
    BY <1>1, <1>2
<1>5. place = "bind" => Turned(j) = Named(j.sql)
    <2>1. place = "bind" => j.next - 1 = n
        BY <1>1, <1>2
    <2> QED
        BY <1>3, <2>1
<1>6. place # "bind" =>
         /\ named[j.next] \in Tables \ Turned(j)
         /\ j.next + 1 \in Nat
         /\ j.next < n => j.next + 1 \in 1 .. n
         /\ ~(j.next < n) => j.next + 1 = n + 1
    <2> SUFFICES ASSUME place # "bind" PROVE j.next \in 1 .. n /\ named[j.next] \in Tables \ Turned(j)
        BY <1>1
    <2>1. j.next \in 1 .. n
        BY <1>2
    <2>2. \A i \in 1 .. j.next - 1 : i \in 1 .. n /\ i # j.next
        BY <1>1, <2>1
    <2> QED
        BY <1>1, <1>3, <2>1, <2>2
<1>7. place # "bind" =>
         {named[i] : i \in 1 .. (j.next + 1) - 1} = Turned(j) \cup {named[j.next]}
    <2> SUFFICES ASSUME place # "bind"
                 PROVE  {named[i] : i \in 1 .. (j.next + 1) - 1} = Turned(j) \cup {named[j.next]}
        OBVIOUS
    <2>1. 1 .. (j.next + 1) - 1 = (1 .. j.next - 1) \cup {j.next}
        BY <1>1, <1>2
    <2> QED
        BY <1>3, <2>1
<1>8. Turned(j) \subseteq Tables
    BY <1>1, <1>3, <1>4
<1> QED
    BY <1>5, <1>6, <1>7, <1>8, Zenon DEF n, named

(* Another query does not mind it, if the catalog changes for its tables only
   while it does not hold the lock, or where nothing was listed. *)
LEMMA HidesStays ==
    ASSUME NEW j, j.sql \in Requests, NEW place, NEW cat, NEW new,
           JobOK(j, place), Hides(j, place, cat),
           place \in Locked => \A t \in Tables : new[t] = cat[t] \/ cat[t] = Absent
    PROVE  Hides(j, place, new)
<1>1. CASE place \in Locked
    <2>1. Turned(j) \subseteq Tables
        BY <1>1, TurnOf
    <2> QED
        BY <1>1, <2>1 DEF Hides, Locked
<1>2. CASE place \notin Locked
    BY <1>2 DEF Hides
<1> QED
    BY <1>1, <1>2

LEMMA QueryStep ==
    ASSUME FedInv, NEW q \in Slots, NEW to \in Places, NEW j,
           at' = [at EXCEPT ![q] = to], job' = [job EXCEPT ![q] = j],
           UNCHANGED <<buffered, staged, stored, landing, mapped>>,
           DOMAIN catalog' = Tables, \A t \in Tables : IsProvider(catalog'[t]),
           writer = q \/ \A t \in Tables : catalog'[t] = catalog[t] \/ catalog[t] = Absent,
           leaked \subseteq leaked', leaked' \subseteq Tables,
           sent' \in 0 .. MaxQueries, drops' \in 0 .. MaxDrops,
           to \in Locked => writer \in {q, Nobody},
           writer' = IF to \in Locked THEN q ELSE IF writer = q THEN Nobody ELSE writer,
           JobOK(j, to), ReplacedOK(j, to, leaked'), Hides(j, to, catalog'), Exact(j, to, stored),
           \A t \in Tables : Transient(catalog'[t]) =>
               \/ t \in leaked'
               \/ to \in Locked /\ t \in DOMAIN j.replaced
               \/ to \notin Locked /\ writer # q /\ Transient(catalog[t])
    PROVE  FedInv'
<1>1. /\ at'[q] = to /\ job'[q] = j /\ job' = [x \in Slots |-> job'[x]] /\ at' \in [Slots -> Places]
      /\ \A x \in Slots : x # q => at'[x] = at[x] /\ job'[x] = job[x]
    BY DEF FedInv, TypeOK
<1>2. Nobody \notin Slots
    BY FederationAssumption
<1>3. /\ writer \in Slots \cup {Nobody}
      /\ \A x \in Slots : at[x] \in Locked <=> writer = x
    BY DEF FedInv, TypeOK, Locked
<1>4. /\ writer' \in Slots \cup {Nobody}
      /\ \A x \in Slots : at'[x] \in Locked <=> writer' = x
    <2>1. writer' \in Slots \cup {Nobody}
        BY <1>3
    <2>2. ASSUME NEW x \in Slots, x # q PROVE at'[x] \in Locked <=> writer' = x
        BY <1>1, <1>2, <1>3, <2>2
    <2>3. at'[q] \in Locked <=> writer' = q
        BY <1>1, <1>2
    <2> QED
        BY <2>1, <2>2, <2>3
<1>5. TypeOK'
    BY <1>1, <1>4 DEF FedInv, TypeOK, Locked
<1>6. ASSUME NEW x \in Slots
      PROVE  /\ JobOK(job'[x], at'[x]) /\ ReplacedOK(job'[x], at'[x], leaked')
             /\ Hides(job'[x], at'[x], catalog') /\ Exact(job'[x], at'[x], stored')
    <2>1. CASE x = q
        BY <1>1, <2>1
    <2>2. CASE x # q
        <3>1. /\ JobOK(job[x], at[x]) /\ ReplacedOK(job[x], at[x], leaked)
              /\ Hides(job[x], at[x], catalog) /\ Exact(job[x], at[x], stored)
            BY DEF FedInv, QueryInv
        <3>2. at[x] \in Locked => \A t \in Tables : catalog'[t] = catalog[t] \/ catalog[t] = Absent
            BY <1>3, <2>2
        <3>3. job[x].sql \in Requests
            BY <3>1 DEF JobOK
        <3>4. Hides(job[x], at[x], catalog')
            BY <3>1, <3>2, <3>3, HidesStays
        <3>5. ReplacedOK(job[x], at[x], leaked')
            BY <3>1 DEF ReplacedOK
        <3> QED
            BY <1>1, <2>2, <3>1, <3>4, <3>5
    <2> QED
        BY <2>1, <2>2
<1>7. CatalogRestored'
    <2> SUFFICES ASSUME NEW t \in Tables, Transient(catalog'[t]), t \notin leaked'
                 PROVE  writer' # Nobody /\ t \in DOMAIN job'[writer'].replaced
        BY DEF CatalogRestored
    <2>1. CASE to \in Locked /\ t \in DOMAIN j.replaced
        BY <1>1, <1>2, <2>1
    <2>2. CASE to \notin Locked /\ writer # q /\ Transient(catalog[t])
        <3>1. writer # Nobody /\ t \in DOMAIN job[writer].replaced
            BY <2>2 DEF FedInv, CatalogRestored
        <3> QED
            BY <1>1, <1>3, <2>2, <3>1
    <2> QED
        BY <2>1, <2>2
<1> QED
    BY <1>1, <1>5, <1>6, <1>7 DEF FedInv, QueryInv

(* A step that leaves the catalog alone: the query keeps what it has to put
   back, or it has nothing, or leaves it behind. *)
LEMMA QuietStep ==
    ASSUME FedInv, NEW q \in Slots, NEW to \in Places, NEW j,
           at' = [at EXCEPT ![q] = to], job' = [job EXCEPT ![q] = j],
           UNCHANGED <<buffered, staged, stored, landing, mapped, catalog>>,
           leaked \subseteq leaked', leaked' \subseteq Tables,
           sent' \in 0 .. MaxQueries, drops' \in 0 .. MaxDrops,
           to \in Locked => writer \in {q, Nobody},
           writer' = IF to \in Locked THEN q ELSE IF writer = q THEN Nobody ELSE writer,
           JobOK(j, to), ReplacedOK(j, to, leaked'), Hides(j, to, catalog), Exact(j, to, stored),
           writer = q => \/ DOMAIN job[q].replaced \subseteq leaked'
                         \/ to \in Locked /\ j.replaced = job[q].replaced
    PROVE  FedInv'
<1>1. DOMAIN catalog = Tables /\ \A t \in Tables : IsProvider(catalog[t])
    BY DEF FedInv, TypeOK
<1>2. ASSUME NEW t \in Tables, Transient(catalog[t])
      PROVE  \/ t \in leaked'
             \/ to \in Locked /\ t \in DOMAIN j.replaced
             \/ to \notin Locked /\ writer # q
    <2>1. t \in leaked \/ (writer # Nobody /\ t \in DOMAIN job[writer].replaced)
        BY <1>2 DEF FedInv, CatalogRestored
    <2> QED
        BY <2>1
<1> QED
    BY <1>1, <1>2, QueryStep

-----------------------------------------------------------------------------
(* The beginning and the end of a query *)

(* A query that starts, at first or again, has turned nothing yet. *)
LEMMA StartOK ==
    ASSUME NEW s \in Requests, NEW j, NEW left, NEW cat, NEW st,
           DOMAIN j = JobFields, j.sql = s, j.next = 1, j.got = {}, j.replaced = NoneReplaced,
           s.mode = "history" => j.due \subseteq st
    PROVE  /\ JobOK(j, Start(s)) /\ ReplacedOK(j, Start(s), left)
           /\ Hides(j, Start(s), cat) /\ Exact(j, Start(s), st)
<1>1. Start(s) \in {"queued", "unlocked"}
    BY DEF Start
<1>2. Start(s) = "unlocked" => s.mode # "history" /\ s.named = << >>
    BY DEF Start
<1>3. JobOK(j, Start(s))
    <2>1. Start(j.sql) = Start(s)
        BY Zenon
    <2> QED
        BY <1>1, <1>2, <2>1 DEF JobOK, Locked
<1>4. ReplacedOK(j, Start(s), left)
    BY DEF ReplacedOK, NoneReplaced
<1> QED
    BY <1>1, <1>3, <1>4 DEF Hides, Exact, Locked

LEMMA SubmitStep ==
    ASSUME FedInv, NEW q \in Slots, NEW s \in Requests, Submit(q, s)
    PROVE  FedInv'
<1> DEFINE j == [Fresh(s) EXCEPT
                     !.due = CASE s.mode = "history" -> stored
                               [] s.mode = "all" -> buffered \cup stored
                               [] s.mode = "buffer" -> {},
                     !.settled = IF s.mode = "buffer" THEN {} ELSE stored \ buffered]
<1>1. /\ at[q] = "idle" /\ at' = [at EXCEPT ![q] = Start(s)]
      /\ job' = [job EXCEPT ![q] = j]
      /\ sent' \in 0 .. MaxQueries
      /\ UNCHANGED <<buffered, staged, stored, landing, mapped, catalog, writer, leaked, drops>>
    BY FederationAssumption DEF Submit, Go, Update, rows, server, FedInv, TypeOK
<1>2. DOMAIN Fresh(s) = JobFields /\ Fresh(s).sql = s /\ Fresh(s).next = 1
      /\ Fresh(s).got = {} /\ Fresh(s).replaced = NoneReplaced
    BY FreshOK
<1>3. /\ DOMAIN j = JobFields /\ j.sql = s /\ j.next = 1 /\ j.got = {}
      /\ j.replaced = NoneReplaced
      /\ s.mode = "history" => j.due = stored
    BY <1>2 DEF JobFields
<1> HIDE DEF j
<1>4. /\ JobOK(j, Start(s)) /\ ReplacedOK(j, Start(s), leaked)
      /\ Hides(j, Start(s), catalog) /\ Exact(j, Start(s), stored)
    BY <1>3, StartOK
<1>5. Start(s) \in Places /\ Start(s) \notin Locked
    BY DEF Start, Places, Locked
<1>6. writer # q /\ leaked \subseteq Tables /\ drops \in 0 .. MaxDrops
    BY <1>1 DEF FedInv, TypeOK
<1> QED
    BY <1>1, <1>4, <1>5, <1>6, QuietStep

(* A query without the lock may end at any point. *)
LEMMA FailStep ==
    ASSUME FedInv, NEW q \in Slots, Fails(q), at[q] \notin Locked,
           UNCHANGED <<rows, server, leaked, sent, drops>>
    PROVE  FedInv'
<1>1. at' = [at EXCEPT ![q] = "idle"] /\ job' = [job EXCEPT ![q] = NoQuery]
    BY DEF Fails, Update
<1>2. writer # q /\ leaked \subseteq Tables /\ sent \in 0 .. MaxQueries /\ drops \in 0 .. MaxDrops
    BY DEF FedInv, TypeOK, Locked
<1>3. "idle" \in Places /\ "idle" \notin Locked
    BY DEF Places, Locked
<1> QED
    BY <1>1, <1>2, <1>3, IdleOK, QuietStep DEF rows, server

(* A query that is dropped leaves behind what it would have put back. *)
LEMMA DropStep ==
    ASSUME FedInv, NEW q \in Slots, Drop(q)
    PROVE  FedInv'
<1>1. /\ at' = [at EXCEPT ![q] = "idle"] /\ job' = [job EXCEPT ![q] = NoQuery]
      /\ writer' = IF writer = q THEN Nobody ELSE writer
      /\ leaked' = leaked \cup DOMAIN job[q].replaced
      /\ drops < MaxDrops /\ drops' = drops + 1
      /\ UNCHANGED <<buffered, staged, stored, landing, mapped, catalog, sent>>
    BY DEF Drop, Fails, Update, rows
<1>2. leaked \subseteq Tables /\ sent \in 0 .. MaxQueries /\ drops' \in 0 .. MaxDrops
    BY <1>1, FederationAssumption DEF FedInv, TypeOK
<1>3. "idle" \in Places /\ "idle" \notin Locked
    BY DEF Places, Locked
<1>4. DOMAIN job[q].replaced \subseteq Tables
    <2>1. JobOK(job[q], at[q]) /\ ReplacedOK(job[q], at[q], leaked)
        BY DEF FedInv, QueryInv
    <2> QED
        BY <2>1, TurnOf DEF ReplacedOK, NoneReplaced
<1> QED
    BY <1>1, <1>2, <1>3, <1>4, IdleOK, QuietStep

-----------------------------------------------------------------------------
(* Planning *)

(* What a query has got that planned with the catalog as it is. *)
LEMMA PlannedOK ==
    ASSUME FedInv, NEW q \in Slots, NEW stray, Planned(q, stray),
           \/ at[q] \in {"bind", "unlocked"}
           \/ at[q] = "queued" /\ job[q].sql.mode = "history" /\ writer = Nobody,
           NEW left, NEW cat
    PROVE  \E j : /\ job' = [job EXCEPT ![q] = j]
                  /\ at' = [at EXCEPT ![q] = "collect"]
                  /\ JobOK(j, "collect") /\ ReplacedOK(j, "collect", left)
                  /\ Hides(j, "collect", cat) /\ Exact(j, "collect", stored)
<1> DEFINE o == job[q]
           j == [o EXCEPT !.plan = [t \in Reads(o.sql) |-> catalog[t]],
                          !.replaced = NoneReplaced,
                          !.tainted = leaked \cap Reads(o.sql),
                          !.strayed = stray]
<1>1. /\ job' = [job EXCEPT ![q] = j] /\ at' = [at EXCEPT ![q] = "collect"]
      /\ \A t \in Reads(o.sql) : catalog[t] # Absent
    BY DEF Planned, Update
<1>2. /\ JobOK(o, at[q]) /\ Hides(o, at[q], catalog) /\ Exact(o, at[q], stored)
    BY DEF FedInv, QueryInv
<1>3. /\ DOMAIN j = JobFields /\ j.sql = o.sql /\ j.next = o.next /\ j.got = o.got
      /\ j.plan = [t \in Reads(o.sql) |-> catalog[t]] /\ j.replaced = NoneReplaced
      /\ j.tainted = leaked \cap Reads(o.sql) /\ j.due = o.due
      /\ j.failed = o.failed /\ j.unlisted = o.unlisted
    BY <1>2 DEF JobOK, JobFields
<1> HIDE DEF j
<1>4. JobOK(j, "collect") /\ ReplacedOK(j, "collect", left)
    BY <1>2, <1>3 DEF JobOK, ReplacedOK, Locked, NoneReplaced
<1>5. Hides(j, "collect", cat)
    <2> SUFFICES ASSUME o.sql.mode = "buffer", NEW t \in Reads(o.sql), catalog[t].files
                 PROVE  t \in o.sql.hidden \cup o.failed \cup o.unlisted
        BY <1>3 DEF Hides, Locked
    <2>1. CASE at[q] = "bind"
        <3>1. at[q] \in Locked
            BY <2>1 DEF Locked
        <3>2. Named(o.sql) = Turned(o)
            BY <1>2, <2>1, <3>1, TurnOf
        <3> QED
            BY <1>2, <3>1, <3>2 DEF Hides, Reads
    <2>2. CASE at[q] = "unlocked"
        <3>1. o.sql.named = << >>
            BY <1>2, <2>2 DEF JobOK
        <3> QED
            BY <3>1 DEF Reads, Named
    <2> QED
        BY <2>1, <2>2
<1>6. Exact(j, "collect", stored)
    <2> SUFFICES ASSUME o.sql.mode = "history"
                 PROVE  /\ o.due \subseteq stored
                        /\ leaked \cap Reads(o.sql) = {} =>
                              \A t \in Reads(o.sql) : catalog[t] = Listing
        BY <1>3 DEF Exact
    <2>1. o.due \subseteq stored
        BY <1>2 DEF Exact
    <2>2. writer = Nobody
        BY <1>2 DEF JobOK, Locked
    <2>3. ASSUME NEW t \in Reads(o.sql), t \notin leaked PROVE catalog[t] = Listing
        <3>1. t \in Tables
            BY <1>2, Requested DEF JobOK
        <3>2. IsProvider(catalog[t]) /\ ~Transient(catalog[t])
            BY <2>2, <2>3, <3>1 DEF FedInv, TypeOK, CatalogRestored
        <3> QED
            BY <1>1, <3>2, Providers
    <2> QED
        BY <2>1, <2>3
<1> QED
    BY <1>1, <1>4, <1>5, <1>6

(* A name that is not found ends the query, or sends it to look for new tables. *)
LEMMA UnplannedStep ==
    ASSUME FedInv, NEW q \in Slots, Unplanned(q), at[q] \notin Locked,
           UNCHANGED <<rows, server, leaked, sent, drops>>
    PROVE  FedInv'
<1>1. CASE Fails(q)
    BY <1>1, FailStep
<1>2. CASE ~Fails(q)
    <2>1. /\ job[q].sql.mode # "buffer"
          /\ at' = [at EXCEPT ![q] = "register"] /\ job' = job
        BY <1>2 DEF Unplanned
    <2>2. /\ JobOK(job[q], at[q]) /\ ReplacedOK(job[q], at[q], leaked)
          /\ Exact(job[q], at[q], stored)
        BY DEF FedInv, QueryInv
    <2>3. /\ JobOK(job[q], "register") /\ ReplacedOK(job[q], "register", leaked)
          /\ Hides(job[q], "register", catalog) /\ Exact(job[q], "register", stored)
        BY <2>1, <2>2 DEF JobOK, ReplacedOK, Hides, Exact, Locked
    <2>4. writer # q /\ leaked \subseteq Tables /\ sent \in 0 .. MaxQueries
              /\ drops \in 0 .. MaxDrops
        BY DEF FedInv, TypeOK, Locked
    <2>5. "register" \in Places /\ "register" \notin Locked
        BY DEF Places, Locked
    <2>6. job' = [job EXCEPT ![q] = job[q]]
        BY <2>1 DEF FedInv
    <2> QED
        BY <2>1, <2>3, <2>4, <2>5, <2>6, QuietStep DEF rows, server
<1> QED
    BY <1>1, <1>2

(* Without the lock, or under a read lock. *)
LEMMA PlanStep ==
    ASSUME FedInv, NEW q \in Slots, PlanHistory(q) \/ PlanUnlocked(q)
    PROVE  FedInv'
<1>1. /\ UNCHANGED <<rows, server, leaked, sent, drops>>
      /\ \/ at[q] = "unlocked"
         \/ at[q] = "queued" /\ job[q].sql.mode = "history" /\ writer = Nobody
    BY DEF PlanHistory, PlanUnlocked
<1>2. at[q] \notin Locked /\ writer # q /\ leaked \subseteq Tables
          /\ sent \in 0 .. MaxQueries /\ drops \in 0 .. MaxDrops
    BY <1>1 DEF Locked, FedInv, TypeOK
<1>3. CASE \E stray \in BOOLEAN : Planned(q, stray)
    <2>1. PICK j : /\ job' = [job EXCEPT ![q] = j]
                   /\ at' = [at EXCEPT ![q] = "collect"]
                   /\ JobOK(j, "collect") /\ ReplacedOK(j, "collect", leaked)
                   /\ Hides(j, "collect", catalog) /\ Exact(j, "collect", stored)
        BY <1>1, <1>3, PlannedOK
    <2>2. "collect" \in Places /\ "collect" \notin Locked
        BY DEF Places, Locked
    <2> QED
        BY <1>1, <1>2, <2>1, <2>2, QuietStep DEF rows, server
<1>4. CASE Unplanned(q)
    BY <1>1, <1>2, <1>4, UnplannedStep
<1> QED
    BY <1>3, <1>4 DEF PlanHistory, PlanUnlocked

(* Putting back what was there leaves only what dropped queries left. *)
LEMMA RestoredOK ==
    ASSUME FedInv, NEW q \in Slots, at[q] \in Locked
    PROVE  /\ writer = q /\ DOMAIN Restored(q) = Tables
           /\ \A t \in Tables : /\ IsProvider(Restored(q)[t])
                                /\ Transient(Restored(q)[t]) => t \in leaked
<1>1. writer = q /\ q # Nobody
    BY FederationAssumption DEF FedInv, TypeOK, Locked
<1>2. ReplacedOK(job[q], at[q], leaked)
    BY DEF FedInv, QueryInv
<1>3. ASSUME NEW t \in Tables
      PROVE  IsProvider(Restored(q)[t]) /\ (Transient(Restored(q)[t]) => t \in leaked)
    <2>1. Restored(q)[t] = IF t \in DOMAIN job[q].replaced THEN job[q].replaced[t] ELSE catalog[t]
        BY DEF Restored
    <2>2. IsProvider(catalog[t]) /\ (Transient(catalog[t]) => t \in leaked \/ t \in DOMAIN job[q].replaced)
        BY <1>1 DEF FedInv, TypeOK, CatalogRestored
    <2> QED
        BY <1>2, <2>1, <2>2 DEF ReplacedOK
<1> QED
    BY <1>1, <1>3 DEF Restored

LEMMA UnlockStep ==
    ASSUME FedInv, NEW q \in Slots, Misfit(q) \/ BindLocked(q)
    PROVE  FedInv'
<1>1. /\ at[q] \in Locked /\ writer' = Nobody /\ catalog' = Restored(q)
      /\ UNCHANGED <<buffered, staged, stored, landing, mapped, leaked, sent, drops>>
      /\ FallBack(q) \/ (at[q] = "bind" /\ Planned(q, FALSE))
    BY DEF Misfit, BindLocked, Unlock, Locked, rows
<1>2. /\ writer = q /\ DOMAIN catalog' = Tables
      /\ \A t \in Tables : IsProvider(catalog'[t]) /\ (Transient(catalog'[t]) => t \in leaked)
    BY <1>1, RestoredOK
<1>3. leaked \subseteq Tables /\ sent \in 0 .. MaxQueries /\ drops \in 0 .. MaxDrops
    BY DEF FedInv, TypeOK
<1>4. \E to \in Places \ Locked : \E j :
          /\ job' = [job EXCEPT ![q] = j] /\ at' = [at EXCEPT ![q] = to]
          /\ JobOK(j, to) /\ ReplacedOK(j, to, leaked)
          /\ Hides(j, to, catalog') /\ Exact(j, to, stored)
    <2>1. {"idle", "unlocked", "collect"} \subseteq Places \ Locked
        BY DEF Places, Locked
    <2>2. CASE at[q] = "bind" /\ Planned(q, FALSE)
        BY <2>1, <2>2, PlannedOK
    <2>3. CASE FallBack(q) /\ job[q].sql.mode = "buffer"
        <3>1. at' = [at EXCEPT ![q] = "idle"] /\ job' = [job EXCEPT ![q] = NoQuery]
            BY <2>3 DEF FallBack, Fails, Update
        <3> QED
            BY <2>1, <3>1, IdleOK
    <2>4. CASE FallBack(q) /\ job[q].sql.mode # "buffer"
        <3> DEFINE j == [job[q] EXCEPT !.replaced = NoneReplaced, !.got = {}]
        <3>1. at' = [at EXCEPT ![q] = "unlocked"] /\ job' = [job EXCEPT ![q] = j]
            BY <2>4 DEF FallBack, Update
        <3>2. JobOK(job[q], at[q])
            BY DEF FedInv, QueryInv
        <3>3. /\ DOMAIN j = JobFields /\ j.sql = job[q].sql /\ j.next = job[q].next
              /\ j.got = {} /\ j.replaced = NoneReplaced
            BY <3>2 DEF JobOK, JobFields
        <3> HIDE DEF j
        <3>4. j.sql.mode # "buffer" /\ j.sql.mode # "history"
            BY <1>1, <2>4, <3>2, <3>3 DEF JobOK
        <3>5. /\ JobOK(j, "unlocked") /\ ReplacedOK(j, "unlocked", leaked)
              /\ Hides(j, "unlocked", catalog') /\ Exact(j, "unlocked", stored)
            BY <3>2, <3>3, <3>4 DEF JobOK, ReplacedOK, Hides, Exact, Locked, NoneReplaced
        <3> QED
            BY <2>1, <3>1, <3>5
    <2> QED
        BY <1>1, <2>2, <2>3, <2>4
<1> QED
    BY <1>1, <1>2, <1>3, <1>4, QueryStep

(* A table that was not there is listed, and the query starts again. *)
LEMMA RegisterStep ==
    ASSUME FedInv, NEW q \in Slots, Register(q)
    PROVE  FedInv'
<1> DEFINE o == job[q]
           j == [Fresh(o.sql) EXCEPT !.again = TRUE, !.due = o.due, !.settled = o.settled]
<1>1. /\ at[q] = "register"
      /\ UNCHANGED <<buffered, staged, stored, landing, mapped, writer, leaked, sent, drops>>
    BY DEF Register, rows
<1>2. /\ DOMAIN catalog' = Tables
      /\ \A t \in Tables : catalog'[t] = catalog[t]
                              \/ (catalog[t] = Absent /\ catalog'[t] = Listing)
    <2>1. PICK found \in SUBSET {t \in Tables : catalog[t] = Absent} :
              catalog' = [t \in Tables |-> IF t \in found THEN Listing ELSE catalog[t]]
        BY DEF Register
    <2> QED
        BY <2>1
<1>3. /\ \A t \in Tables : IsProvider(catalog'[t])
      /\ \A t \in Tables : Transient(catalog'[t]) => Transient(catalog[t])
    BY <1>2, Providers DEF FedInv, TypeOK
<1>4. writer # q /\ leaked \subseteq Tables /\ sent \in 0 .. MaxQueries /\ drops \in 0 .. MaxDrops
    BY <1>1 DEF FedInv, TypeOK
<1>5. JobOK(o, at[q]) /\ Exact(o, at[q], stored)
    BY DEF FedInv, QueryInv
<1>6. \E to \in Places \ Locked : \E x :
          /\ job' = [job EXCEPT ![q] = x] /\ at' = [at EXCEPT ![q] = to]
          /\ JobOK(x, to) /\ ReplacedOK(x, to, leaked)
          /\ Hides(x, to, catalog') /\ Exact(x, to, stored)
    <2>1. CASE at' = [at EXCEPT ![q] = Start(o.sql)] /\ job' = [job EXCEPT ![q] = j]
        <3>1. o.sql \in Requests
            BY <1>5 DEF JobOK
        <3>2. DOMAIN Fresh(o.sql) = JobFields /\ Fresh(o.sql).sql = o.sql /\ Fresh(o.sql).next = 1
              /\ Fresh(o.sql).got = {} /\ Fresh(o.sql).replaced = NoneReplaced
            BY <3>1, FreshOK
        <3>3. /\ DOMAIN j = JobFields /\ j.sql = o.sql /\ j.next = 1 /\ j.got = {}
              /\ j.replaced = NoneReplaced /\ j.due = o.due
            BY <3>2 DEF JobFields
        <3> HIDE DEF j
        <3>4. o.sql.mode = "history" => o.due \subseteq stored
            BY <1>5 DEF Exact
        <3>5. /\ JobOK(j, Start(o.sql)) /\ ReplacedOK(j, Start(o.sql), leaked)
              /\ Hides(j, Start(o.sql), catalog') /\ Exact(j, Start(o.sql), stored)
            BY <3>1, <3>3, <3>4, StartOK
        <3>6. Start(o.sql) \in Places \ Locked
            BY DEF Start, Places, Locked
        <3> QED
            BY <2>1, <3>5, <3>6
    <2>2. CASE Fails(q)
        <3>1. at' = [at EXCEPT ![q] = "idle"] /\ job' = [job EXCEPT ![q] = NoQuery]
            BY <2>2 DEF Fails, Update
        <3>2. "idle" \in Places \ Locked
            BY DEF Places, Locked
        <3> QED
            BY <3>1, <3>2, IdleOK
    <2> QED
        BY <2>1, <2>2 DEF Register, Update
<1> QED
    BY <1>1, <1>2, <1>3, <1>4, <1>6, QueryStep

-----------------------------------------------------------------------------
(* Under the lock *)

(* A query that waits for the lock has its first turn before it. *)
LEMMA FirstTurn ==
    ASSUME NEW j, NEW place, place = "queued", JobOK(j, place), j.sql.mode # "history"
    PROVE  j.next \in 1 .. Len(j.sql.named) /\ Turned(j) = {}
<1>1. j.next = 1 /\ j.sql.named # << >>
    BY DEF JobOK, Start
<1>2. j.sql.named \in Seq(Tables) /\ Len(j.sql.named) \in Nat
    BY Requested DEF JobOK
<1>3. Len(j.sql.named) # 0
    BY <1>1, <1>2, EmptySeq
<1>4. 1 .. j.next - 1 = {}
    BY <1>1
<1> QED
    BY <1>1, <1>2, <1>3, <1>4 DEF Turned

(* A query that goes on with the table whose turn it is. *)
LEMMA TurnStep ==
    ASSUME FedInv, NEW q \in Slots, NEW to \in Locked \ {"bind"}, NEW j,
           at[q] \in Locked \ {"bind"} \/ (at[q] = "queued" /\ to = "turn" /\ writer = Nobody),
           at' = [at EXCEPT ![q] = to], job' = [job EXCEPT ![q] = j], writer' = q,
           UNCHANGED <<rows, mapped, catalog, leaked, sent, drops>>,
           job[q].sql.mode # "history",
           DOMAIN j = JobFields, j.sql = job[q].sql, j.next = job[q].next,
           j.got \subseteq Rows, j.replaced = job[q].replaced,
           job[q].failed \subseteq j.failed, j.unlisted = job[q].unlisted
    PROVE  FedInv'
<1> DEFINE o == job[q]
<1>1. JobOK(o, at[q]) /\ ReplacedOK(o, at[q], leaked) /\ Hides(o, at[q], catalog)
    BY DEF FedInv, QueryInv
<1>2. to \in {"turn", "fetch"} /\ to \in Places /\ leaked \subseteq Tables
          /\ sent \in 0 .. MaxQueries /\ drops \in 0 .. MaxDrops
    BY DEF Locked, Places, FedInv, TypeOK
<1>3. writer \in {q, Nobody} /\ (at[q] = "queued" => writer # q)
    BY DEF FedInv, TypeOK, Locked
<1>4. j.next \in 1 .. Len(j.sql.named)
    <2>1. CASE at[q] = "queued"
        <3>1. o.next \in 1 .. Len(o.sql.named)
            BY <1>1, <2>1, FirstTurn
        <3> QED
            BY <3>1, Zenon
    <2>2. CASE at[q] \in {"turn", "fetch"}
        <3>1. o.next \in 1 .. Len(o.sql.named)
            BY <1>1, <2>2 DEF JobOK
        <3> QED
            BY <3>1, Zenon
    <2> QED
        BY <2>1, <2>2 DEF Locked
<1>5. Turned(j) = Turned(o)
    BY Zenon DEF Turned
<1>6. at[q] = "queued" => Turned(o) = {} /\ o.replaced = NoneReplaced
    BY <1>1, FirstTurn DEF ReplacedOK, Locked
<1>7. JobOK(j, to)
    BY <1>1, <1>2, <1>4 DEF JobOK
<1>8. ReplacedOK(j, to, leaked)
    BY <1>1, <1>5 DEF ReplacedOK
<1>9. Hides(j, to, catalog)
    BY <1>1, <1>2, <1>5, <1>6 DEF Hides, Locked
<1>10. Exact(j, to, stored)
    BY DEF Exact
<1> QED
    BY <1>2, <1>3, <1>7, <1>8, <1>9, <1>10, QuietStep DEF rows

LEMMA AskStep ==
    ASSUME FedInv, NEW q \in Slots,
           LockWrite(q) \/ Ask(q) \/ \E a \in Agents : Reply(q, a) \/ NoReply(q, a)
    PROVE  FedInv'
<1>1. JobOK(job[q], at[q]) /\ job = [x \in Slots |-> job[x]] /\ at \in [Slots -> Places]
          /\ (at[q] \in Locked <=> writer = q)
    BY DEF FedInv, QueryInv, TypeOK, Locked
<1>2. DOMAIN job[q] = JobFields /\ job[q].got \subseteq Rows
          /\ (at[q] \in Locked => job[q].sql.mode # "history")
    BY <1>1 DEF JobOK
<1>3. \E to \in Locked \ {"bind"} : \E j :
          /\ at[q] \in Locked \ {"bind"} \/ (at[q] = "queued" /\ to = "turn" /\ writer = Nobody)
          /\ at' = [at EXCEPT ![q] = to] /\ job' = [job EXCEPT ![q] = j] /\ writer' = q
          /\ UNCHANGED <<rows, mapped, catalog, leaked, sent, drops>>
          /\ job[q].sql.mode # "history"
          /\ DOMAIN j = JobFields /\ j.sql = job[q].sql /\ j.next = job[q].next
          /\ j.got \subseteq Rows /\ j.replaced = job[q].replaced
          /\ job[q].failed \subseteq j.failed /\ j.unlisted = job[q].unlisted
    <2>1. CASE LockWrite(q)
        <3>1. /\ at[q] = "queued" /\ writer = Nobody /\ writer' = q /\ job' = job
              /\ at' = [at EXCEPT ![q] = "turn"] /\ job[q].sql.mode # "history"
              /\ UNCHANGED <<rows, mapped, catalog, leaked, sent, drops>>
            BY <2>1 DEF LockWrite, Go
        <3>2. job' = [job EXCEPT ![q] = job[q]] /\ "turn" \in Locked \ {"bind"}
            BY <1>1, <3>1 DEF Locked
        <3> QED
            BY <1>2, <3>1, <3>2
    <2>2. CASE Ask(q)
        <3> DEFINE known == {a \in Agents : <<a, ThisTable(q)>> \in mapped}
                   j == [job[q] EXCEPT !.asked = known,
                             !.unasked = @ \cup {r \in RowsOf(ThisTable(q)) : RowAgent[r] \notin known}]
        <3>1. /\ at[q] = "turn" /\ at' = [at EXCEPT ![q] = "fetch"]
              /\ job' = [job EXCEPT ![q] = j]
              /\ UNCHANGED <<rows, mapped, catalog, writer, leaked, sent, drops>>
            BY <2>2, Zenon DEF Ask, Go, Update, server
        <3>2. /\ DOMAIN j = JobFields /\ j.sql = job[q].sql /\ j.next = job[q].next
              /\ j.got = job[q].got /\ j.replaced = job[q].replaced
              /\ j.failed = job[q].failed /\ j.unlisted = job[q].unlisted
            BY <1>2 DEF JobFields
        <3> HIDE DEF j
        <3>3. {"turn", "fetch"} = Locked \ {"bind"}
            BY DEF Locked
        <3> QED
            BY <1>1, <1>2, <3>1, <3>2, <3>3
    <2>3. ASSUME NEW a \in Agents, Reply(q, a) \/ NoReply(q, a)
          PROVE  \E j : /\ at[q] = "fetch" /\ job' = [job EXCEPT ![q] = j]
                        /\ UNCHANGED <<at, rows, server, leaked, sent, drops>>
                        /\ DOMAIN j = JobFields /\ j.sql = job[q].sql /\ j.next = job[q].next
                        /\ j.got \subseteq Rows /\ j.replaced = job[q].replaced
                        /\ job[q].failed \subseteq j.failed /\ j.unlisted = job[q].unlisted
        <3> DEFINE sends == Held(a, ThisTable(q), job[q].sql.where)
                   j == [job[q] EXCEPT !.asked = @ \ {a}, !.got = @ \cup sends]
                   k == [job[q] EXCEPT !.asked = @ \ {a}, !.skipped = TRUE]
        <3>1. sends \subseteq Rows
            BY DEF Held, FedInv, TypeOK
        <3>2. /\ DOMAIN j = JobFields /\ j.sql = job[q].sql /\ j.next = job[q].next
              /\ j.got = job[q].got \cup sends /\ j.replaced = job[q].replaced
              /\ j.failed = job[q].failed /\ j.unlisted = job[q].unlisted
            BY <1>2 DEF JobFields
        <3>3. /\ DOMAIN k = JobFields /\ k.sql = job[q].sql /\ k.next = job[q].next
              /\ k.got = job[q].got /\ k.replaced = job[q].replaced
              /\ k.failed = job[q].failed /\ k.unlisted = job[q].unlisted
            BY <1>2 DEF JobFields
        <3>4. CASE Reply(q, a)
            <4>1. at[q] = "fetch" /\ job' = [job EXCEPT ![q] = j]
                      /\ UNCHANGED <<at, rows, server, leaked, sent, drops>>
                BY <3>4, Zenon DEF Reply, Update
            <4> HIDE DEF j, sends
            <4> QED
                BY <1>2, <3>1, <3>2, <4>1
        <3>5. CASE NoReply(q, a)
            <4>1. at[q] = "fetch" /\ job' = [job EXCEPT ![q] = k]
                      /\ UNCHANGED <<at, rows, server, leaked, sent, drops>>
                BY <3>5, Zenon DEF NoReply, Update
            <4> HIDE DEF k
            <4> QED
                BY <1>2, <3>3, <4>1
        <3> QED
            BY <2>3, <3>4, <3>5
    <2>4. CASE \E a \in Agents : Reply(q, a) \/ NoReply(q, a)
        <3>1. PICK j : /\ at[q] = "fetch" /\ job' = [job EXCEPT ![q] = j]
                       /\ UNCHANGED <<at, rows, server, leaked, sent, drops>>
                       /\ DOMAIN j = JobFields /\ j.sql = job[q].sql /\ j.next = job[q].next
                       /\ j.got \subseteq Rows /\ j.replaced = job[q].replaced
                       /\ job[q].failed \subseteq j.failed /\ j.unlisted = job[q].unlisted
            BY <2>3, <2>4
        <3>2. at' = [at EXCEPT ![q] = "fetch"] /\ "fetch" \in Locked \ {"bind"}
            BY <1>1, <3>1 DEF Locked
        <3>3. writer' = q /\ UNCHANGED <<mapped, catalog>>
            BY <1>1, <3>1, <3>2 DEF server
        <3> QED
            BY <1>2, <3>1, <3>2, <3>3
    <2> QED
        BY <2>1, <2>2, <2>4
<1>4. PICK to \in Locked \ {"bind"} : \E j :
          /\ at[q] \in Locked \ {"bind"} \/ (at[q] = "queued" /\ to = "turn" /\ writer = Nobody)
          /\ at' = [at EXCEPT ![q] = to] /\ job' = [job EXCEPT ![q] = j] /\ writer' = q
          /\ UNCHANGED <<rows, mapped, catalog, leaked, sent, drops>>
          /\ job[q].sql.mode # "history"
          /\ DOMAIN j = JobFields /\ j.sql = job[q].sql /\ j.next = job[q].next
          /\ j.got \subseteq Rows /\ j.replaced = job[q].replaced
          /\ job[q].failed \subseteq j.failed /\ j.unlisted = job[q].unlisted
    BY <1>3, Zenon
<1>5. PICK j :
          /\ at[q] \in Locked \ {"bind"} \/ (at[q] = "queued" /\ to = "turn" /\ writer = Nobody)
          /\ at' = [at EXCEPT ![q] = to] /\ job' = [job EXCEPT ![q] = j] /\ writer' = q
          /\ UNCHANGED <<rows, mapped, catalog, leaked, sent, drops>>
          /\ job[q].sql.mode # "history"
          /\ DOMAIN j = JobFields /\ j.sql = job[q].sql /\ j.next = job[q].next
          /\ j.got \subseteq Rows /\ j.replaced = job[q].replaced
          /\ job[q].failed \subseteq j.failed /\ j.unlisted = job[q].unlisted
    BY <1>4, Zenon
<1> QED
    BY <1>5, TurnStep

(* Where a query is when a table has had its turn. *)
LEMMA NextTurnOK ==
    ASSUME FedInv, NEW q \in Slots, at[q] \in Locked \ {"bind"}, NEW j,
           DOMAIN j = JobFields, j.sql = job[q].sql, j.next = job[q].next + 1, j.got \subseteq Rows
    PROVE  /\ NextTurn(q) \in Locked /\ NextTurn(q) \in Places
           /\ JobOK(j, NextTurn(q))
           /\ ThisTable(q) \in Tables \ Turned(job[q])
           /\ Turned(j) = Turned(job[q]) \cup {ThisTable(q)}
           /\ \A st : Exact(j, NextTurn(q), st)
<1> DEFINE o == job[q]
           to == NextTurn(q)
<1>1. JobOK(o, at[q])
    BY DEF FedInv, QueryInv
<1>2. /\ o.sql.named[o.next] \in Tables \ Turned(o)
      /\ o.next + 1 \in Nat
      /\ o.next < Len(o.sql.named) => o.next + 1 \in 1 .. Len(o.sql.named)
      /\ ~(o.next < Len(o.sql.named)) => o.next + 1 = Len(o.sql.named) + 1
      /\ {o.sql.named[i] : i \in 1 .. (o.next + 1) - 1} = Turned(o) \cup {o.sql.named[o.next]}
    BY <1>1, TurnOf
<1>3. to = IF o.next < Len(o.sql.named) THEN "turn" ELSE "bind"
    BY DEF NextTurn
<1>4. o.sql.mode # "history" /\ o.sql \in Requests
    BY <1>1 DEF JobOK
<1>5. Turned(j) = {o.sql.named[i] : i \in 1 .. (o.next + 1) - 1}
    BY Zenon DEF Turned
<1>6. to \in Locked /\ to \in Places /\ to \in {"turn", "bind"}
    BY <1>3 DEF Locked, Places
<1> HIDE DEF to
<1>7. JobOK(j, to)
    BY <1>2, <1>3, <1>4, <1>6 DEF JobOK
<1>8. \A st : Exact(j, to, st)
    BY <1>4 DEF Exact
<1> QED
    BY <1>2, <1>5, <1>6, <1>7, <1>8, Zenon DEF to, ThisTable

LEMMA ListFailsStep ==
    ASSUME FedInv, NEW q \in Slots, ListFails(q)
    PROVE  FedInv'
<1> DEFINE o == job[q]
           j == [o EXCEPT !.next = @ + 1, !.failed = @ \cup {ThisTable(q)},
                          !.unasked = @ \cup RowsOf(ThisTable(q))]
<1>1. /\ at[q] = "turn" /\ at' = [at EXCEPT ![q] = NextTurn(q)] /\ job' = [job EXCEPT ![q] = j]
      /\ UNCHANGED <<rows, server, leaked, sent, drops>>
    BY Zenon DEF ListFails, Go, Update
<1>2. JobOK(o, at[q]) /\ ReplacedOK(o, at[q], leaked) /\ Hides(o, at[q], catalog)
    BY DEF FedInv, QueryInv
<1>3. at[q] \in Locked \ {"bind"} /\ writer = q /\ leaked \subseteq Tables
          /\ sent \in 0 .. MaxQueries /\ drops \in 0 .. MaxDrops
    BY <1>1 DEF FedInv, TypeOK, Locked
<1>4. /\ DOMAIN j = JobFields /\ j.sql = o.sql /\ j.next = o.next + 1 /\ j.got = o.got
      /\ j.replaced = o.replaced /\ j.failed = o.failed \cup {ThisTable(q)}
      /\ j.unlisted = o.unlisted
    BY <1>2 DEF JobOK, JobFields
<1> HIDE DEF j
<1>5. j.got \subseteq Rows
    BY <1>2, <1>4 DEF JobOK
<1>6. /\ NextTurn(q) \in Locked /\ NextTurn(q) \in Places /\ JobOK(j, NextTurn(q))
      /\ Turned(j) = Turned(o) \cup {ThisTable(q)}
      /\ Exact(j, NextTurn(q), stored)
    BY <1>3, <1>4, <1>5, NextTurnOK
<1>7. ReplacedOK(j, NextTurn(q), leaked)
    BY <1>2, <1>4, <1>6 DEF ReplacedOK
<1>8. Hides(j, NextTurn(q), catalog)
    BY <1>2, <1>3, <1>4, <1>6 DEF Hides, Locked
<1> QED
    BY <1>1, <1>3, <1>4, <1>6, <1>7, <1>8, QuietStep DEF rows, server

(* The query's own provider goes in, and what was there is kept. *)
LEMMA SwapStep ==
    ASSUME FedInv, NEW q \in Slots, Swap(q)
    PROVE  FedInv'
<1> DEFINE o == job[q]
           t == ThisTable(q)
           p == catalog[t]
           own == OwnProvider(o.sql.mode, p, o.got)
           before == IF own = {} THEN o.replaced
                     ELSE [u \in DOMAIN o.replaced \cup {t} |-> IF u = t THEN p ELSE o.replaced[u]]
           j == [o EXCEPT !.next = @ + 1, !.got = {}, !.replaced = before,
                          !.unlisted = IF p = Absent THEN @ \cup {t} ELSE @]
<1>1. JobOK(o, at[q]) /\ ReplacedOK(o, at[q], leaked) /\ Hides(o, at[q], catalog)
    BY DEF FedInv, QueryInv
<1>2. DOMAIN o = JobFields /\ o.got \subseteq Rows /\ o.sql \in Requests
    BY <1>1 DEF JobOK
<1>3. /\ at[q] = "fetch" /\ at' = [at EXCEPT ![q] = NextTurn(q)] /\ job' = [job EXCEPT ![q] = j]
      /\ UNCHANGED <<rows, mapped, writer, leaked, sent, drops>>
      /\ IF own = {} THEN UNCHANGED catalog
         ELSE \E new \in own : catalog' = [catalog EXCEPT ![t] = new]
    <2>1. [o EXCEPT !.next = @ + 1, !.got = {},
                    !.replaced = IF own = {} THEN @
                                 ELSE [u \in DOMAIN @ \cup {t} |-> IF u = t THEN p ELSE @[u]],
                    !.unlisted = IF p = Absent THEN @ \cup {t} ELSE @] = j
        BY <1>2 DEF JobFields
    <2> QED
        BY <2>1 DEF Swap, Go, Update, SwapProvider
<1>4. at[q] \in Locked \ {"bind"} /\ writer = q /\ leaked \subseteq Tables
          /\ sent \in 0 .. MaxQueries /\ drops \in 0 .. MaxDrops
          /\ DOMAIN catalog = Tables /\ \A u \in Tables : IsProvider(catalog[u])
    BY <1>3 DEF FedInv, TypeOK, Locked
<1>5. /\ DOMAIN j = JobFields /\ j.sql = o.sql /\ j.next = o.next + 1 /\ j.got = {}
      /\ j.replaced = before /\ j.failed = o.failed
      /\ j.unlisted = IF p = Absent THEN o.unlisted \cup {t} ELSE o.unlisted
    BY <1>2 DEF JobFields
<1> HIDE DEF j
<1>6. /\ NextTurn(q) \in Locked /\ NextTurn(q) \in Places /\ JobOK(j, NextTurn(q))
      /\ t \in Tables /\ t \notin Turned(o) /\ Turned(j) = Turned(o) \cup {t}
      /\ Exact(j, NextTurn(q), stored)
    <2>1. j.got \subseteq Rows
        BY <1>5
    <2> QED
        BY <1>4, <1>5, <2>1, NextTurnOK
<1>7. p = catalog[t] /\ IsProvider(p) /\ o.sql.mode \in {"buffer", "all"}
    BY <1>1, <1>2, <1>4, <1>6, Requested DEF JobOK, Modes
<1>8. /\ \A new \in own : /\ IsProvider(new)
                          /\ o.sql.mode = "buffer" => new # Absent /\ ~new.files
      /\ o.sql.mode = "buffer" /\ own = {} => p = Absent
    <2>1. o.got \in SUBSET Rows /\ {} \in SUBSET Rows
        BY <1>2
    <2> HIDE DEF p
    <2>2. own \subseteq {Union(p, o.got), Memory(o.got), Memory({})}
        BY DEF OwnProvider
    <2>3. o.sql.mode = "buffer" => own \subseteq {Memory(o.got), Memory({})}
        BY DEF OwnProvider
    <2>4. o.sql.mode = "buffer" /\ own = {} => p = Absent
        BY DEF OwnProvider
    <2> QED
        BY <1>7, <2>1, <2>2, <2>3, <2>4, Providers
<1>9. t \notin DOMAIN o.replaced /\ (Transient(p) => t \in leaked)
    <2>1. t \notin DOMAIN o.replaced
        BY <1>1, <1>6 DEF ReplacedOK
    <2> QED
        BY <1>4, <1>6, <2>1 DEF FedInv, CatalogRestored
<1> HIDE DEF own, p, t, o
<1>10. /\ DOMAIN catalog' = Tables
       /\ \A u \in Tables : u # t => catalog'[u] = catalog[u]
       /\ own = {} => catalog'[t] = p
       /\ own # {} => catalog'[t] \in own
    BY <1>3, <1>4, <1>6, <1>7
<1>11. \A u \in Tables : IsProvider(catalog'[u])
    BY <1>4, <1>7, <1>8, <1>10
<1>12. /\ DOMAIN before = IF own = {} THEN DOMAIN o.replaced ELSE DOMAIN o.replaced \cup {t}
       /\ \A u \in DOMAIN o.replaced : before[u] = o.replaced[u]
       /\ own # {} => before[t] = p
    BY <1>9
<1> HIDE DEF before
<1>13. ReplacedOK(j, NextTurn(q), leaked)
    <2>1. DOMAIN before \subseteq Turned(j)
        BY <1>1, <1>6, <1>12 DEF ReplacedOK
    <2>2. ASSUME NEW u \in DOMAIN before
          PROVE  IsProvider(before[u]) /\ (Transient(before[u]) => u \in leaked)
        BY <1>1, <1>7, <1>9, <1>12 DEF ReplacedOK
    <2> QED
        BY <1>5, <1>6, <2>1, <2>2 DEF ReplacedOK
<1>14. Hides(j, NextTurn(q), catalog')
    <2> SUFFICES ASSUME o.sql.mode = "buffer", NEW u \in Turned(j)
                 PROVE  u \in j.failed \cup j.unlisted \/ (catalog'[u] # Absent /\ ~catalog'[u].files)
        BY <1>5, <1>6 DEF Hides, Locked
    <2>1. CASE u = t
        BY <1>5, <1>7, <1>8, <1>10, <2>1
    <2>2. CASE u # t
        <3>1. u \in Turned(o) /\ u \in Tables
            BY <1>1, <1>4, <1>6, <2>2, TurnOf
        <3>2. u \in o.failed \cup o.unlisted \/ (catalog[u] # Absent /\ ~catalog[u].files)
            BY <1>1, <1>4, <3>1 DEF Hides
        <3> QED
            BY <1>5, <1>10, <2>2, <3>1, <3>2
    <2> QED
        BY <2>1, <2>2
<1>15. ASSUME NEW u \in Tables, Transient(catalog'[u])
       PROVE  u \in leaked \/ u \in DOMAIN j.replaced
    <2>1. Transient(catalog[u]) => u \in leaked \/ u \in DOMAIN o.replaced
        BY <1>4 DEF FedInv, CatalogRestored, o
    <2> QED
        BY <1>5, <1>7, <1>9, <1>10, <1>12, <1>15, <2>1
<1> QED
    BY <1>3, <1>4, <1>6, <1>10, <1>11, <1>13, <1>14, <1>15, QueryStep DEF rows

-----------------------------------------------------------------------------
(* The answer *)

(* A history query counts the rows of the files, once each. *)
LEMMA CollectStep ==
    ASSUME FedInv, NEW q \in Slots, Collect(q)
    PROVE  FedInv'
<1> DEFINE o == job[q]
           counts == [r \in {x \in Rows : Wanted(o.sql, x)} |-> Copies(o.plan[RowTable[r]], r)]
           plans == [t \in DOMAIN o.plan |-> Provider(o.plan[t].files, << >>)]
           j == [o EXCEPT !.count = counts, !.apart = staged, !.plan = plans]
<1>1. JobOK(o, at[q]) /\ ReplacedOK(o, at[q], leaked) /\ Hides(o, at[q], catalog)
          /\ Exact(o, at[q], stored)
    BY DEF FedInv, QueryInv
<1>2. /\ at[q] = "collect" /\ at' = [at EXCEPT ![q] = "done"] /\ job' = [job EXCEPT ![q] = j]
      /\ UNCHANGED <<rows, server, leaked, sent, drops>>
    <2>1. DOMAIN o = JobFields
        BY <1>1 DEF JobOK
    <2>2. [o EXCEPT !.count = counts, !.apart = staged,
                    !.plan = [t \in DOMAIN @ |-> Provider(@[t].files, << >>)]] = j
        BY <2>1 DEF JobFields
    <2> QED
        BY <2>2 DEF Collect, Go, Update
<1>3. writer # q /\ leaked \subseteq Tables /\ sent \in 0 .. MaxQueries /\ drops \in 0 .. MaxDrops
          /\ "done" \in Places /\ "done" \notin Locked /\ "collect" \notin Locked
    BY <1>2 DEF FedInv, TypeOK, Locked, Places
<1>4. /\ DOMAIN j = JobFields /\ j.sql = o.sql /\ j.next = o.next /\ j.got = o.got
      /\ j.replaced = o.replaced /\ j.count = counts /\ j.plan = plans
      /\ j.failed = o.failed /\ j.unlisted = o.unlisted
      /\ j.due = o.due /\ j.tainted = o.tainted
    BY <1>1 DEF JobOK, JobFields
<1> HIDE DEF j
<1>5. JobOK(j, "done") /\ ReplacedOK(j, "done", leaked)
    <2>1. Turned(j) = Turned(o)
        BY <1>4, Zenon DEF Turned
    <2> QED
        BY <1>1, <1>2, <1>3, <1>4, <2>1 DEF JobOK, ReplacedOK
<1>6. Hides(j, "done", catalog)
    BY <1>1, <1>2, <1>3, <1>4 DEF Hides, Provider
<1>7. Exact(j, "done", stored)
    <2> SUFFICES ASSUME o.sql.mode = "history", o.tainted = {}, NEW r \in DOMAIN counts
                 PROVE  counts[r] <= 1 /\ (r \in o.due => counts[r] = 1)
        BY <1>1, <1>4 DEF Exact
    <2>1. o.plan[RowTable[r]] = Listing
        BY <1>1, <1>2 DEF Exact, Wanted
    <2>2. counts[r] = (IF r \in stored THEN 1 ELSE 0) + Cardinality({})
        <3>1. Listing.files /\ {i \in DOMAIN Listing.mems : r \in Listing.mems[i]} = {}
            BY DEF Listing, Provider
        <3> QED
            BY <2>1, <3>1 DEF Copies
    <2>3. Cardinality({}) = 0
        BY FS_EmptySet
    <2>4. r \in o.due => r \in stored
        BY <1>1 DEF Exact
    <2> HIDE DEF counts
    <2> QED
        BY <2>2, <2>3, <2>4
<1> QED
    BY <1>2, <1>3, <1>5, <1>6, <1>7, QuietStep DEF rows, server

-----------------------------------------------------------------------------
(* Rows on their way: more rows are in files, and a table may get listed. *)
LEMMA MoveStep ==
    ASSUME FedInv, NEW r \in Moving, Move(r)
    PROVE  FedInv'
<1>1. r \in Rows /\ RowAgent[r] \in Agents /\ RowTable[r] \in Tables
    BY FederationAssumption
<1>2. /\ UNCHANGED <<writer, at, job, leaked, sent>>
      /\ stored \subseteq stored' /\ drops' \in 0 .. MaxDrops
      /\ buffered' \subseteq Rows /\ staged' \subseteq Rows /\ stored' \subseteq Rows
      /\ landing' \subseteq stored' /\ mapped' \subseteq Agents \X Tables
    <2>1. /\ buffered \subseteq Rows /\ staged \subseteq Rows /\ stored \subseteq Rows
          /\ landing \subseteq stored /\ mapped \subseteq Agents \X Tables
          /\ drops \in 0 .. MaxDrops /\ MaxDrops \in Nat
        BY FederationAssumption DEF FedInv, TypeOK
    <2>2. CASE Upload(r)
        BY <1>1, <2>1, <2>2 DEF Upload, server
    <2>3. CASE Announce(r)
        BY <1>1, <2>1, <2>3 DEF Announce
    <2>4. CASE Unannounced(r)
        BY <1>1, <2>1, <2>4 DEF Unannounced, server
    <2>5. CASE Stage(r)
        BY <1>1, <2>1, <2>5 DEF Stage, server
    <2>6. CASE Drain(r)
        BY <1>1, <2>1, <2>6 DEF Drain, server
    <2>7. CASE Report(r)
        BY <1>1, <2>1, <2>7 DEF Report, rows
    <2> QED
        BY <2>2, <2>3, <2>4, <2>5, <2>6, <2>7 DEF Move
<1>3. \/ UNCHANGED catalog
      \/ catalog[RowTable[r]] = Absent /\ SwapProvider(RowTable[r], Listing)
    BY DEF Move, Upload, Announce, Unannounced, Stage, Drain, Report, server
<1>4. DOMAIN catalog = Tables /\ \A t \in Tables : IsProvider(catalog[t])
    BY DEF FedInv, TypeOK
<1>5. /\ DOMAIN catalog' = Tables
      /\ \A t \in Tables : catalog'[t] = catalog[t]
                              \/ (catalog[t] = Absent /\ catalog'[t] = Listing)
    BY <1>1, <1>3, <1>4 DEF SwapProvider
<1>6. /\ \A t \in Tables : IsProvider(catalog'[t])
      /\ \A t \in Tables : Transient(catalog'[t]) => Transient(catalog[t])
    BY <1>4, <1>5, Providers
<1>7. TypeOK'
    BY <1>2, <1>5, <1>6 DEF FedInv, TypeOK
<1>8. QueryInv'
    <2> SUFFICES ASSUME NEW q \in Slots
                 PROVE  /\ JobOK(job[q], at[q]) /\ ReplacedOK(job[q], at[q], leaked)
                        /\ Hides(job[q], at[q], catalog') /\ Exact(job[q], at[q], stored')
        BY <1>2 DEF QueryInv
    <2>1. /\ JobOK(job[q], at[q]) /\ ReplacedOK(job[q], at[q], leaked)
          /\ Hides(job[q], at[q], catalog) /\ Exact(job[q], at[q], stored)
        BY DEF FedInv, QueryInv
    <2>2. Hides(job[q], at[q], catalog')
        BY <1>5, <2>1, HidesStays DEF JobOK
    <2>3. Exact(job[q], at[q], stored')
        BY <1>2, <2>1 DEF Exact
    <2> QED
        BY <2>1, <2>2, <2>3
<1>9. CatalogRestored'
    BY <1>2, <1>6 DEF FedInv, CatalogRestored
<1> QED
    BY <1>2, <1>7, <1>8, <1>9 DEF FedInv

-----------------------------------------------------------------------------
LEMMA InitInv == Init => FedInv
<1> SUFFICES ASSUME Init PROVE FedInv
    OBVIOUS
<1>1. PICK start \in Starts : buffered = start[1] /\ stored = start[2]
    BY DEF Init
<1>2. buffered \subseteq Rows /\ stored \subseteq Rows
    BY <1>1, FederationAssumption
<1>3. mapped \subseteq Agents \X Tables
    BY <1>2, FederationAssumption DEF Init
<1>4. /\ DOMAIN catalog = Tables
      /\ \A t \in Tables : IsProvider(catalog[t]) /\ ~Transient(catalog[t])
    BY Providers DEF Init
<1>5. at \in [Slots -> Places] /\ \A q \in Slots : at[q] = "idle" /\ at[q] \notin Locked
    BY DEF Init, Places, Locked
<1>6. writer = Nobody /\ Nobody \notin Slots
    BY FederationAssumption DEF Init
<1>7. sent \in 0 .. MaxQueries /\ drops \in 0 .. MaxDrops /\ leaked = {}
    BY FederationAssumption DEF Init
<1>8. TypeOK
    BY <1>2, <1>3, <1>4, <1>5, <1>6, <1>7 DEF TypeOK, Locked, Init
<1>9. QueryInv
    BY <1>5, IdleOK DEF QueryInv, Init
<1>10. CatalogRestored
    BY <1>4 DEF CatalogRestored
<1> QED
    BY <1>8, <1>9, <1>10 DEF FedInv, Init

LEMMA StepInv == FedInv /\ [Next]_vars => FedInv'
<1> SUFFICES ASSUME FedInv, [Next]_vars PROVE FedInv'
    OBVIOUS
<1>1. ASSUME NEW q \in Slots, Federate(q) PROVE FedInv'
    BY <1>1, AskStep, ListFailsStep, SwapStep, UnlockStep, Zenon DEF Federate
<1>2. ASSUME NEW q \in Slots, CollectFails(q) \/ Answered(q) PROVE FedInv'
    <2>1. Fails(q) /\ at[q] \notin Locked /\ UNCHANGED <<rows, server, leaked, sent, drops>>
        BY <1>2 DEF CollectFails, Answered, Locked
    <2> QED
        BY <2>1, FailStep
<1>3. CASE UNCHANGED vars
    <2>1. UNCHANGED <<buffered, staged, stored, landing, mapped, catalog, writer, at, job,
                      leaked, sent, drops>>
        BY <1>3 DEF vars
    <2> QED
        BY <2>1 DEF FedInv, TypeOK, QueryInv, CatalogRestored
<1> QED
    BY <1>1, <1>2, <1>3, SubmitStep, PlanStep, RegisterStep, CollectStep, DropStep, MoveStep, Zenon
       DEF Next

LEMMA FedInvHolds == Spec => []FedInv
    BY InitInv, StepInv, PTL DEF Spec

THEOREM FederationTyped == Spec => []TypeOK
<1>1. FedInv => TypeOK
    BY DEF FedInv
<1> QED
    BY <1>1, FedInvHolds, PTL

(* Whatever ends a query, and wherever it ends, no name in the shared catalog
   stands for its rows afterwards; but for what it leaves behind when it is
   dropped, which only those tables keep that it had swapped. *)
THEOREM CatalogIsRestored == Spec => []CatalogRestored
<1>1. FedInv => CatalogRestored
    BY DEF FedInv
<1> QED
    BY <1>1, FedInvHolds, PTL

(* History queries read each row of the files once, beside any number of
   federated ones. *)
THEOREM HistoryIsExact == Spec => []HistoryExact
<1>1. FedInv => HistoryExact
    BY DEF FedInv, QueryInv, Exact, HistoryExact
<1> QED
    BY <1>1, FedInvHolds, PTL

(* Buffer mode reads the files of a table only if it did not see the table's name, if
   the store could not say who has rows of it, or if the catalog did not list it at its
   turn (the replacement of providers in prepare_and_plan). *)
THEOREM BufferIsPure == Spec => []BufferPure
<1>1. FedInv => BufferPure
    BY DEF FedInv, QueryInv, Hides, BufferPure
<1> QED
    BY <1>1, FedInvHolds, PTL

-----------------------------------------------------------------------------
(* Rows that move while a query gathers them *)

(* What an all query looks for: due, in a table it named, within the range of its
   fetches, and not of an agent it had no reason to ask. *)
Sought(j) ==
    {r \in j.due \ j.unasked :
        RowTable[r] \in Named(j.sql) /\ InRange(RowTime[r], j.sql.where)}

Looking(j) == j.sql.mode = "all" /\ ~j.skipped

(* A provider has the row: in memory, or in a file by the time it is read, unless
   it is only staged then.  away are the rows that are staged or in a file. *)
Seen(p, r, away) == (p.files /\ r \in away) \/ \E i \in DOMAIN p.mems : r \in p.mems[i]

Apart(p, R) == \A i \in DOMAIN p.mems : p.mems[i] \cap R = {}

(* Under the lock: of the tables that had their turn, and of the one being fetched,
   an agent still to be asked has the row, or the query, or it has left the buffer. *)
Found(j, place, away, cat, left) ==
    \A r \in Sought(j) :
        /\ RowTable[r] \in Turned(j) =>
              RowTable[r] \in j.unlisted \cup left \/ Seen(cat[RowTable[r]], r, away)
        /\ place = "fetch" /\ RowTable[r] = j.sql.named[j.next] =>
              RowAgent[r] \in j.asked \/ r \in j.got \cup away

Carried(j, away) ==
    /\ DOMAIN j.plan = Reads(j.sql) /\ \A t \in Reads(j.sql) : IsProvider(j.plan[t])
    /\ ~j.strayed =>
          /\ \A t \in Reads(j.sql) \ j.tainted : Apart(j.plan[t], j.settled)
          /\ Looking(j) => \A r \in Sought(j) :
                RowTable[r] \in j.unlisted \cup j.tainted \/ Seen(j.plan[RowTable[r]], r, away)

Missed(j) ==
    {r \in DOMAIN j.count \cap j.due :
        /\ j.count[r] = 0
        /\ r \notin j.unasked \cup j.apart
        /\ RowTable[r] \notin j.unlisted \cup j.tainted \cup j.sql.hidden
        /\ Satisfies(RowTime[r], j.sql.where)}

Answer(j) ==
    ~j.strayed =>
        /\ Looking(j) => Missed(j) = {}
        /\ \A r \in DOMAIN j.count \cap j.settled :
              j.count[r] > 1 => RowTable[r] \in j.tainted

Gathers(j, place, buf, away, cat, left) ==
    /\ j.due \subseteq buf \cup away
    /\ j.settled \cap (buf \cup j.got) = {}
    /\ place \in Locked =>
          /\ \A t \in Tables \ left : Apart(cat[t], j.settled)
          /\ Looking(j) => Found(j, place, away, cat, left)
    /\ place = "collect" => Carried(j, away)
    /\ place = "done" => Answer(j)

GatherInv ==
    \A q \in Slots : Gathers(job[q], at[q], buffered, staged \cup stored, catalog, leaked)

LEMMA Bare ==
    /\ \A r, away : ~Seen(Absent, r, away)
    /\ \A p, R : ~Transient(p) => Apart(p, R)
    /\ \A p, R, G, r, away :
          IsProvider(p) /\ G \subseteq Rows => 
              /\ Apart(p, R) /\ G \cap R = {} => Apart(Union(p, G), R)
              /\ Seen(p, r, away) \/ r \in G => Seen(Union(p, G), r, away)
    /\ \A R, G, r, away :
          /\ G \cap R = {} => Apart(Memory(G), R)
          /\ r \in G => Seen(Memory(G), r, away)
<1>1. /\ \A r, away : ~Seen(Absent, r, away)
      /\ \A p, R : ~Transient(p) => Apart(p, R)
    BY DEF Seen, Absent, Provider, Apart, Transient
<1>2. ASSUME NEW p, IsProvider(p), NEW G \in SUBSET Rows, NEW R, NEW r, NEW away
      PROVE  /\ Apart(p, R) /\ G \cap R = {} => Apart(Union(p, G), R)
             /\ Seen(p, r, away) \/ r \in G => Seen(Union(p, G), r, away)
    <2> DEFINE u == Union(p, G)
               n == Len(p.mems)
    <2>1. p.mems \in Seq(SUBSET Rows)
        BY <1>2 DEF IsProvider
    <2>2. u.mems = Append(p.mems, G) /\ u.files = p.files
        BY DEF Union, Provider
    <2>3. /\ n \in Nat /\ DOMAIN p.mems = 1 .. n /\ DOMAIN u.mems = 1 .. n + 1
          /\ \A i \in 1 .. n : u.mems[i] = p.mems[i]
          /\ u.mems[n + 1] = G
        BY <2>1, <2>2, AppendProperties, LenProperties
    <2> HIDE DEF u, n
    <2>4. \A i \in 1 .. n + 1 : i \in 1 .. n \/ i = n + 1
        BY <2>3
    <2>5. 1 .. n \subseteq 1 .. n + 1 /\ n + 1 \in 1 .. n + 1
        BY <2>3
    <2>6. Apart(p, R) /\ G \cap R = {} => Apart(u, R)
        BY <2>3, <2>4 DEF Apart
    <2>7. Seen(p, r, away) \/ r \in G => Seen(u, r, away)
        BY <2>2, <2>3, <2>5 DEF Seen
    <2> QED
        BY <2>6, <2>7 DEF u
<1>3. ASSUME NEW R, NEW G, NEW r, NEW away
      PROVE  /\ G \cap R = {} => Apart(Memory(G), R)
             /\ r \in G => Seen(Memory(G), r, away)
    <2>1. Memory(G).mems = <<G>>
        BY DEF Memory, Provider
    <2>2. DOMAIN <<G>> = {1} /\ <<G>>[1] = G
        OBVIOUS
    <2> QED
        BY <2>1, <2>2 DEF Apart, Seen
<1> QED
    BY <1>1, <1>2, <1>3

(* A query that does not move is as far as it was: rows only leave the buffers for
   good, and only a table that was not listed gets another provider. *)
LEMMA GatherFrame ==
    ASSUME NEW j, NEW place, NEW buf, NEW away, NEW cat, NEW left,
           NEW bufN, NEW awayN, NEW catN, NEW leftN,
           JobOK(j, place), Gathers(j, place, buf, away, cat, left),
           bufN \subseteq buf, buf \cup away \subseteq bufN \cup awayN, away \subseteq awayN,
           left \subseteq leftN,
           place \in Locked =>
               \A t \in Tables : catN[t] = cat[t] \/ (cat[t] = Absent /\ catN[t] = Listing)
    PROVE  Gathers(j, place, bufN, awayN, catN, leftN)
<1>1. j.due \subseteq bufN \cup awayN /\ j.settled \cap (bufN \cup j.got) = {}
    BY DEF Gathers
<1>2. \A p, r : Seen(p, r, away) => Seen(p, r, awayN)
    BY DEF Seen
<1>3. CASE place \in Locked
    <2>1. Turned(j) \subseteq Tables
        BY <1>3, TurnOf
    <2>2. \A t \in Tables \ leftN : Apart(catN[t], j.settled)
        BY <1>3, Bare, Providers DEF Gathers
    <2>3. Looking(j) => Found(j, place, awayN, catN, leftN)
        <3> SUFFICES ASSUME Looking(j), NEW r \in Sought(j)
                     PROVE  /\ RowTable[r] \in Turned(j) =>
                                  \/ RowTable[r] \in j.unlisted \cup leftN
                                  \/ Seen(catN[RowTable[r]], r, awayN)
                            /\ place = "fetch" /\ RowTable[r] = j.sql.named[j.next] =>
                                  RowAgent[r] \in j.asked \/ r \in j.got \cup awayN
            BY DEF Found
        <3>1. /\ RowTable[r] \in Turned(j) =>
                  RowTable[r] \in j.unlisted \cup left \/ Seen(cat[RowTable[r]], r, away)
              /\ place = "fetch" /\ RowTable[r] = j.sql.named[j.next] =>
                  RowAgent[r] \in j.asked \/ r \in j.got \cup away
            BY <1>3 DEF Gathers, Found
        <3>2. RowTable[r] \in Turned(j) /\ Seen(cat[RowTable[r]], r, away)
                  => Seen(catN[RowTable[r]], r, awayN)
            BY <1>2, <1>3, <2>1, Bare
        <3> QED
            BY <3>1, <3>2
    <2> QED
        BY <1>1, <1>3, <2>2, <2>3 DEF Gathers, Locked
<1>4. CASE place = "collect"
    <2>1. Carried(j, awayN)
        BY <1>2, <1>4 DEF Gathers, Carried
    <2> QED
        BY <1>1, <1>4, <2>1 DEF Gathers, Locked
<1>5. CASE place \notin Locked \cup {"collect"}
    BY <1>1, <1>5 DEF Gathers
<1> QED
    BY <1>3, <1>4, <1>5

(* A step of one query, while the rows stay where they are. *)
LEMMA GatherStep ==
    ASSUME FedInv, GatherInv, NEW q \in Slots, NEW to \in Places, NEW j,
           at' = [at EXCEPT ![q] = to], job' = [job EXCEPT ![q] = j],
           UNCHANGED <<buffered, staged, stored>>, leaked \subseteq leaked',
           writer = q \/ \A t \in Tables : catalog'[t] = catalog[t]
                             \/ (catalog[t] = Absent /\ catalog'[t] = Listing),
           Gathers(j, to, buffered, staged \cup stored, catalog', leaked')
    PROVE  GatherInv'
<1>1. /\ at'[q] = to /\ job'[q] = j
      /\ \A x \in Slots : x # q => at'[x] = at[x] /\ job'[x] = job[x]
    BY DEF FedInv, TypeOK
<1>2. ASSUME NEW x \in Slots, x # q
      PROVE  Gathers(job[x], at[x], buffered, staged \cup stored, catalog', leaked')
    <2>1. /\ JobOK(job[x], at[x])
          /\ Gathers(job[x], at[x], buffered, staged \cup stored, catalog, leaked)
        BY DEF FedInv, QueryInv, GatherInv
    <2>2. at[x] \in Locked => \A t \in Tables : catalog'[t] = catalog[t]
                             \/ (catalog[t] = Absent /\ catalog'[t] = Listing)
        BY <1>2 DEF FedInv, TypeOK, Locked
    <2> QED
        BY <2>1, <2>2, GatherFrame
<1> QED
    BY <1>1, <1>2 DEF GatherInv

(* A query that ends has nothing to look for. *)
LEMMA GatherNothing ==
    ASSUME NEW s \in Requests
    PROVE  /\ Fresh(s).due = {} /\ Fresh(s).settled = {} /\ Fresh(s).got = {}
           /\ \A buf, away, cat, left : Gathers(NoQuery, "idle", buf, away, cat, left)
<1>1. \A x \in Requests : Fresh(x).due = {} /\ Fresh(x).settled = {} /\ Fresh(x).got = {}
    BY DEF Fresh
<1>2. NoQuery.due = {} /\ NoQuery.settled = {}
    BY <1>1, FederationAssumption DEF NoQuery
<1> QED
    BY <1>1, <1>2 DEF Gathers, Locked

LEMMA GatherFails ==
    ASSUME FedInv, GatherInv, NEW q \in Slots, Fails(q),
           UNCHANGED <<rows, catalog>>, leaked \subseteq leaked'
    PROVE  GatherInv'
<1>1. at' = [at EXCEPT ![q] = "idle"] /\ job' = [job EXCEPT ![q] = NoQuery]
    BY DEF Fails, Update
<1>2. PICK s \in Requests : TRUE
    BY FederationAssumption
<1>3. Gathers(NoQuery, "idle", buffered, staged \cup stored, catalog', leaked')
    BY <1>2, GatherNothing, Zenon
<1> QED
    BY <1>1, <1>3, GatherStep DEF rows, Places

(* A query that starts has found nothing yet, and has had no turn. *)
LEMMA GatherSubmit ==
    ASSUME FedInv, GatherInv, NEW q \in Slots, NEW s \in Requests, Submit(q, s)
    PROVE  GatherInv'
<1> DEFINE j == [Fresh(s) EXCEPT
                     !.due = CASE s.mode = "history" -> stored
                               [] s.mode = "all" -> buffered \cup stored
                               [] s.mode = "buffer" -> {},
                     !.settled = IF s.mode = "buffer" THEN {} ELSE stored \ buffered]
<1>1. /\ at' = [at EXCEPT ![q] = Start(s)] /\ job' = [job EXCEPT ![q] = j]
      /\ UNCHANGED <<buffered, staged, stored, catalog, leaked>>
    BY DEF Submit, Go, Update, rows, server
<1>2. s.mode \in Modes
    BY Requested
<1>3. DOMAIN Fresh(s) = JobFields /\ Fresh(s).got = {}
    BY FreshOK
<1>4. /\ j.got = {}
      /\ j.due = CASE s.mode = "history" -> stored
                   [] s.mode = "all" -> buffered \cup stored
                   [] s.mode = "buffer" -> {}
      /\ j.settled = IF s.mode = "buffer" THEN {} ELSE stored \ buffered
    BY <1>3 DEF JobFields
<1> HIDE DEF j
<1>5. j.due \subseteq buffered \cup stored /\ j.settled \cap buffered = {}
    BY <1>2, <1>4 DEF Modes
<1>6. Start(s) \in {"queued", "unlocked"}
    BY DEF Start
<1>7. Gathers(j, Start(s), buffered, staged \cup stored, catalog', leaked')
    BY <1>4, <1>5, <1>6 DEF Gathers, Locked
<1> QED
    BY <1>1, <1>6, <1>7, GatherStep DEF Places

(* One that starts again after looking for new tables, likewise. *)
LEMMA GatherRegister ==
    ASSUME FedInv, GatherInv, NEW q \in Slots, Register(q)
    PROVE  GatherInv'
<1> DEFINE o == job[q]
           j == [Fresh(o.sql) EXCEPT !.again = TRUE, !.due = o.due, !.settled = o.settled]
<1>1. UNCHANGED <<buffered, staged, stored, leaked>>
    BY DEF Register, rows
<1>2. \A t \in Tables : catalog'[t] = catalog[t] \/ (catalog[t] = Absent /\ catalog'[t] = Listing)
    BY DEF Register
<1>3. o.sql \in Requests /\ Gathers(o, at[q], buffered, staged \cup stored, catalog, leaked)
    BY DEF FedInv, QueryInv, JobOK, GatherInv
<1>4. \E to \in Places : \E x :
          /\ at' = [at EXCEPT ![q] = to] /\ job' = [job EXCEPT ![q] = x]
          /\ Gathers(x, to, buffered, staged \cup stored, catalog', leaked')
    <2>1. CASE at' = [at EXCEPT ![q] = Start(o.sql)] /\ job' = [job EXCEPT ![q] = j]
        <3>1. DOMAIN Fresh(o.sql) = JobFields /\ Fresh(o.sql).got = {}
            BY <1>3, FreshOK
        <3>2. j.got = {} /\ j.due = o.due /\ j.settled = o.settled
            BY <3>1 DEF JobFields
        <3> HIDE DEF j
        <3>3. Start(o.sql) \in {"queued", "unlocked"}
            BY DEF Start
        <3>4. Gathers(j, Start(o.sql), buffered, staged \cup stored, catalog', leaked')
            BY <1>3, <3>2, <3>3 DEF Gathers, Locked
        <3> QED
            BY <2>1, <3>3, <3>4 DEF Places
    <2>2. CASE Fails(q)
        <3>1. at' = [at EXCEPT ![q] = "idle"] /\ job' = [job EXCEPT ![q] = NoQuery]
            BY <2>2 DEF Fails, Update
        <3>2. Gathers(NoQuery, "idle", buffered, staged \cup stored, catalog', leaked')
            BY <1>3, GatherNothing, Zenon
        <3> QED
            BY <3>1, <3>2 DEF Places
    <2> QED
        BY <2>1, <2>2 DEF Register, Update
<1> QED
    BY <1>1, <1>2, <1>4, GatherStep

(* A plan carries what the query found under the lock; a history query's plan, which
   is made while nobody holds it, has the files only. *)
LEMMA GatherPlanned ==
    ASSUME FedInv, GatherInv, NEW q \in Slots, NEW stray, Planned(q, stray),
           \/ at[q] = "bind"
           \/ at[q] = "queued" /\ job[q].sql.mode = "history" /\ writer = Nobody
           \/ stray = TRUE,
           NEW cat
    PROVE  \E j : /\ job' = [job EXCEPT ![q] = j]
                  /\ at' = [at EXCEPT ![q] = "collect"]
                  /\ Gathers(j, "collect", buffered, staged \cup stored, cat, leaked)
<1> DEFINE o == job[q]
           j == [o EXCEPT !.plan = [t \in Reads(o.sql) |-> catalog[t]],
                          !.replaced = NoneReplaced,
                          !.tainted = leaked \cap Reads(o.sql),
                          !.strayed = stray]
           away == staged \cup stored
<1>1. job' = [job EXCEPT ![q] = j] /\ at' = [at EXCEPT ![q] = "collect"]
    BY DEF Planned, Update
<1>2. JobOK(o, at[q]) /\ Gathers(o, at[q], buffered, away, catalog, leaked)
    BY DEF FedInv, QueryInv, GatherInv
<1>3. /\ j.sql = o.sql /\ j.got = o.got /\ j.due = o.due /\ j.settled = o.settled
      /\ j.plan = [t \in Reads(o.sql) |-> catalog[t]]
      /\ j.tainted = leaked \cap Reads(o.sql) /\ j.strayed = stray
      /\ j.skipped = o.skipped /\ j.unasked = o.unasked /\ j.unlisted = o.unlisted
    BY <1>2 DEF JobOK, JobFields
<1> HIDE DEF j
<1>4. Reads(o.sql) \subseteq Tables
    BY <1>2, Requested DEF JobOK
<1>5. DOMAIN j.plan = Reads(j.sql) /\ \A t \in Reads(j.sql) : IsProvider(j.plan[t])
    BY <1>3, <1>4 DEF FedInv, TypeOK
<1>6. ASSUME ~stray, NEW t \in Reads(o.sql), t \notin leaked
      PROVE  Apart(catalog[t], o.settled)
    <2>1. CASE at[q] = "bind"
        BY <1>2, <1>4, <1>6, <2>1 DEF Gathers, Locked
    <2>2. CASE writer = Nobody
        <3>1. ~Transient(catalog[t])
            BY <1>4, <1>6, <2>2 DEF FedInv, CatalogRestored
        <3> QED
            BY <3>1, Bare
    <2> QED
        BY <1>6, <2>1, <2>2
<1>7. ASSUME ~stray, Looking(o), NEW r \in Sought(o)
      PROVE  \/ RowTable[r] \in o.unlisted \cup (leaked \cap Reads(o.sql))
             \/ Seen(catalog[RowTable[r]], r, away)
    <2>1. at[q] = "bind" /\ at[q] \in Locked
        BY <1>7 DEF Looking, Locked
    <2>2. RowTable[r] \in Turned(o) /\ RowTable[r] \in Reads(o.sql)
        BY <1>2, <2>1, TurnOf DEF Sought, Reads
    <2> QED
        BY <1>2, <1>7, <2>1, <2>2 DEF Gathers, Found
<1>8. Looking(j) = Looking(o) /\ Sought(j) = Sought(o)
    BY <1>3 DEF Looking, Sought
<1>9. Carried(j, away)
    <2>1. ~stray => \A t \in Reads(j.sql) \ j.tainted : Apart(j.plan[t], j.settled)
        BY <1>3, <1>6
    <2>2. ~stray /\ Looking(j) => \A r \in Sought(j) :
              RowTable[r] \in j.unlisted \cup j.tainted \/ Seen(j.plan[RowTable[r]], r, away)
        <3>1. \A r \in Sought(o) : RowTable[r] \in Reads(o.sql)
            BY DEF Sought, Reads
        <3> QED
            BY <1>3, <1>7, <1>8, <3>1
    <2> QED
        BY <1>3, <1>5, <2>1, <2>2 DEF Carried
<1>10. Gathers(j, "collect", buffered, away, cat, leaked)
    BY <1>2, <1>3, <1>9 DEF Gathers, Locked
<1> QED
    BY <1>1, <1>10

LEMMA GatherPlan ==
    ASSUME FedInv, GatherInv, NEW q \in Slots, PlanHistory(q) \/ PlanUnlocked(q)
    PROVE  GatherInv'
<1>1. /\ UNCHANGED <<rows, server, leaked, sent, drops>>
      /\ at[q] \notin Locked
    BY DEF PlanHistory, PlanUnlocked, Locked
<1>2. UNCHANGED <<buffered, staged, stored, catalog, leaked>>
    BY <1>1 DEF rows, server
<1>3. CASE \/ PlanHistory(q) /\ Planned(q, FALSE)
           \/ PlanUnlocked(q) /\ Planned(q, TRUE)
    <2>1. PICK j : /\ job' = [job EXCEPT ![q] = j]
                   /\ at' = [at EXCEPT ![q] = "collect"]
                   /\ Gathers(j, "collect", buffered, staged \cup stored, catalog', leaked)
        BY <1>3, GatherPlanned DEF PlanHistory
    <2> QED
        BY <1>2, <2>1, GatherStep DEF Places
<1>4. CASE Unplanned(q) /\ Fails(q)
    BY <1>2, <1>4, GatherFails DEF rows, server, PlanHistory, PlanUnlocked
<1>5. CASE Unplanned(q) /\ ~Fails(q)
    <2>1. at' = [at EXCEPT ![q] = "register"] /\ job' = [job EXCEPT ![q] = job[q]]
        BY <1>5 DEF Unplanned, FedInv
    <2>2. Gathers(job[q], at[q], buffered, staged \cup stored, catalog, leaked)
        BY DEF GatherInv
    <2>3. Gathers(job[q], "register", buffered, staged \cup stored, catalog', leaked')
        BY <1>2, <2>2 DEF Gathers, Locked
    <2> QED
        BY <1>2, <2>1, <2>3, GatherStep DEF Places
<1> QED
    BY <1>3, <1>4, <1>5 DEF PlanHistory, PlanUnlocked

(* With the lock comes a catalog without anybody's rows. *)
LEMMA GatherLock ==
    ASSUME FedInv, GatherInv, NEW q \in Slots, LockWrite(q)
    PROVE  GatherInv'
<1> DEFINE o == job[q]
<1>1. /\ at[q] = "queued" /\ at' = [at EXCEPT ![q] = "turn"] /\ writer = Nobody
      /\ o.sql.mode # "history" /\ job' = [job EXCEPT ![q] = o]
      /\ UNCHANGED <<buffered, staged, stored, catalog, leaked>>
    BY DEF LockWrite, Go, rows, FedInv
<1>2. JobOK(o, at[q]) /\ Gathers(o, at[q], buffered, staged \cup stored, catalog, leaked)
    BY DEF FedInv, QueryInv, GatherInv
<1>3. \A t \in Tables \ leaked : Apart(catalog[t], o.settled)
    BY <1>1, Bare DEF FedInv, CatalogRestored
<1>4. Turned(o) = {}
    BY <1>1, <1>2, FirstTurn
<1>5. Gathers(o, "turn", buffered, staged \cup stored, catalog', leaked')
    BY <1>1, <1>2, <1>3, <1>4 DEF Gathers, Found, Locked
<1> QED
    BY <1>1, <1>5, GatherStep DEF Places

(* Whom the store does not know for the table is not asked. *)
LEMMA GatherAsk ==
    ASSUME FedInv, GatherInv, NEW q \in Slots, Ask(q)
    PROVE  GatherInv'
<1> DEFINE o == job[q]
           known == {a \in Agents : <<a, ThisTable(q)>> \in mapped}
           none == {r \in RowsOf(ThisTable(q)) : RowAgent[r] \notin known}
           j == [o EXCEPT !.asked = known, !.unasked = @ \cup none]
           away == staged \cup stored
<1>1. /\ at[q] = "turn" /\ at' = [at EXCEPT ![q] = "fetch"] /\ job' = [job EXCEPT ![q] = j]
      /\ UNCHANGED <<buffered, staged, stored, catalog, leaked>>
    BY Zenon DEF Ask, Go, Update, server, rows
<1>2. JobOK(o, at[q]) /\ Gathers(o, at[q], buffered, away, catalog, leaked)
    BY DEF FedInv, QueryInv, GatherInv
<1>3. /\ j.sql = o.sql /\ j.got = o.got /\ j.due = o.due /\ j.settled = o.settled
      /\ j.next = o.next /\ j.asked = known /\ j.unasked = o.unasked \cup none
      /\ j.skipped = o.skipped /\ j.unlisted = o.unlisted
    BY <1>2 DEF JobOK, JobFields
<1> HIDE DEF j
<1>4. at[q] \in Locked
    BY <1>1 DEF Locked
<1>5. Turned(j) = Turned(o) /\ Looking(j) = Looking(o) /\ Sought(j) = Sought(o) \ none
    BY <1>3, Zenon DEF Turned, Looking, Sought
<1>6. ASSUME NEW r \in Sought(j), RowTable[r] = j.sql.named[j.next]
      PROVE  RowAgent[r] \in known
    <2>1. r \in Rows
        BY <1>2, <1>5 DEF Sought, Gathers, FedInv, TypeOK
    <2>2. r \in RowsOf(ThisTable(q))
        BY <1>3, <1>6, <2>1 DEF RowsOf, ThisTable
    <2> QED
        BY <1>5, <2>2
<1>7. Looking(o) => Found(j, "fetch", away, catalog, leaked)
    BY <1>2, <1>3, <1>4, <1>5, <1>6 DEF Gathers, Found
<1>8. Gathers(j, "fetch", buffered, away, catalog', leaked')
    BY <1>1, <1>2, <1>3, <1>4, <1>5, <1>7 DEF Gathers
<1> QED
    BY <1>1, <1>8, GatherStep DEF Places

(* An answer has the rows that were in the agent's buffer then; the others left it
   before.  Without an answer, agents are counted as skipped. *)
LEMMA GatherReply ==
    ASSUME FedInv, GatherInv, NEW q \in Slots, NEW a \in Agents, Reply(q, a) \/ NoReply(q, a)
    PROVE  GatherInv'
<1> DEFINE o == job[q]
           sends == Held(a, ThisTable(q), o.sql.where)
           away == staged \cup stored
<1>1. /\ at[q] = "fetch" /\ at' = [at EXCEPT ![q] = "fetch"]
      /\ UNCHANGED <<buffered, staged, stored, catalog, leaked>>
    BY DEF Reply, NoReply, rows, server, FedInv, TypeOK
<1>2. JobOK(o, at[q]) /\ Gathers(o, at[q], buffered, away, catalog, leaked)
    BY DEF FedInv, QueryInv, GatherInv
<1>3. at[q] \in Locked
    BY <1>1 DEF Locked
<1>4. CASE Reply(q, a)
    <2> DEFINE j == [o EXCEPT !.asked = @ \ {a}, !.got = @ \cup sends]
    <2>1. job' = [job EXCEPT ![q] = j]
        BY <1>4, Zenon DEF Reply, Update
    <2>2. /\ j.sql = o.sql /\ j.got = o.got \cup sends /\ j.due = o.due
          /\ j.settled = o.settled /\ j.next = o.next /\ j.asked = o.asked \ {a}
          /\ j.unasked = o.unasked /\ j.skipped = o.skipped /\ j.unlisted = o.unlisted
        BY <1>2 DEF JobOK, JobFields
    <2> HIDE DEF j
    <2>3. Turned(j) = Turned(o) /\ Looking(j) = Looking(o) /\ Sought(j) = Sought(o)
        BY <2>2, Zenon DEF Turned, Looking, Sought
    <2>4. ASSUME NEW r \in Sought(o), RowTable[r] = o.sql.named[o.next], RowAgent[r] = a
          PROVE  r \in sends \cup away
        BY <1>2, <2>4 DEF Sought, Gathers, Held, ThisTable
    <2>5. Looking(o) => Found(j, "fetch", away, catalog, leaked)
        <3> SUFFICES ASSUME Looking(o), NEW r \in Sought(o)
                     PROVE  /\ RowTable[r] \in Turned(o) =>
                                  \/ RowTable[r] \in o.unlisted \cup leaked
                                  \/ Seen(catalog[RowTable[r]], r, away)
                            /\ RowTable[r] = o.sql.named[o.next] =>
                                  RowAgent[r] \in o.asked \ {a} \/ r \in o.got \cup sends \cup away
            BY <2>2, <2>3 DEF Found
        <3>1. /\ RowTable[r] \in Turned(o) =>
                    \/ RowTable[r] \in o.unlisted \cup leaked
                    \/ Seen(catalog[RowTable[r]], r, away)
              /\ RowTable[r] = o.sql.named[o.next] => RowAgent[r] \in o.asked \/ r \in o.got \cup away
            BY <1>1, <1>2, <1>3 DEF Gathers, Found
        <3> QED
            BY <2>4, <3>1
    <2>6. o.settled \cap sends = {}
        BY <1>2 DEF Gathers, Held
    <2>7. Gathers(j, "fetch", buffered, away, catalog', leaked')
        BY <1>1, <1>2, <1>3, <2>2, <2>3, <2>5, <2>6 DEF Gathers
    <2> QED
        BY <1>1, <2>1, <2>7, GatherStep DEF Places
<1>5. CASE NoReply(q, a)
    <2> DEFINE j == [o EXCEPT !.asked = @ \ {a}, !.skipped = TRUE]
    <2>1. job' = [job EXCEPT ![q] = j]
        BY <1>5, Zenon DEF NoReply, Update
    <2>2. j.got = o.got /\ j.due = o.due /\ j.settled = o.settled /\ j.skipped
        BY <1>2 DEF JobOK, JobFields
    <2> HIDE DEF j
    <2>3. Gathers(j, "fetch", buffered, away, catalog', leaked')
        BY <1>1, <1>2, <1>3, <2>2 DEF Gathers, Looking
    <2> QED
        BY <1>1, <2>1, <2>3, GatherStep DEF Places
<1> QED
    BY <1>4, <1>5

LEMMA GatherListFails ==
    ASSUME FedInv, GatherInv, NEW q \in Slots, ListFails(q)
    PROVE  GatherInv'
<1> DEFINE o == job[q]
           t == ThisTable(q)
           j == [o EXCEPT !.next = @ + 1, !.failed = @ \cup {t}, !.unasked = @ \cup RowsOf(t)]
           away == staged \cup stored
<1>1. /\ at[q] = "turn" /\ at' = [at EXCEPT ![q] = NextTurn(q)] /\ job' = [job EXCEPT ![q] = j]
      /\ UNCHANGED <<buffered, staged, stored, catalog, leaked>>
    BY Zenon DEF ListFails, Go, Update, rows, server
<1>2. JobOK(o, at[q]) /\ Gathers(o, at[q], buffered, away, catalog, leaked)
    BY DEF FedInv, QueryInv, GatherInv
<1>3. at[q] \in Locked \ {"bind"}
    BY <1>1 DEF Locked
<1>4. /\ DOMAIN j = JobFields /\ j.sql = o.sql /\ j.next = o.next + 1 /\ j.got = o.got
      /\ j.due = o.due /\ j.settled = o.settled /\ j.unasked = o.unasked \cup RowsOf(t)
      /\ j.skipped = o.skipped /\ j.unlisted = o.unlisted
    BY <1>2 DEF JobOK, JobFields
<1> HIDE DEF j
<1>5. j.got \subseteq Rows
    BY <1>2, <1>4 DEF JobOK
<1>6. /\ NextTurn(q) \in Locked /\ NextTurn(q) \in Places
      /\ Turned(j) = Turned(o) \cup {t}
    BY <1>3, <1>4, <1>5, NextTurnOK
<1>7. NextTurn(q) \in {"turn", "bind"}
    BY DEF NextTurn
<1>8. Looking(j) = Looking(o) /\ Sought(j) = Sought(o) \ RowsOf(t)
    BY <1>4 DEF Looking, Sought
<1>9. \A r \in Sought(j) : RowTable[r] # t
    BY <1>2, <1>8 DEF Sought, RowsOf, Gathers, FedInv, TypeOK
<1>10. Looking(o) => Found(j, NextTurn(q), away, catalog, leaked)
    BY <1>2, <1>3, <1>4, <1>6, <1>7, <1>8, <1>9 DEF Gathers, Found
<1>11. Gathers(j, NextTurn(q), buffered, away, catalog', leaked')
    BY <1>1, <1>2, <1>3, <1>4, <1>6, <1>7, <1>8, <1>10 DEF Gathers
<1> QED
    BY <1>1, <1>6, <1>11, GatherStep

(* The query's provider has what the agents sent, next to the files that get what
   they sent elsewhere. *)
LEMMA GatherSwap ==
    ASSUME FedInv, GatherInv, NEW q \in Slots, Swap(q)
    PROVE  GatherInv'
<1> DEFINE o == job[q]
           t == ThisTable(q)
           p == catalog[t]
           own == OwnProvider(o.sql.mode, p, o.got)
           before == IF own = {} THEN o.replaced
                     ELSE [u \in DOMAIN o.replaced \cup {t} |-> IF u = t THEN p ELSE o.replaced[u]]
           j == [o EXCEPT !.next = @ + 1, !.got = {}, !.replaced = before,
                          !.unlisted = IF p = Absent THEN @ \cup {t} ELSE @]
           away == staged \cup stored
<1>1. /\ JobOK(o, at[q]) /\ ReplacedOK(o, at[q], leaked)
      /\ Gathers(o, at[q], buffered, away, catalog, leaked)
    BY DEF FedInv, QueryInv, GatherInv
<1>2. DOMAIN o = JobFields /\ o.got \subseteq Rows /\ o.sql \in Requests
    BY <1>1 DEF JobOK
<1>3. /\ at[q] = "fetch" /\ at' = [at EXCEPT ![q] = NextTurn(q)] /\ job' = [job EXCEPT ![q] = j]
      /\ o.asked = {}
      /\ UNCHANGED <<buffered, staged, stored, leaked>>
      /\ IF own = {} THEN UNCHANGED catalog
         ELSE \E new \in own : catalog' = [catalog EXCEPT ![t] = new]
    <2>1. [o EXCEPT !.next = @ + 1, !.got = {},
                    !.replaced = IF own = {} THEN @
                                 ELSE [u \in DOMAIN @ \cup {t} |-> IF u = t THEN p ELSE @[u]],
                    !.unlisted = IF p = Absent THEN @ \cup {t} ELSE @] = j
        BY <1>2 DEF JobFields
    <2> QED
        BY <2>1 DEF Swap, Go, Update, SwapProvider, rows
<1>4. at[q] \in Locked \ {"bind"} /\ at[q] \in Locked /\ writer = q
          /\ DOMAIN catalog = Tables /\ \A u \in Tables : IsProvider(catalog[u])
    BY <1>3 DEF FedInv, TypeOK, Locked
<1>5. /\ DOMAIN j = JobFields /\ j.sql = o.sql /\ j.next = o.next + 1 /\ j.got = {}
      /\ j.due = o.due /\ j.settled = o.settled /\ j.unasked = o.unasked
      /\ j.skipped = o.skipped
      /\ j.unlisted = IF p = Absent THEN o.unlisted \cup {t} ELSE o.unlisted
    BY <1>2 DEF JobFields
<1> HIDE DEF j
<1>6. /\ NextTurn(q) \in Locked /\ NextTurn(q) \in Places /\ NextTurn(q) \in {"turn", "bind"}
      /\ t \in Tables /\ t \notin Turned(o) /\ Turned(j) = Turned(o) \cup {t}
      /\ Turned(o) \subseteq Tables
    <2>1. j.got \subseteq Rows
        BY <1>5
    <2>2. NextTurn(q) \in {"turn", "bind"}
        BY DEF NextTurn
    <2> QED
        BY <1>1, <1>4, <1>5, <2>1, <2>2, NextTurnOK, TurnOf
<1>7. p = catalog[t] /\ IsProvider(p) /\ o.sql.mode \in {"buffer", "all"}
    BY <1>1, <1>2, <1>4, <1>6, Requested DEF JobOK, Modes
<1>8. t \notin leaked => p = Absent \/ p = Listing
    <2>1. t \notin DOMAIN o.replaced
        BY <1>1, <1>6 DEF ReplacedOK
    <2>2. t \notin leaked => ~Transient(p)
        BY <1>4, <1>6, <2>1 DEF FedInv, CatalogRestored
    <2> QED
        BY <1>7, <2>2, Providers
<1>9. /\ \A u \in Tables : u # t => catalog'[u] = catalog[u]
      /\ own = {} => catalog'[t] = p
      /\ own # {} => catalog'[t] \in own
    BY <1>3, <1>4, <1>6, <1>7
<1>10. o.got \cap o.settled = {} /\ (t \notin leaked => Apart(p, o.settled))
    BY <1>1, <1>4, <1>6 DEF Gathers
<1>11. o.sql.mode = "all" /\ p # Absent /\ t \notin leaked =>
          \A r \in o.got \cup away : Seen(catalog'[t], r, away)
    <2> SUFFICES ASSUME o.sql.mode = "all", p = Listing, NEW r \in o.got \cup away
                 PROVE  Seen(catalog'[t], r, away)
        BY <1>8
    <2>1. p # Absent /\ p.files
        BY Providers DEF Listing, Provider
    <2>2. CASE o.got = {}
        <3>1. own = {}
            BY <2>1, <2>2 DEF OwnProvider
        <3> QED
            BY <1>9, <2>1, <2>2, <3>1 DEF Seen
    <2>3. CASE o.got # {}
        <3> HIDE DEF p
        <3>1. own = {Union(p, o.got)}
            BY <2>1, <2>3 DEF OwnProvider
        <3>2. Seen(p, r, away) \/ r \in o.got
            BY <2>1 DEF Seen
        <3> QED
            BY <1>2, <1>7, <1>9, <3>1, <3>2, Bare
    <2> QED
        BY <2>2, <2>3
<1>12. t \notin leaked => Apart(catalog'[t], o.settled)
    <2> HIDE DEF p
    <2>1. own \subseteq {Union(p, o.got), Memory(o.got), Memory({})}
        BY DEF OwnProvider
    <2>2. {} \cap o.settled = {}
        OBVIOUS
    <2> QED
        BY <1>2, <1>7, <1>9, <1>10, <2>1, <2>2, Bare
<1> HIDE DEF own, p, t, before
<1>13. Looking(j) = Looking(o) /\ Sought(j) = Sought(o)
    BY <1>5 DEF Looking, Sought
<1>14. Looking(o) => Found(j, NextTurn(q), away, catalog', leaked)
    <2> SUFFICES ASSUME Looking(o), NEW r \in Sought(o), RowTable[r] \in Turned(o) \cup {t}
                 PROVE  \/ RowTable[r] \in j.unlisted \cup leaked
                        \/ Seen(catalog'[RowTable[r]], r, away)
        BY <1>6, <1>13 DEF Found
    <2>1. CASE RowTable[r] # t
        BY <1>1, <1>4, <1>5, <1>6, <1>9, <2>1 DEF Gathers, Found
    <2>2. CASE RowTable[r] = t
        <3>1. r \in o.got \cup away
            BY <1>1, <1>3, <1>4, <2>2 DEF Gathers, Found, ThisTable, t
        <3> QED
            BY <1>5, <1>11, <2>2, <3>1 DEF Looking
    <2> QED
        BY <2>1, <2>2
<1>15. \A u \in Tables \ leaked : Apart(catalog'[u], o.settled)
    BY <1>1, <1>4, <1>9, <1>12 DEF Gathers
<1>16. Gathers(j, NextTurn(q), buffered, away, catalog', leaked')
    BY <1>1, <1>3, <1>5, <1>6, <1>13, <1>14, <1>15 DEF Gathers
<1> QED
    BY <1>3, <1>4, <1>6, <1>16, GatherStep

LEMMA GatherUnlock ==
    ASSUME FedInv, GatherInv, NEW q \in Slots, Misfit(q) \/ BindLocked(q)
    PROVE  GatherInv'
<1>1. /\ at[q] \in Locked /\ writer = q
      /\ UNCHANGED <<buffered, staged, stored, leaked>>
      /\ FallBack(q) \/ (at[q] = "bind" /\ Planned(q, FALSE))
    BY DEF Misfit, BindLocked, Unlock, Locked, rows, FedInv, TypeOK
<1>2. \E to \in Places : \E j :
          /\ job' = [job EXCEPT ![q] = j] /\ at' = [at EXCEPT ![q] = to]
          /\ Gathers(j, to, buffered, staged \cup stored, catalog', leaked)
    <2>1. {"idle", "unlocked", "collect"} \subseteq Places
        BY DEF Places
    <2>2. CASE at[q] = "bind" /\ Planned(q, FALSE)
        BY <2>1, <2>2, GatherPlanned
    <2>3. CASE FallBack(q) /\ job[q].sql.mode = "buffer"
        <3>1. at' = [at EXCEPT ![q] = "idle"] /\ job' = [job EXCEPT ![q] = NoQuery]
            BY <2>3 DEF FallBack, Fails, Update
        <3>2. job[q].sql \in Requests
            BY DEF FedInv, QueryInv, JobOK
        <3> QED
            BY <2>1, <3>1, <3>2, GatherNothing
    <2>4. CASE FallBack(q) /\ job[q].sql.mode # "buffer"
        <3> DEFINE j == [job[q] EXCEPT !.replaced = NoneReplaced, !.got = {}]
        <3>1. at' = [at EXCEPT ![q] = "unlocked"] /\ job' = [job EXCEPT ![q] = j]
            BY <2>4 DEF FallBack, Update
        <3>2. /\ JobOK(job[q], at[q])
              /\ Gathers(job[q], at[q], buffered, staged \cup stored, catalog, leaked)
            BY DEF FedInv, QueryInv, GatherInv
        <3>3. j.got = {} /\ j.due = job[q].due /\ j.settled = job[q].settled
            BY <3>2 DEF JobOK, JobFields
        <3> HIDE DEF j
        <3>4. Gathers(j, "unlocked", buffered, staged \cup stored, catalog', leaked)
            BY <3>2, <3>3 DEF Gathers, Locked
        <3> QED
            BY <2>1, <3>1, <3>4
    <2> QED
        BY <1>1, <2>2, <2>3, <2>4
<1> QED
    BY <1>1, <1>2, GatherStep

(* How often a row is read from a provider. *)
LEMMA CopiesOf ==
    ASSUME NEW p, IsProvider(p), NEW r
    PROVE  /\ Copies(p, r) \in Nat
           /\ p.files /\ r \in stored => Copies(p, r) # 0
           /\ (\E i \in DOMAIN p.mems : r \in p.mems[i]) => Copies(p, r) # 0
           /\ \A R : Apart(p, R) /\ r \in R => Copies(p, r) <= 1
<1> DEFINE I == {i \in DOMAIN p.mems : r \in p.mems[i]}
<1>1. IsFiniteSet(DOMAIN p.mems)
    <2>1. p.mems \in Seq(SUBSET Rows)
        BY DEF IsProvider
    <2>2. Len(p.mems) \in Nat /\ DOMAIN p.mems = 1 .. Len(p.mems)
        BY <2>1, LenProperties
    <2> QED
        BY <2>2, FS_Interval
<1>2. I \subseteq DOMAIN p.mems
    OBVIOUS
<1> HIDE DEF I
<1>3. IsFiniteSet(I)
    BY <1>1, <1>2, FS_Subset
<1>4. Cardinality(I) \in Nat /\ (Cardinality(I) = 0 <=> I = {})
    BY <1>3, FS_CardinalityType, FS_EmptySet
<1>5. Copies(p, r) = (IF p.files /\ r \in stored THEN 1 ELSE 0) + Cardinality(I)
    BY DEF Copies, I
<1>6. \A R : Apart(p, R) /\ r \in R => I = {}
    BY DEF Apart, I
<1>7. (\E i \in DOMAIN p.mems : r \in p.mems[i]) => I # {}
    BY DEF I
<1> QED
    BY <1>4, <1>5, <1>6, <1>7

(* What an answer misses was missed before; its files are read last. *)
LEMMA GatherCollect ==
    ASSUME FedInv, GatherInv, NEW q \in Slots, Collect(q)
    PROVE  GatherInv'
<1> DEFINE o == job[q]
           counts == [r \in {x \in Rows : Wanted(o.sql, x)} |-> Copies(o.plan[RowTable[r]], r)]
           plans == [t \in DOMAIN o.plan |-> Provider(o.plan[t].files, << >>)]
           j == [o EXCEPT !.count = counts, !.apart = staged, !.plan = plans]
           away == staged \cup stored
<1>1. /\ JobOK(o, at[q]) /\ Gathers(o, at[q], buffered, away, catalog, leaked)
    BY DEF FedInv, QueryInv, GatherInv
<1>2. /\ at[q] = "collect" /\ at' = [at EXCEPT ![q] = "done"] /\ job' = [job EXCEPT ![q] = j]
      /\ UNCHANGED <<buffered, staged, stored, catalog, leaked>>
    <2>1. DOMAIN o = JobFields
        BY <1>1 DEF JobOK
    <2>2. [o EXCEPT !.count = counts, !.apart = staged,
                    !.plan = [t \in DOMAIN @ |-> Provider(@[t].files, << >>)]] = j
        BY <2>1 DEF JobFields
    <2> QED
        BY <2>2 DEF Collect, Go, Update, rows, server
<1>3. /\ j.sql = o.sql /\ j.got = o.got /\ j.count = counts /\ j.apart = staged
      /\ j.due = o.due /\ j.settled = o.settled /\ j.tainted = o.tainted
      /\ j.unasked = o.unasked /\ j.unlisted = o.unlisted
      /\ j.skipped = o.skipped /\ j.strayed = o.strayed
    BY <1>1 DEF JobOK, JobFields
<1> HIDE DEF j
<1>4. Carried(o, away)
    BY <1>1, <1>2 DEF Gathers
<1>5. ASSUME NEW r \in DOMAIN counts
      PROVE  /\ r \in Rows /\ RowTable[r] \in Reads(o.sql) /\ IsProvider(o.plan[RowTable[r]])
             /\ counts[r] = Copies(o.plan[RowTable[r]], r)
    BY <1>4, <1>5 DEF Wanted, Carried
<1> HIDE DEF counts
<1>6. ASSUME ~o.strayed, Looking(o), NEW r \in Missed(j)
      PROVE  FALSE
    <2>1. /\ r \in DOMAIN counts /\ r \in o.due /\ counts[r] = 0 /\ r \notin o.unasked /\ r \notin staged
          /\ RowTable[r] \notin o.unlisted \cup o.tainted \cup o.sql.hidden
          /\ Satisfies(RowTime[r], o.sql.where)
        BY <1>3, <1>6 DEF Missed
    <2>2. r \in Rows /\ RowTable[r] \in Named(o.sql)
        BY <1>5, <2>1 DEF Reads
    <2>3. InRange(RowTime[r], o.sql.where)
        <3>1. RowTime[r] \in Times
            BY <2>2, FederationAssumption
        <3>2. \A x \in o.sql.where :
                  x.op \in {"lt", "le", "gt", "ge", "other"} /\ x.value \in Times
            BY <1>1, FederationAssumption DEF JobOK, RequestOK
        <3> QED
            BY <2>1, <3>1, <3>2, RangeIsSound
    <2>4. Seen(o.plan[RowTable[r]], r, away)
        BY <1>4, <1>6, <2>1, <2>2, <2>3 DEF Carried, Sought
    <2>5. Copies(o.plan[RowTable[r]], r) # 0
        BY <1>5, <2>1, <2>4, CopiesOf DEF Seen
    <2> QED
        BY <1>5, <2>1, <2>5
<1>7. ASSUME ~o.strayed, NEW r \in DOMAIN counts \cap o.settled, RowTable[r] \notin o.tainted
      PROVE  ~(counts[r] > 1)
    <2>1. Apart(o.plan[RowTable[r]], o.settled)
        BY <1>4, <1>5, <1>7 DEF Carried
    <2>2. Copies(o.plan[RowTable[r]], r) <= 1 /\ Copies(o.plan[RowTable[r]], r) \in Nat
        BY <1>5, <1>7, <2>1, CopiesOf
    <2> QED
        BY <1>5, <2>2
<1>8. Looking(j) = Looking(o)
    BY <1>3 DEF Looking
<1>9. Answer(j)
    BY <1>3, <1>6, <1>7, <1>8 DEF Answer
<1>10. Gathers(j, "done", buffered, away, catalog', leaked')
    BY <1>1, <1>3, <1>9 DEF Gathers, Locked
<1> QED
    BY <1>2, <1>10, GatherStep DEF Places

(* A row that moves is in the next place before it is gone from the last. *)
LEMMA GatherMove ==
    ASSUME FedInv, GatherInv, NEW r \in Moving, Move(r)
    PROVE  GatherInv'
<1>1. /\ UNCHANGED <<at, job, leaked>>
      /\ buffered' \subseteq buffered /\ staged \cup stored \subseteq staged' \cup stored'
      /\ buffered \cup staged \cup stored \subseteq buffered' \cup staged' \cup stored'
    <2>1. CASE Upload(r)
        BY <2>1 DEF Upload, server
    <2>2. CASE Announce(r)
        BY <2>2 DEF Announce
    <2>3. CASE Unannounced(r)
        BY <2>3 DEF Unannounced, server
    <2>4. CASE Stage(r)
        BY <2>4 DEF Stage, server
    <2>5. CASE Drain(r)
        BY <2>5 DEF Drain, server
    <2>6. CASE Report(r)
        BY <2>6 DEF Report, rows
    <2> QED
        BY <2>1, <2>2, <2>3, <2>4, <2>5, <2>6 DEF Move
<1>2. \/ UNCHANGED catalog
      \/ catalog[RowTable[r]] = Absent /\ SwapProvider(RowTable[r], Listing)
    BY DEF Move, Upload, Announce, Unannounced, Stage, Drain, Report, server
<1>3. \A t \in Tables : catalog'[t] = catalog[t] \/ (catalog[t] = Absent /\ catalog'[t] = Listing)
    BY <1>2 DEF SwapProvider, FedInv, TypeOK
<1>4. ASSUME NEW q \in Slots
      PROVE  Gathers(job[q], at[q], buffered', staged' \cup stored', catalog', leaked)
    <2>1. /\ JobOK(job[q], at[q])
          /\ Gathers(job[q], at[q], buffered, staged \cup stored, catalog, leaked)
        BY DEF FedInv, QueryInv, GatherInv
    <2> QED
        BY <1>1, <1>3, <2>1, GatherFrame
<1> QED
    BY <1>1, <1>4 DEF GatherInv

LEMMA InitGather == Init => GatherInv
<1>1. PICK s \in Requests : TRUE
    BY FederationAssumption
<1> QED
    BY <1>1, GatherNothing DEF Init, GatherInv

LEMMA StepGather == FedInv /\ GatherInv /\ [Next]_vars => GatherInv'
<1> SUFFICES ASSUME FedInv, GatherInv, [Next]_vars PROVE GatherInv'
    OBVIOUS
<1>1. ASSUME NEW q \in Slots, Federate(q) PROVE GatherInv'
    BY <1>1, GatherLock, GatherAsk, GatherListFails, GatherReply, GatherSwap, GatherUnlock, Zenon
       DEF Federate
<1>2. ASSUME NEW q \in Slots, CollectFails(q) \/ Answered(q) \/ Drop(q) PROVE GatherInv'
    <2>1. Fails(q) /\ UNCHANGED <<rows, catalog>> /\ leaked \subseteq leaked'
        BY <1>2 DEF CollectFails, Answered, Drop, server
    <2> QED
        BY <2>1, GatherFails
<1>3. CASE UNCHANGED vars
    BY <1>3 DEF vars, GatherInv
<1> QED
    BY <1>1, <1>2, <1>3, GatherSubmit, GatherPlan, GatherRegister, GatherCollect, GatherMove, Zenon
       DEF Next

LEMMA GatherHolds == Spec => []GatherInv
    BY InitGather, StepGather, FedInvHolds, PTL DEF Spec

(* An all query finds every row that was there when it was sent, while any of them
   move from buffers to files, other queries swap providers, and tables get listed;
   but for the six causes NothingMissed names. *)
THEOREM NothingIsMissed == Spec => []NothingMissed
<1>1. GatherInv => NothingMissed
    <2> SUFFICES ASSUME GatherInv, NEW q \in Slots, at[q] = "done", job[q].sql.mode = "all",
                        ~job[q].skipped, NEW r \in DOMAIN job[q].count \cap job[q].due,
                        job[q].count[r] = 0, ~job[q].strayed
                 PROVE  \/ r \in job[q].unasked \cup job[q].apart
                        \/ RowTable[r] \in job[q].unlisted \cup job[q].tainted \cup job[q].sql.hidden
                        \/ ~Satisfies(RowTime[r], job[q].sql.where)
        BY DEF NothingMissed
    <2>1. r \notin Missed(job[q])
        BY DEF GatherInv, Gathers, Answer, Looking
    <2> QED
        BY <2>1 DEF Missed
<1> QED
    BY <1>1, GatherHolds, PTL

(* A row that was only in files when a query was sent is read once at most, but for
   what a dropped query left behind, and for plans made without the lock. *)
THEOREM SettledReadOnce == Spec => []SettledOnce
<1>1. GatherInv => SettledOnce
    BY DEF GatherInv, Gathers, Answer, SettledOnce
<1> QED
    BY <1>1, GatherHolds, PTL
=============================================================================
