------------------------- MODULE ServerStoreProofs -------------------------
(***************************************************************************)
(* Proofs about ServerStore, for all sets of uploads, tables and handlers   *)
(* and any number of restarts and mishaps: the type invariant, that what is *)
(* acknowledged is held, that the server implements RowCustody, and that   *)
(* no upload is lost or kept twice, and no row count is wrong, without one  *)
(* of the causes noted.                                                     *)
(***************************************************************************)
EXTENDS ServerStore, FiniteSetTheorems, TLAPS

USE StoreAssumption

(* The row count recount_table computes is a number. *)
LEMMA RowCountNat ==
    ASSUME whole \subseteq SUBSET Uploads, NEW x
    PROVE  RowCount(x) \in Nat
<1> DEFINE P == {p \in whole \X Uploads : p[2] \in p[1] /\ TableOf[p[2]] = x}
<1>1. IsFiniteSet(whole)
    BY FS_SUBSET, FS_Subset
<1>2. IsFiniteSet(whole \X Uploads)
    BY <1>1, FS_Product
<1>3. IsFiniteSet(P)
    BY <1>2, FS_Subset
<1> QED BY <1>3, FS_CardinalityType DEF RowCount

(* A request the agent gave up on is a request. *)
LEMMA GivenUpRequest ==
    ASSUME NEW r \in Request
    PROVE  [r EXCEPT !.live = FALSE] \in Request
    BY DEF Request

(* The invariant holds initially. *)
LEMMA InitIInv == Init => IInv
<1> SUFFICES ASSUME Init PROVE IInv
    OBVIOUS
<1>1. TypeOK
    BY DEF Init, TypeOK, Files, Idle, Serving, Request
<1>2. HeldInv
    BY DEF Init, HeldInv, Idle
<1>3. SwapInv
    BY DEF Init, SwapInv
<1> QED BY <1>1, <1>2, <1>3 DEF IInv

-----------------------------------------------------------------------------
(* Type correctness is kept by the steps of a request ... *)
LEMMA TypeRequest ==
    ASSUME TypeOK, NEW h \in Handlers,
           (\E u \in Uploads : Send(h, u)) \/ GiveUp(h) \/ Cancel(h) \/ Handle(h)
    PROVE  TypeOK'
<1> USE DEF TypeOK, Files, diskVars, compactVars, history, Serving, Goto, Fault
<1>1. ASSUME NEW u \in Uploads, Send(h, u) PROVE TypeOK'
    BY <1>1 DEF Send, Request
<1>2. CASE GiveUp(h)
  <2>1. req' \in [Handlers -> Request]
    BY <1>2, GivenUpRequest DEF GiveUp
  <2>2. \A g \in Handlers : req'[g].pc = req[g].pc /\ req'[g].up = req[g].up
    BY <1>2 DEF GiveUp, Request
  <2>3. \A g \in Handlers : Serving(g, "idle")' <=> req'[g].up = NoUpload
    BY <2>2
  <2> QED BY <1>2, <2>1, <2>3 DEF GiveUp
<1>3. CASE Cancel(h)
    BY <1>3 DEF Cancel, Idle, Request
<1>4. CASE Check(h)
    BY <1>4 DEF Check, Request
<1>5. CASE TombSkip(h)
    BY <1>5 DEF TombSkip, Request
<1>6. CASE TombPass(h)
    BY <1>6 DEF TombPass, Request
<1>7. CASE Create(h)
    BY <1>7 DEF Create, Readable, Request
<1>8. CASE CreateFails(h)
    BY <1>8 DEF CreateFails, Request
<1>9. CASE Write(h)
    BY <1>9 DEF Write, Request
<1>10. CASE WriteDetached(h)
    BY <1>10 DEF WriteDetached, Request
<1>11. CASE WriteFails(h)
    BY <1>11 DEF WriteFails, Request
<1>12. CASE ReadStats(h)
    BY <1>12 DEF ReadStats, Request
<1>13. CASE UpdateStats(h)
    BY <1>13 DEF UpdateStats, Request
<1>14. CASE Respond(h)
    BY <1>14 DEF Respond, Idle, Request
<1> QED
    BY <1>1, <1>2, <1>3, <1>4, <1>5, <1>6, <1>7, <1>8, <1>9, <1>10, <1>11, <1>12,
       <1>13, <1>14 DEF Handle

(* ... by those of the compaction task ... *)
LEMMA TypeCompact ==
    ASSUME TypeOK, Compact
    PROVE  TypeOK'
<1> USE DEF TypeOK, Files, diskVars, compactVars, history, Serving, Fault
<1>1. ASSUME NEW old \in SUBSET tombs, CycleStart(old) PROVE TypeOK'
    BY <1>1 DEF CycleStart
<1>2. ASSUME NEW x \in Tables, List(x) PROVE TypeOK'
  <2>1. SmallFiles(x) \subseteq Uploads /\ \A u \in SmallFiles(x) : TableOf[u] = x
    BY DEF SmallFiles
  <2> QED BY <1>2, <2>1 DEF List
<1>3. CASE CycleDone
    BY <1>3 DEF CycleDone
<1>4. CASE Merge
    BY <1>4 DEF Merge
<1>5. CASE MergeFails
    BY <1>5 DEF MergeFails
<1>6. CASE Rename
    BY <1>6 DEF Rename
<1>7. ASSUME NEW u \in left, Remove(u) PROVE TypeOK'
  <2>1. req' \in [Handlers -> Request]
    BY <1>7 DEF Remove, Request
  <2>2. \A h \in Handlers : Serving(h, "idle")' <=> req'[h].up = NoUpload
    BY <1>7 DEF Remove, Request
  <2>3. /\ left' \subseteq inputs' /\ (cpc' = "remove" \/ left' = {})
        /\ cpc' \in {"remove", "mark"}
    BY <1>7 DEF Remove
  <2>4. /\ whole' \subseteq whole /\ torn' \subseteq torn
        /\ unsynced' \subseteq whole' \cup torn'
    BY <1>7 DEF Remove
  <2>5. faults' \in 0 .. MaxFaults /\ unmarked' \subseteq Uploads
    BY <1>7 DEF Remove
  <2>6. \A f \in whole' \cup torn' : f \in Files
    BY <2>4
  <2>7. UNCHANGED <<tombs, total, cycle, table, inputs, scan, crashes, acked, lost,
                    spoiled, skewed>>
    BY <1>7 DEF Remove
  <2> HIDE DEF Files
  <2>8. Files' = whole' \cup torn' /\ Files = whole \cup torn
    BY DEF Files
  <2>9. /\ whole' \subseteq SUBSET Uploads /\ torn' \subseteq SUBSET Uploads
        /\ unsynced' \subseteq Files'
        /\ \A f \in Files' : \A v, w \in f : TableOf[v] = TableOf[w]
    BY <2>4, <2>6, <2>8
  <2> QED BY <2>1, <2>2, <2>3, <2>5, <2>7, <2>9
<1>8. ASSUME NEW us \in SUBSET inputs, Mark(us) PROVE TypeOK'
    BY <1>8 DEF Mark
<1>9. CASE Scan
  <2>1. scan' \in Nat
    BY <1>9, RowCountNat DEF Scan
  <2>2. skewed' \subseteq Tables
    BY <1>9 DEF Scan, Request
  <2> QED BY <1>9, <2>1, <2>2 DEF Scan
<1>10. CASE Recount
    BY <1>10 DEF Recount
<1> QED
    BY <1>1, <1>2, <1>3, <1>4, <1>5, <1>6, <1>7, <1>8, <1>9, <1>10 DEF Compact

(* ... and by a restart. *)
LEMMA TypeDown ==
    ASSUME TypeOK, NEW cut \in SUBSET unsynced, Down(cut)
    PROVE  TypeOK'
<1> USE DEF TypeOK, Files, Serving
<1>1. lost' \subseteq Uploads /\ spoiled' \subseteq Uploads /\ unmarked' \subseteq Uploads
    BY DEF Down, Readable, Request
<1>2. skewed' \subseteq Tables
    BY DEF Down, Request
<1> QED BY <1>1, <1>2 DEF Down, Idle, Request

-----------------------------------------------------------------------------
(* Renaming adds the compacted file to what is readable, removing the originals
   takes nothing from it: their rows are in the compacted file. *)
LEMMA SwapKeeps ==
    ASSUME IInv, NEW u \in left, Remove(u)
    PROVE  Readable' = Readable
<1>1. CASE whole' = whole \ {{u}}
  <2>1. inputs \in whole /\ u \in inputs /\ inputs # {u}
    BY DEF IInv, SwapInv, Remove, TypeOK
  <2>2. inputs \in whole'
    BY <1>1, <2>1
  <2> QED BY <1>1, <2>1, <2>2 DEF Readable
<1>2. CASE whole' = whole
    BY <1>2 DEF Readable
<1> QED BY <1>1, <1>2 DEF Remove, diskVars

(* A step of a request is one of the abstract store, or none. *)
LEMMA RefineRequest ==
    ASSUME IInv, NEW h \in Handlers,
           (\E u \in Uploads : Send(h, u)) \/ GiveUp(h) \/ Cancel(h) \/ Handle(h)
    PROVE  [RC!Next]_(RC!vars)
<1> USE DEF RC!vars, diskVars, history
<1> DEFINE up == req[h].up
<1>0. /\ ~Serving(h, "idle") => up \in Uploads
      /\ Readable \subseteq Uploads
    BY DEF IInv, TypeOK, Request, Readable
<1>1. ASSUME NEW u \in Uploads, Send(h, u) PROVE UNCHANGED RC!vars
    BY <1>1 DEF Send, Readable
<1>2. CASE GiveUp(h)
    BY <1>2 DEF GiveUp, Readable
<1>3. CASE Cancel(h)
    BY <1>3 DEF Cancel, Readable
<1>4. CASE Check(h) \/ TombSkip(h)
  <2>1. up \in Uploads
    BY <1>0, <1>4 DEF Check, TombSkip, Serving
  <2>2. UNCHANGED <<Readable, acked>>
    BY <1>4 DEF Check, TombSkip, Readable
  <2>3. lost' = lost \/ lost' = lost \cup ({up} \ Readable)
    BY <1>4 DEF Check, TombSkip
  <2>4. CASE lost' = lost \cup ({up} \ Readable)
    <3>1. RC!Lose({up} \ Readable, {})
      BY <2>2, <2>4 DEF RC!Lose
    <3> QED BY <2>1, <3>1 DEF RC!Next
  <2> QED BY <2>2, <2>3, <2>4
<1>5. CASE TombPass(h)
    BY <1>5 DEF TombPass, Readable
<1>6. CASE Create(h)
  <2>1. Readable' \subseteq Readable
    BY <1>6 DEF Create, Readable
  <2>2. RC!Lose(Readable \ Readable', {})
    BY <1>6, <2>1 DEF Create, RC!Lose
  <2> QED BY <1>0, <2>2 DEF RC!Next
<1>7. CASE CreateFails(h)
    BY <1>7 DEF CreateFails, Readable
<1>8. CASE Write(h) \/ WriteFails(h)
  <2>1. Readable' = Readable \/ Readable' = Readable \cup {up}
    BY <1>8 DEF Write, WriteFails, Readable
  <2>2. UNCHANGED <<lost, acked>> /\ up \in Uploads
    BY <1>0, <1>8 DEF Write, WriteFails, Serving
  <2>3. Readable' = Readable \cup {up} => RC!Keep({up}, {})
    BY <2>2 DEF RC!Keep
  <2> QED BY <2>1, <2>2, <2>3 DEF RC!Next
<1>9. CASE WriteDetached(h)
    BY <1>9 DEF WriteDetached, Readable
<1>10. CASE ReadStats(h)
    BY <1>10 DEF ReadStats, Readable
<1>11. CASE UpdateStats(h)
    BY <1>11 DEF UpdateStats, Readable
<1>12. CASE Respond(h)
  <2>1. UNCHANGED <<Readable, lost>>
    BY <1>12 DEF Respond, Readable
  <2>2. CASE Serving(h, "ok") /\ req[h].live
    <3>1. up \in Readable \cup lost
      BY <2>2 DEF IInv, HeldInv, Serving
    <3>2. RC!Keep({}, {up})
      BY <1>12, <2>1, <2>2, <3>1 DEF Respond, RC!Keep
    <3> QED BY <1>0, <2>2, <3>2 DEF RC!Next, Serving
  <2>3. CASE ~(Serving(h, "ok") /\ req[h].live)
    BY <1>12, <2>1, <2>3 DEF Respond
  <2> QED BY <2>2, <2>3
<1> QED
    BY <1>1, <1>2, <1>3, <1>4, <1>5, <1>6, <1>7, <1>8, <1>9, <1>10, <1>11, <1>12
    DEF Handle

(* So is one of the compaction task: only the renaming is not invisible, when
   an original was truncated since it was read. *)
LEMMA RefineCompact ==
    ASSUME IInv, Compact
    PROVE  [RC!Next]_(RC!vars)
<1> USE DEF RC!vars, diskVars, history
<1>1. ASSUME NEW old \in SUBSET tombs, CycleStart(old) PROVE UNCHANGED RC!vars
    BY <1>1 DEF CycleStart, Readable
<1>2. ASSUME NEW x \in Tables, List(x) PROVE UNCHANGED RC!vars
    BY <1>2 DEF List, Readable
<1>3. CASE CycleDone
    BY <1>3 DEF CycleDone, Readable
<1>4. CASE Merge
    BY <1>4 DEF Merge, Readable
<1>5. CASE MergeFails
    BY <1>5 DEF MergeFails, Readable
<1>6. CASE Rename
  <2>1. Readable' = Readable \cup inputs
    BY <1>6 DEF Rename, Readable
  <2>2. RC!Keep(inputs, {}) /\ inputs \in SUBSET Uploads
    BY <1>6, <2>1 DEF Rename, RC!Keep, IInv, TypeOK
  <2> QED BY <2>2 DEF RC!Next
<1>7. ASSUME NEW u \in left, Remove(u) PROVE UNCHANGED RC!vars
    BY <1>7, SwapKeeps DEF Remove
<1>8. ASSUME NEW us \in SUBSET inputs, Mark(us) PROVE UNCHANGED RC!vars
    BY <1>8 DEF Mark, Readable
<1>9. CASE Scan
    BY <1>9 DEF Scan, Readable
<1>10. CASE Recount
    BY <1>10 DEF Recount, Readable
<1> QED
    BY <1>1, <1>2, <1>3, <1>4, <1>5, <1>6, <1>7, <1>8, <1>9, <1>10 DEF Compact

(* A restart loses what a power cut tears, and nothing else. *)
LEMMA RefineDown ==
    ASSUME IInv, NEW cut \in SUBSET unsynced, Down(cut)
    PROVE  [RC!Next]_(RC!vars)
<1>1. Readable' \subseteq Readable /\ Readable \subseteq Uploads
    BY DEF Down, Readable, IInv, TypeOK
<1>2. RC!Lose(Readable \ Readable', {})
    BY <1>1 DEF Down, RC!Lose
<1> QED BY <1>1, <1>2 DEF RC!Next

(* No step takes from what is readable or given up. *)
LEMMA HeldStays ==
    ASSUME [RC!Next]_(RC!vars)
    PROVE  Readable \cup lost \subseteq Readable' \cup lost'
    BY DEF RC!Next, RC!vars, RC!Keep, RC!Lose

-----------------------------------------------------------------------------
(* A request that is past the writing after a step was so before, or its upload
   is held now: it was found, skipped, written, or is in the compacted file. *)
LEMMA PastRequest ==
    ASSUME IInv, NEW h \in Handlers,
           (\E u \in Uploads : Send(h, u)) \/ GiveUp(h) \/ Cancel(h) \/ Handle(h),
           NEW g \in Handlers, req'[g].pc \in {"detached", "stats", "update", "ok"}
    PROVE  \/ /\ req[g].pc \in {"detached", "stats", "update", "ok"}
              /\ req'[g].up = req[g].up
           \/ req'[g].up \in Readable' \cup lost'
<1> USE DEF IInv, TypeOK, Request, Serving, Goto
<1>1. ASSUME NEW u \in Uploads, Send(h, u) PROVE req'[g] = req[g]
    BY <1>1 DEF Send
<1>2. CASE GiveUp(h)
  <2>1. req'[g].pc = req[g].pc /\ req'[g].up = req[g].up
    BY <1>2 DEF GiveUp
  <2> QED BY <2>1
<1>3. CASE Cancel(h) \/ Respond(h)
  <2>1. req' = [req EXCEPT ![h] = Idle]
    BY <1>3 DEF Cancel, Respond
  <2>2. req'[g] = Idle \/ req'[g] = req[g]
    BY <2>1
  <2> QED BY <2>2 DEF Idle
<1>4. CASE Check(h) \/ TombSkip(h)
    BY <1>4 DEF Check, TombSkip, diskVars, Readable
<1>5. CASE TombPass(h) \/ Create(h) \/ CreateFails(h) \/ WriteFails(h)
  <2>1. PICK place \in {"create", "write", "err"} : req' = [req EXCEPT ![h].pc = place]
    BY <1>5 DEF TombPass, Create, CreateFails, WriteFails
  <2>2. g # h /\ req'[g] = req[g]
    BY <2>1
  <2> QED BY <2>2
<1>6. CASE Write(h)
  <2>1. req' = [req EXCEPT ![h].pc = "stats"] /\ whole' = whole \cup {{req[h].up}}
    BY <1>6 DEF Write
  <2>2. CASE g = h
    <3>1. req'[g].up = req[h].up
      BY <2>1, <2>2
    <3>2. {req[h].up} \in whole'
      BY <2>1
    <3> QED BY <3>1, <3>2 DEF Readable
  <2>3. CASE g # h
    BY <2>1, <2>3
  <2> QED BY <2>2, <2>3
<1>7. CASE WriteDetached(h) \/ ReadStats(h) \/ UpdateStats(h)
    BY <1>7 DEF WriteDetached, ReadStats, UpdateStats
<1> QED
    BY <1>1, <1>2, <1>3, <1>4, <1>5, <1>6, <1>7 DEF Handle

(* What is acknowledged, or about to be, is held after every step. *)
LEMMA HeldStep ==
    ASSUME IInv, [Next]_vars, [RC!Next]_(RC!vars)
    PROVE  HeldInv'
<1> DEFINE Past == {"detached", "stats", "update", "ok"}
<1>1. Readable \cup lost \subseteq Readable' \cup lost'
    BY HeldStays
<1>2. acked' \subseteq Readable' \cup lost'
    BY <1>1 DEF IInv, HeldInv, RC!Next, RC!vars, RC!Keep, RC!Lose
<1>3. ASSUME NEW g \in Handlers, req'[g].pc \in Past
      PROVE  req'[g].up \in Readable' \cup lost'
  <2>1. (req[g].pc \in Past /\ req'[g].up = req[g].up)
            => req'[g].up \in Readable' \cup lost'
    BY <1>1 DEF IInv, HeldInv
  <2>2. ASSUME NEW h \in Handlers,
               (\E u \in Uploads : Send(h, u)) \/ GiveUp(h) \/ Cancel(h) \/ Handle(h)
        PROVE  req'[g].up \in Readable' \cup lost'
    BY <1>3, <2>1, <2>2, PastRequest
  <2>3. ASSUME NEW u \in left, Remove(u)
        PROVE  req'[g].up \in Readable' \cup lost'
    <3>1. Readable' = Readable /\ u \in Readable
      BY <2>3, SwapKeeps DEF IInv, SwapInv, Remove, TypeOK, Readable
    <3>2. req'[g] = req[g] \/ (req[g].up = u /\ req'[g].up = u)
      BY <2>3 DEF Remove, IInv, TypeOK, Request
    <3> QED BY <1>3, <2>1, <3>1, <3>2
  <2>4. CASE Compact /\ ~\E u \in left : Remove(u)
    <3>1. req' = req
      BY <2>4 DEF Compact, CycleStart, List, CycleDone, Merge, MergeFails, Rename, Mark,
                  Scan, Recount
    <3> QED BY <1>3, <2>1, <3>1
  <2>5. ASSUME NEW cut \in SUBSET unsynced, Down(cut) PROVE FALSE
    BY <1>3, <2>5 DEF Down, Idle
  <2>6. CASE UNCHANGED vars
    BY <1>3, <2>1, <2>6 DEF vars
  <2> QED
    BY <2>2, <2>3, <2>4, <2>5, <2>6 DEF Next, Compact
<1> QED BY <1>2, <1>3 DEF HeldInv

(* ... and so is the compacted file of a swap under way. *)
LEMMA SwapStep ==
    ASSUME IInv, [Next]_vars
    PROVE  SwapInv'
<1> USE DEF IInv, SwapInv, TypeOK, diskVars, compactVars
<1>1. ASSUME NEW h \in Handlers,
             (\E u \in Uploads : Send(h, u)) \/ GiveUp(h) \/ Cancel(h) \/ Handle(h)
      PROVE  SwapInv'
  <2>1. UNCHANGED <<cpc, inputs>>
    BY <1>1 DEF Send, GiveUp, Cancel, Handle, Check, TombSkip, TombPass, Create,
                CreateFails, Write, WriteDetached, WriteFails, ReadStats, UpdateStats,
                Respond
  <2>2. whole \subseteq whole' \/ (Create(h) /\ req[h].up \in Uploads)
    BY <1>1 DEF Send, GiveUp, Cancel, Handle, Check, TombSkip, TombPass, Create,
                CreateFails, Write, WriteDetached, WriteFails, ReadStats, UpdateStats,
                Respond, Serving, Request
  <2>3. cpc = "remove" => inputs \in whole'
    BY <2>2 DEF Create
  <2> QED BY <2>1, <2>3
<1>2. ASSUME NEW x \in Tables, List(x) PROVE SwapInv'
  <2>1. CASE inputs' = SmallFiles(x) /\ \E u, v \in SmallFiles(x) : u # v
    BY <1>2, <2>1 DEF List
  <2>2. CASE UNCHANGED <<inputs, cpc>>
    BY <1>2, <2>2 DEF List
  <2> QED BY <1>2, <2>1, <2>2 DEF List
<1>3. CASE Rename
    BY <1>3 DEF Rename
<1>4. ASSUME NEW u \in left, Remove(u) PROVE SwapInv'
    BY <1>4 DEF Remove
<1>5. CASE \/ \E old \in SUBSET tombs : CycleStart(old)
           \/ CycleDone \/ Merge \/ MergeFails
           \/ \E us \in SUBSET inputs : Mark(us)
           \/ Scan \/ Recount
    BY <1>5 DEF CycleStart, CycleDone, Merge, MergeFails, Mark, Scan, Recount
<1>6. ASSUME NEW cut \in SUBSET unsynced, Down(cut) PROVE SwapInv'
    BY <1>6 DEF Down
<1>7. CASE UNCHANGED vars
    BY <1>7 DEF vars
<1> QED
    BY <1>1, <1>2, <1>3, <1>4, <1>5, <1>6, <1>7 DEF Next, Compact

(* Every step maps to a step of the abstract store or to none. *)
LEMMA RefineStep ==
    ASSUME IInv, [Next]_vars
    PROVE  [RC!Next]_(RC!vars)
<1>1. CASE UNCHANGED vars
    BY <1>1 DEF vars, RC!vars, Readable
<1>2. CASE Next
    BY <1>2, RefineRequest, RefineCompact, RefineDown DEF Next
<1> QED BY <1>1, <1>2

(* The invariant is inductive. *)
LEMMA StepIInv ==
    ASSUME IInv, [Next]_vars
    PROVE  IInv'
<1>1. TypeOK'
  <2>1. CASE UNCHANGED vars
    BY <2>1 DEF vars, IInv, TypeOK, Files, Serving
  <2>2. CASE Next
    BY <2>2, TypeRequest, TypeCompact, TypeDown DEF Next, IInv
  <2> QED BY <2>1, <2>2
<1>2. HeldInv'
    BY RefineStep, HeldStep
<1>3. SwapInv'
    BY SwapStep
<1> QED BY <1>1, <1>2, <1>3 DEF IInv

-----------------------------------------------------------------------------
(* The inductive invariant holds: the server's state is well formed, a file has
   rows of one table only, what is acknowledged is held, and while originals are
   removed the compacted file is there. *)
THEOREM StoreInvariant == Spec => []IInv
    BY InitIInv, StepIInv, PTL DEF Spec

(* Files have the uploads of one table only, a handler that is idle serves
   nothing, and the compaction task removes only what it merged. *)
THEOREM StoreTyped == Spec => []TypeOK
<1>1. IInv => TypeOK
    BY DEF IInv
<1> QED BY <1>1, StoreInvariant, PTL

(* Every upload acknowledged is readable, or one of those noted as lost: the
   uploads answered over a torn file or for another table's tombstone, or torn
   by a restart or by an overlapping request. *)
THEOREM AckedHeld == Spec => [](acked \subseteq Readable \cup lost)
<1>1. IInv => acked \subseteq Readable \cup lost
    BY DEF IInv, HeldInv
<1> QED BY <1>1, StoreInvariant, PTL

(* The server implements the abstract store: merges, tombstones, retries and
   recounts are invisible, and nothing is lost but what is noted as lost. *)
THEOREM ServerImplementsStore == Spec => StoreKept
<1>1. Init => RC!Init
    BY DEF Init, RC!Init, Readable
<1>2. IInv /\ [Next]_vars => [RC!Next]_(RC!vars)
    BY RefineStep
<1> QED BY <1>1, <1>2, StoreInvariant, PTL DEF Spec, StoreKept, RC!Spec

-----------------------------------------------------------------------------
(* Causes.  The two requests, the failed write or the cut that spoiled an upload,
   and the missing tombstone, are there before the upload is lost or doubled. *)

(* Facts about sets the file lists need. *)
LEMMA Singletons == \A x, y : {x} = {y} => x = y
    OBVIOUS

LEMMA Exchange ==
    ASSUME NEW A, NEW B, NEW x \in A \cup B
    PROVE  A \cup {x} \cup (B \ {x}) = A \cup B
    OBVIOUS

(* A request that changes no file keeps the causes, if it is well placed where it
   gets to and did not leave a write. *)
LEMMA RequestFrame ==
    ASSUME Causes, UNCHANGED <<diskVars, compactVars, tombs>>,
           spoiled \subseteq spoiled', unmarked \subseteq unmarked',
           \A g \in Handlers :
               /\ \/ req'[g].pc = req[g].pc /\ req'[g].up = req[g].up
                  \/ req'[g].pc \notin {"tomb", "create", "write"}
                  \/ Placed(g)'
               /\ Serving(g, "write") =>
                     req[g].up \in spoiled' \/ (Serving(g, "write")' /\ req'[g].up = req[g].up)
    PROVE  PlaceInv' /\ TornInv' /\ MergedInv' /\ MergeInv'
<1> USE DEF diskVars, compactVars, Causes
<1>1. /\ whole' = whole /\ torn' = torn /\ Files' = Files /\ Readable' = Readable
      /\ cpc' = cpc /\ inputs' = inputs /\ left' = left /\ tombs' = tombs
    BY DEF Files, Readable
<1>2. PlaceInv'
    BY <1>1 DEF PlaceInv, Placed, Swapping, Serving
<1>3. TornInv'
    BY <1>1 DEF TornInv, Tombstoned
<1>4. MergedInv' /\ MergeInv'
    BY <1>1 DEF MergedInv, MergeInv, Swapping, Tombstoned
<1> QED BY <1>2, <1>3, <1>4

(* The upload a request serves stays the same or is given up. *)
LEMMA TwiceFrame ==
    ASSUME Causes, spoiled \subseteq spoiled', unmarked \subseteq unmarked',
           \A g \in Handlers : req'[g].up \in {req[g].up, NoUpload}
    PROVE  TwiceInv'
    BY DEF Causes, TwiceInv

(* A second request for an upload has it spoiled and unmarked. *)
LEMMA CauseSend ==
    ASSUME IInv, CauseInv, NEW h \in Handlers, NEW u \in Uploads, Send(h, u)
    PROVE  CauseInv'
<1> DEFINE others == {g \in Handlers : req[g].up = u}
<1>1. /\ Serving(h, "idle") /\ UNCHANGED <<diskVars, compactVars, tombs, lost>>
      /\ req' = [req EXCEPT ![h] = [pc |-> "check", up |-> u, live |-> TRUE]]
      /\ spoiled \subseteq spoiled' /\ unmarked \subseteq unmarked'
      /\ others # {} => u \in spoiled' \cap unmarked'
    BY DEF Send
<1>2. \A g \in Handlers : req'[g] = IF g = h THEN [pc |-> "check", up |-> u, live |-> TRUE]
                                    ELSE req[g]
    BY <1>1 DEF IInv, TypeOK
<1>3. PlaceInv' /\ TornInv' /\ MergedInv' /\ MergeInv'
  <2>1. ASSUME NEW g \in Handlers
        PROVE  /\ \/ req'[g].pc = req[g].pc /\ req'[g].up = req[g].up
                  \/ req'[g].pc \notin {"tomb", "create", "write"}
               /\ Serving(g, "write") => Serving(g, "write")' /\ req'[g].up = req[g].up
    BY <1>1, <1>2 DEF Serving
  <2> QED BY <1>1, <2>1, RequestFrame DEF CauseInv
<1>4. TwiceInv'
  <2>1. ASSUME NEW f \in Handlers, NEW g \in Handlers, f # g, req'[f].up = req'[g].up
        PROVE  req'[f].up \in {NoUpload} \cup (spoiled' \cap unmarked')
    <3>1. CASE f # h /\ g # h
        BY <1>1, <1>2, <2>1, <3>1 DEF CauseInv, Causes, TwiceInv
    <3>2. CASE f = h \/ g = h
      <4>1. req'[f].up = u /\ \E k \in Handlers : req[k].up = u
        BY <1>2, <2>1, <3>2
      <4> QED BY <1>1, <4>1
    <3> QED BY <3>1, <3>2
  <2> QED BY <2>1 DEF TwiceInv
<1>5. LossNeedsCause'
    BY <1>1 DEF CauseInv, LossNeedsCause
<1> QED BY <1>3, <1>4, <1>5 DEF CauseInv, Causes

(* Steps of a request that neither write nor look for a file or tombstone. *)
LEMMA CauseQuiet ==
    ASSUME IInv, CauseInv, NEW h \in Handlers,
           \/ GiveUp(h) \/ Cancel(h) \/ CreateFails(h) \/ WriteDetached(h)
           \/ ReadStats(h) \/ UpdateStats(h) \/ Respond(h)
    PROVE  CauseInv'
<1> USE DEF IInv, TypeOK, Request, Serving, Goto, history
<1>1. /\ UNCHANGED <<diskVars, compactVars, tombs, lost, spoiled, unmarked>>
    BY DEF GiveUp, Cancel, CreateFails, WriteDetached, ReadStats, UpdateStats, Respond
<1>2. ASSUME NEW g \in Handlers
      PROVE  /\ \/ req'[g].pc = req[g].pc /\ req'[g].up = req[g].up
                \/ req'[g].pc \notin {"tomb", "create", "write"}
             /\ Serving(g, "write") => Serving(g, "write")' /\ req'[g].up = req[g].up
             /\ req'[g].up \in {req[g].up, NoUpload}
  <2>1. CASE GiveUp(h)
      BY <2>1 DEF GiveUp
  <2>2. CASE Cancel(h) \/ Respond(h)
      BY <2>2 DEF Cancel, Respond, Idle
  <2>3. CASE CreateFails(h) \/ WriteDetached(h) \/ ReadStats(h) \/ UpdateStats(h)
    <3>1. req[h].pc # "write" /\ \E place \in {"err", "stats", "update", "ok"} :
              req' = [req EXCEPT ![h].pc = place]
      BY <2>3 DEF CreateFails, WriteDetached, ReadStats, UpdateStats
    <3> QED BY <3>1
  <2> QED BY <2>1, <2>2, <2>3
<1>3. PlaceInv' /\ TornInv' /\ MergedInv' /\ MergeInv'
    BY <1>1, <1>2, RequestFrame DEF CauseInv
<1>4. TwiceInv'
    BY <1>1, <1>2, TwiceFrame DEF CauseInv
<1>5. LossNeedsCause'
    BY <1>1 DEF CauseInv, LossNeedsCause
<1> QED BY <1>3, <1>4, <1>5 DEF CauseInv, Causes

(* A file found torn, or a tombstone for what is not readable, has a cause. *)
LEMMA CauseLook ==
    ASSUME IInv, CauseInv, NEW h \in Handlers, Check(h) \/ TombSkip(h) \/ TombPass(h)
    PROVE  CauseInv'
<1> DEFINE u == req[h].up
<1> USE DEF IInv, TypeOK, Request, Serving, Goto
<1>1. /\ UNCHANGED <<diskVars, compactVars, tombs, spoiled>>
      /\ unmarked \subseteq unmarked' /\ Files' = Files /\ u \in Uploads
    BY DEF Check, TombSkip, TombPass, Files, diskVars
<1>2. PICK place \in {"tomb", "create", "ok"} : req' = [req EXCEPT ![h].pc = place]
    BY DEF Check, TombSkip, TombPass
<1>3. \A g \in Handlers : /\ req'[g].up = req[g].up
                          /\ req'[g].pc = IF g = h THEN place ELSE req[g].pc
    BY <1>2
<1>4. /\ req[h].pc \in {"check", "tomb"}
      /\ place = "tomb" => {u} \notin Files
      /\ place = "create" =>
            /\ req[h].pc = "tomb"
            /\ u \in unmarked' \/ (~Tombstoned(u) /\ ~InSwap(u))
    BY <1>1, <1>3 DEF Check, TombSkip, TombPass
<1>5. Placed(h)' \/ place = "ok"
  <2>1. CASE place = "tomb"
      BY <1>1, <1>3, <1>4, <2>1 DEF Placed
  <2>2. CASE place = "create"
    <3>1. {u} \in Files => u \in spoiled \cap unmarked
        BY <1>4, <2>2 DEF CauseInv, Causes, PlaceInv, Placed
    <3>2. ASSUME NEW f \in whole, u \in f, Merged(f)
          PROVE  u \in unmarked'
      <4>1. u \in unmarked \/ Tombstoned(u) \/ (cpc \in {"remove", "mark"} /\ f = inputs)
        BY <1>1, <3>2 DEF CauseInv, Causes, MergedInv
      <4> QED BY <1>1, <1>4, <2>2, <3>2, <4>1 DEF InSwap
    <3>3. whole' = whole /\ req'[h].up = u /\ req'[h].pc = "create"
        BY <1>1, <1>3, <2>2 DEF diskVars
    <3> QED BY <1>1, <3>1, <3>2, <3>3 DEF Placed
  <2> QED BY <1>2, <2>1, <2>2
<1>6. PlaceInv' /\ TornInv' /\ MergedInv' /\ MergeInv'
  <2>1. ASSUME NEW g \in Handlers
        PROVE  /\ \/ req'[g].pc = req[g].pc /\ req'[g].up = req[g].up
                  \/ req'[g].pc \notin {"tomb", "create", "write"}
                  \/ Placed(g)'
               /\ Serving(g, "write") => Serving(g, "write")' /\ req'[g].up = req[g].up
    BY <1>3, <1>4, <1>5
  <2> QED BY <1>1, <2>1, RequestFrame DEF CauseInv
<1>7. TwiceInv'
    BY <1>1, <1>3, TwiceFrame DEF CauseInv
<1>8. LossNeedsCause'
  <2>1. CASE Check(h) \/ TombSkip(h)
    <3>1. ASSUME u \notin Readable, {u} \in Files PROVE u \in spoiled
      <4>1. {u} \in torn
        BY <3>1 DEF Files, Readable
      <4>2. PICK g \in Handlers : u \in spoiled \/ (Serving(g, "write") /\ req[g].up = u)
        BY <1>1, <4>1 DEF CauseInv, Causes, TornInv
      <4>3. CASE Serving(g, "write") /\ req[g].up = u
        <5>1. g # h
          BY <1>4, <4>3
        <5> QED BY <1>1, <4>3, <5>1 DEF CauseInv, Causes, TwiceInv
      <4> QED BY <4>2, <4>3
    <3>2. ASSUME u \notin Readable, Tombstoned(u) PROVE u \in spoiled \/ SharesName(u)
      BY <1>1, <3>2 DEF CauseInv, Causes, TornInv
    <3>3. /\ lost' = lost \/ lost' = lost \cup ({u} \ Readable)
          /\ lost' # lost => {u} \in Files \/ Tombstoned(u)
      BY <2>1 DEF Check, TombSkip
    <3> QED BY <1>1, <3>1, <3>2, <3>3 DEF CauseInv, LossNeedsCause
  <2>2. CASE TombPass(h)
      BY <2>2 DEF TombPass, CauseInv, LossNeedsCause
  <2> QED BY <2>1, <2>2
<1> QED BY <1>6, <1>7, <1>8 DEF CauseInv, Causes

(* A request truncates only a file that another request, or one before a failed
   write, has made since it looked. *)
LEMMA CauseCreate ==
    ASSUME IInv, CauseInv, NEW h \in Handlers, Create(h)
    PROVE  CauseInv'
<1> DEFINE u == req[h].up
<1> USE DEF IInv, TypeOK, Request, Serving
<1>1. /\ UNCHANGED <<compactVars, tombs, spoiled, unmarked>> /\ u \in Uploads
      /\ Serving(h, "create") /\ req' = [req EXCEPT ![h].pc = "write"]
      /\ whole' = whole \ {{u}} /\ torn' = torn \cup {{u}}
      /\ lost' = lost \cup (Readable \ Readable')
    BY DEF Create, Goto, compactVars, diskVars
<1>2. \A g \in Handlers : /\ req'[g].up = req[g].up
                          /\ req'[g].pc = IF g = h THEN "write" ELSE req[g].pc
    BY <1>1
<1>3. Files' = Files \cup {{u}}
    BY <1>1 DEF Files
<1>4. /\ cpc' = cpc /\ inputs' = inputs /\ left' = left /\ tombs' = tombs
      /\ spoiled' = spoiled /\ unmarked' = unmarked
    BY <1>1 DEF compactVars
<1>5. \A f : Merged(f) => (f \in whole' <=> f \in whole)
    BY <1>1 DEF Merged
<1>6. {u} \in Files => u \in spoiled \cap unmarked
    BY <1>1 DEF CauseInv, Causes, PlaceInv, Placed
<1>7. \A f \in whole : u \in f /\ Merged(f) => u \in unmarked \/ Swapping(u, f)
    BY <1>1 DEF CauseInv, Causes, PlaceInv, Placed
<1>8. ASSUME NEW v \in Readable PROVE v \in Readable' \/ (v = u /\ u \in spoiled)
  <2>1. PICK f \in whole : v \in f
    BY DEF Readable
  <2>2. f \in whole' => v \in Readable'
    BY <2>1 DEF Readable
  <2>3. f \in whole' \/ f = {u}
    BY <1>1
  <2>4. f = {u} => v = u /\ u \in spoiled
    BY <1>6, <2>1 DEF Files
  <2> QED BY <2>2, <2>3, <2>4
<1>9. PlaceInv'
  <2>1. ASSUME NEW g \in Handlers, g # h, req[g].up = u PROVE Placed(g)'
    <3>1. u \in spoiled \cap unmarked
      BY <1>1, <2>1 DEF CauseInv, Causes, TwiceInv
    <3> QED BY <1>2, <1>3, <1>4, <2>1, <3>1 DEF Placed
  <2>2. ASSUME NEW g \in Handlers, req[g].up # u PROVE Placed(g)'
    <3>1. {req[g].up} \in Files' <=> {req[g].up} \in Files
      BY <1>3, <2>2
    <3>2. Placed(g) /\ g # h
      BY <2>2 DEF CauseInv, Causes, PlaceInv
    <3> QED BY <1>2, <1>4, <1>5, <3>1, <3>2 DEF Placed, Swapping
  <2>3. Placed(h)'
      BY <1>2, <1>3, <1>4, <1>5, <1>7 DEF Placed, Swapping
  <2> QED BY <2>1, <2>2, <2>3 DEF PlaceInv
<1>10. TornInv'
  <2>1. ASSUME NEW v \in Uploads, {v} \in torn'
        PROVE  v \in spoiled' \/ \E g \in Handlers : Serving(g, "write")' /\ req'[g].up = v
    <3>1. CASE v = u
      BY <1>2, <3>1
    <3>2. CASE v # u
      <4> HIDE DEF Files, TypeOK, IInv, Request, Serving
      <4>0. torn' \subseteq torn \cup {{u}}
        BY <1>1
      <4>1. {v} \in torn
        BY <4>0, <2>1, <3>2, Singletons
      <4>2. PICK g \in Handlers : v \in spoiled \/ (Serving(g, "write") /\ req[g].up = v)
        BY <4>1 DEF CauseInv, Causes, TornInv
      <4> QED BY <1>1, <1>2, <1>4, <4>2 DEF Serving
    <3> QED BY <3>1, <3>2
  <2>2. ASSUME NEW v \in Uploads, Tombstoned(v)'
        PROVE  SharesName(v) \/ v \in spoiled' \/ v \in Readable'
      BY <1>4, <1>8, <2>2 DEF CauseInv, Causes, TornInv, Tombstoned
  <2> QED BY <2>1, <2>2 DEF TornInv
<1>11. MergedInv'
  <2>1. ASSUME NEW v \in Uploads \ unmarked, NEW f \in whole', v \in f, Merged(f)
        PROVE  /\ {v} \in Files' => Swapping(v, f)'
               /\ Tombstoned(v)' \/ (cpc' \in {"remove", "mark"} /\ f = inputs')
               /\ \A g \in whole' : v \in g /\ Merged(g) => f = g
    <3>1. f \in whole /\ \A g \in whole' : Merged(g) => g \in whole
      BY <1>5, <2>1
    <3>2. /\ {v} \in Files => Swapping(v, f)
          /\ Tombstoned(v) \/ (cpc \in {"remove", "mark"} /\ f = inputs)
          /\ \A g \in whole : v \in g /\ Merged(g) => f = g
      BY <2>1, <3>1 DEF CauseInv, Causes, MergedInv
    <3>3. {v} \in Files' => Swapping(v, f)
      BY <1>3, <1>7, <2>1, <3>1, <3>2
    <3> QED BY <1>4, <3>1, <3>2, <3>3 DEF Swapping, Tombstoned
  <2> QED BY <1>4, <2>1 DEF MergedInv
<1>12. MergeInv'
    BY <1>3, <1>4, <1>5 DEF CauseInv, Causes, MergeInv
<1>13. TwiceInv'
    BY <1>2, <1>4, TwiceFrame DEF CauseInv
<1>14. LossNeedsCause'
    BY <1>1, <1>4, <1>8 DEF CauseInv, LossNeedsCause
<1> QED BY <1>9, <1>10, <1>11, <1>12, <1>13, <1>14 DEF CauseInv, Causes

(* A file is written where one is; a failed write has its upload spoiled. *)
LEMMA CauseWrite ==
    ASSUME IInv, CauseInv, NEW h \in Handlers, Write(h) \/ WriteFails(h)
    PROVE  CauseInv'
<1> DEFINE u == req[h].up
<1> USE DEF IInv, TypeOK, Request, Serving
<1>1. /\ UNCHANGED <<compactVars, tombs, unmarked, lost>> /\ u \in Uploads
      /\ Serving(h, "write") /\ spoiled \subseteq spoiled'
      /\ \/ whole' = whole /\ torn' = torn
         \/ whole' = whole \cup {{u}} /\ torn' = torn \ {{u}}
      /\ {u} \in torn' => u \in spoiled'
  <2>1. CASE Write(h)
    BY <2>1 DEF Write, Goto, compactVars, history
  <2>2. CASE WriteFails(h)
    BY <2>2 DEF WriteFails, Goto, compactVars, diskVars
  <2> QED BY <2>1, <2>2
<1>2. PICK place \in {"stats", "err"} : req' = [req EXCEPT ![h].pc = place]
    BY DEF Write, WriteFails, Goto
<1>3. \A g \in Handlers : /\ req'[g].up = req[g].up
                          /\ req'[g].pc = IF g = h THEN place ELSE req[g].pc
    BY <1>2
<1>4. Files' = Files /\ Readable \subseteq Readable'
  <2>1. {u} \in Files
    BY <1>1 DEF CauseInv, Causes, PlaceInv, Placed
  <2>2. Files' = Files
    <3>1. whole \cup {{u}} \cup (torn \ {{u}}) = whole \cup torn
      BY <2>1, Exchange DEF Files
    <3>2. CASE whole' = whole /\ torn' = torn
      BY <3>2 DEF Files
    <3>3. CASE whole' = whole \cup {{u}} /\ torn' = torn \ {{u}}
      BY <3>1, <3>3 DEF Files
    <3> QED BY <1>1, <3>2, <3>3
  <2>3. whole \subseteq whole'
    BY <1>1
  <2> QED BY <2>2, <2>3 DEF Readable
<1>5. /\ cpc' = cpc /\ inputs' = inputs /\ left' = left /\ tombs' = tombs
      /\ unmarked' = unmarked
    BY <1>1 DEF compactVars
<1>6. \A f : Merged(f) => (f \in whole' <=> f \in whole)
    BY <1>1 DEF Merged
<1>7. PlaceInv'
  <2>1. ASSUME NEW g \in Handlers PROVE Placed(g)'
    <3>1. CASE g = h
      BY <1>3, <3>1 DEF Placed
    <3>2. CASE g # h
      BY <1>1, <1>3, <1>4, <1>5, <1>6, <3>2 DEF CauseInv, Causes, PlaceInv, Placed, Swapping
    <3> QED BY <3>1, <3>2
  <2> QED BY <2>1 DEF PlaceInv
<1>8. TornInv'
  <2>1. ASSUME NEW v \in Uploads, {v} \in torn'
        PROVE  v \in spoiled' \/ \E g \in Handlers : Serving(g, "write")' /\ req'[g].up = v
    <3>1. CASE v = u
      BY <1>1, <2>1, <3>1
    <3>2. CASE v # u
      <4>1. {v} \in torn
        BY <1>1, <2>1, <3>2, Singletons
      <4>2. PICK g \in Handlers : v \in spoiled \/ (Serving(g, "write") /\ req[g].up = v)
        BY <4>1 DEF CauseInv, Causes, TornInv
      <4>3. g # h \/ v \in spoiled
        BY <3>2, <4>2
      <4> QED BY <1>1, <1>3, <4>2, <4>3
    <3> QED BY <3>1, <3>2
  <2>2. ASSUME NEW v \in Uploads, Tombstoned(v)'
        PROVE  SharesName(v) \/ v \in spoiled' \/ v \in Readable'
      BY <1>1, <1>4, <1>5, <2>2 DEF CauseInv, Causes, TornInv, Tombstoned
  <2> QED BY <2>1, <2>2 DEF TornInv
<1>9. MergedInv'
  <2>1. ASSUME NEW v \in Uploads \ unmarked, NEW f \in whole', v \in f, Merged(f)
        PROVE  /\ {v} \in Files' => Swapping(v, f)'
               /\ Tombstoned(v)' \/ (cpc' \in {"remove", "mark"} /\ f = inputs')
               /\ \A g \in whole' : v \in g /\ Merged(g) => f = g
    <3>1. f \in whole /\ \A g \in whole' : Merged(g) => g \in whole
      BY <1>6, <2>1
    <3> QED BY <1>4, <1>5, <2>1, <3>1 DEF CauseInv, Causes, MergedInv, Swapping, Tombstoned
  <2> QED BY <1>5, <2>1 DEF MergedInv
<1>10. MergeInv'
    BY <1>4, <1>5, <1>6 DEF CauseInv, Causes, MergeInv
<1>11. TwiceInv'
    BY <1>1, <1>3, <1>5, TwiceFrame DEF CauseInv
<1>12. LossNeedsCause'
    BY <1>1 DEF CauseInv, LossNeedsCause
<1> QED BY <1>7, <1>8, <1>9, <1>10, <1>11, <1>12 DEF CauseInv, Causes

(* So are the steps of compaction outside of a swap, as long as what is to be merged
   is there and no tombstone is dropped unnoticed. *)
LEMMA CompactFrame ==
    ASSUME IInv, CauseInv, UNCHANGED <<diskVars, req, spoiled, lost>>,
           unmarked \subseteq unmarked', tombs' \subseteq tombs,
           cpc \notin {"remove", "mark"}, cpc' \notin {"remove", "mark"},
           cpc' \in {"merge", "rename"} => \A u \in inputs' : {u} \in Files,
           \A u \in Uploads : Tombstoned(u) => Tombstoned(u)' \/ u \in unmarked'
    PROVE  CauseInv'
<1>1. /\ whole' = whole /\ torn' = torn /\ Files' = Files /\ Readable' = Readable
      /\ req' = req /\ spoiled' = spoiled /\ lost' = lost
    BY DEF diskVars, Files, Readable
<1>2. TwiceInv'
    BY <1>1, TwiceFrame DEF CauseInv
<1>3. PlaceInv'
    BY <1>1 DEF CauseInv, Causes, PlaceInv, Placed, Swapping, Serving
<1>4. TornInv'
    BY <1>1 DEF CauseInv, Causes, TornInv, Tombstoned, Serving
<1>5. MergedInv'
    BY <1>1 DEF CauseInv, Causes, MergedInv, Swapping
<1>6. MergeInv'
    BY <1>1 DEF MergeInv
<1>7. LossNeedsCause'
    BY <1>1 DEF CauseInv, LossNeedsCause
<1> QED BY <1>2, <1>3, <1>4, <1>5, <1>6, <1>7 DEF CauseInv, Causes

(* Listing, merging, pruning and recounting are such steps. *)
LEMMA CauseCompact ==
    ASSUME IInv, CauseInv,
           \/ \E old \in SUBSET tombs : CycleStart(old)
           \/ \E x \in Tables : List(x)
           \/ CycleDone \/ Merge \/ MergeFails \/ Scan \/ Recount
    PROVE  CauseInv'
<1> USE DEF history, diskVars
<1>1. ASSUME NEW old \in SUBSET tombs, CycleStart(old) PROVE CauseInv'
  <2>1. \A u \in Uploads : Tombstoned(u) => Tombstoned(u)' \/ u \in unmarked'
    BY <1>1 DEF CycleStart, Tombstoned
  <2> QED BY <1>1, <2>1, CompactFrame DEF CycleStart
<1>2. ASSUME NEW x \in Tables, List(x) PROVE CauseInv'
  <2>1. cpc' \in {"merge", "list"} /\ (cpc' = "merge" => inputs' = SmallFiles(x))
    BY <1>2 DEF List
  <2>2. cpc' \in {"merge", "rename"} => \A u \in inputs' : {u} \in Files
    BY <2>1 DEF SmallFiles
  <2> QED BY <1>2, <2>1, <2>2, CompactFrame DEF List, Tombstoned
<1>3. CASE CycleDone
    BY <1>3, CompactFrame DEF CycleDone, Tombstoned
<1>4. CASE Merge
    BY <1>4, CompactFrame DEF Merge, Tombstoned, CauseInv, Causes, MergeInv
<1>5. CASE MergeFails
    BY <1>5, CompactFrame DEF MergeFails, Tombstoned
<1>6. CASE Scan \/ Recount
    BY <1>6, CompactFrame DEF Scan, Recount, Tombstoned
<1> QED BY <1>1, <1>2, <1>3, <1>4, <1>5, <1>6

(* Before the renaming all inputs have their files: what is not unmarked is in no
   compacted file yet. *)
LEMMA CauseRename ==
    ASSUME IInv, CauseInv, Rename
    PROVE  CauseInv'
<1> USE DEF IInv, TypeOK
<1>1. /\ UNCHANGED <<tombs, req, inputs, lost, spoiled, unmarked>> /\ cpc = "rename"
      /\ cpc' = "remove" /\ left' = inputs
      /\ whole' = whole \cup {inputs} /\ torn' = torn \ {inputs}
    BY DEF Rename, history
<1>2. Merged(inputs) /\ \A u \in inputs : {u} \in Files
    BY <1>1 DEF SwapInv, Merged, CauseInv, Causes, MergeInv
<1>3. \A u \in Uploads : {u} \in Files' <=> {u} \in Files
    BY <1>1, <1>2 DEF Files, Merged
<1>4. Readable \subseteq Readable'
    BY <1>1 DEF Readable
<1>5. \A u \in Uploads, f \in whole : u \in f /\ Merged(f) /\ {u} \in Files => u \in unmarked
    BY <1>1 DEF CauseInv, Causes, MergedInv, Swapping
<1>6. TwiceInv'
    BY <1>1, TwiceFrame DEF CauseInv
<1>7. PlaceInv'
  <2>1. ASSUME NEW g \in Handlers PROVE Placed(g)'
    <3> DEFINE u == req[g].up
    <3>1. req[g].pc \in {"tomb", "create", "write"} => u \in Uploads
      BY DEF Request, Serving
    <3>2. Placed(g)
      BY DEF CauseInv, Causes, PlaceInv
    <3>3. ASSUME req[g].pc \in {"create", "write"}, NEW f \in whole', u \in f, Merged(f)
          PROVE  u \in unmarked \/ (u \in inputs /\ f = inputs)
      <4>1. CASE f \in whole
        BY <1>1, <3>2, <3>3, <4>1 DEF Placed, Swapping
      <4> QED BY <1>1, <3>3, <4>1
    <3>4. ASSUME req[g].pc \in {"tomb", "create"}, {u} \in Files' PROVE u \in spoiled \cap unmarked
      BY <1>3, <3>1, <3>2, <3>4 DEF Placed
    <3>5. Serving(g, "write") => {u} \in Files'
      BY <1>3, <3>1, <3>2 DEF Placed, Serving
    <3> HIDE DEF IInv, TypeOK
    <3> QED BY <1>1, <3>3, <3>4, <3>5 DEF Placed, Swapping, Serving
  <2> QED BY <2>1 DEF PlaceInv
<1>8. TornInv'
    BY <1>1, <1>4 DEF CauseInv, Causes, TornInv, Tombstoned, Serving
<1>9. MergedInv'
  <2>1. ASSUME NEW u \in Uploads \ unmarked, NEW f \in whole', u \in f, Merged(f)
        PROVE  /\ {u} \in Files' => Swapping(u, f)'
               /\ Tombstoned(u)' \/ (cpc' \in {"remove", "mark"} /\ f = inputs')
               /\ \A g \in whole' : u \in g /\ Merged(g) => f = g
    <3>1. CASE f = inputs
      <4>1. \A g \in whole : ~(u \in g /\ Merged(g))
        BY <1>2, <1>5, <2>1, <3>1
      <4> QED BY <1>1, <2>1, <3>1, <4>1 DEF Swapping
    <3>2. CASE f # inputs
      <4>1. f \in whole /\ {u} \notin Files
        BY <1>1, <1>5, <2>1, <3>2
      <4>2. Tombstoned(u) /\ \A g \in whole : u \in g /\ Merged(g) => f = g
        BY <1>1, <2>1, <4>1 DEF CauseInv, Causes, MergedInv
      <4>3. u \notin inputs
        BY <1>2, <4>1
      <4> QED BY <1>1, <1>3, <4>1, <4>2, <4>3 DEF Tombstoned
    <3> QED BY <3>1, <3>2
  <2> QED BY <1>1, <2>1 DEF MergedInv
<1>10. MergeInv'
    BY <1>1, <1>2, <1>3 DEF MergeInv
<1>11. LossNeedsCause'
    BY <1>1 DEF CauseInv, LossNeedsCause
<1> QED BY <1>6, <1>7, <1>8, <1>9, <1>10, <1>11 DEF CauseInv, Causes

(* A merged file goes, or its upload is unmarked: whoever would bring it back found
   it, or is known to be a second request. *)
LEMMA CauseRemove ==
    ASSUME IInv, CauseInv, NEW u \in left, Remove(u)
    PROVE  CauseInv'
<1> USE DEF IInv, TypeOK
<1>1. /\ UNCHANGED <<tombs, inputs, lost, spoiled>> /\ cpc = "remove"
      /\ left' = left \ {u} /\ cpc' \in {"remove", "mark"}
      /\ left' # {} => cpc' = "remove"
      /\ unmarked \subseteq unmarked' /\ u \in Uploads
    BY DEF Remove
<1>2. \/ /\ whole' = whole \ {{u}} /\ torn' = torn \ {{u}} /\ unmarked' = unmarked
         /\ req' = [h \in Handlers |-> IF req[h].up = u /\ Serving(h, "write")
                                      THEN [req[h] EXCEPT !.pc = "detached"] ELSE req[h]]
      \/ whole' = whole /\ torn' = torn /\ req' = req /\ u \in unmarked'
    BY DEF Remove, diskVars
<1>3. ASSUME NEW g \in Handlers
      PROVE  /\ req'[g].up = req[g].up
             /\ \/ req'[g].pc = req[g].pc
                \/ req[g].up = u /\ req[g].pc = "write" /\ req'[g].pc = "detached"
             /\ req[g].up = u /\ req'[g].pc = "write" => {u} \in Files'
  <2>1. CASE req' = req /\ Files' = Files
    BY <2>1 DEF CauseInv, Causes, PlaceInv, Placed, Serving
  <2>2. CASE req' = [h \in Handlers |-> IF req[h].up = u /\ Serving(h, "write")
                                      THEN [req[h] EXCEPT !.pc = "detached"] ELSE req[h]]
    BY <2>2 DEF Serving, Request
  <2> QED BY <1>2, <2>1, <2>2 DEF Files
<1>4. /\ \A v \in Uploads : v # u => ({v} \in Files' <=> {v} \in Files)
      /\ \A v \in Uploads : {v} \in torn' => {v} \in torn
      /\ {u} \in Files' => u \in unmarked'
      /\ \A f : Merged(f) => (f \in whole' <=> f \in whole)
      /\ Files' \subseteq Files
    BY <1>1, <1>2, Singletons DEF Files, Merged
<1>5. /\ inputs \in whole /\ Merged(inputs) /\ {u} \in Files
      /\ \A v \in left : {v} \in Files
    BY <1>1 DEF CauseInv, Causes, MergeInv
<1>6. \A v, f : Swapping(v, f) /\ v # u => Swapping(v, f)'
    BY <1>1 DEF Swapping
<1>7. Readable' = Readable
    BY SwapKeeps
<1>8. TwiceInv'
    BY <1>1, <1>3, TwiceFrame DEF CauseInv
<1>9. PlaceInv'
  <2>1. ASSUME NEW g \in Handlers PROVE Placed(g)'
    <3> DEFINE v == req[g].up
    <3>1. Placed(g)
      BY DEF CauseInv, Causes, PlaceInv
    <3>2. CASE v = u
      <4>1. req'[g].pc = "create" => u \in unmarked
        BY <1>3, <1>5, <3>1, <3>2 DEF Placed
      <4>2. req'[g].pc = "write" => req[g].pc = "write" /\ {u} \in Files'
        BY <1>3, <3>2
      <4>3. req'[g].pc = "write" => u \in unmarked'
        BY <1>4, <4>2
      <4>4. req'[g].pc \in {"tomb", "create"} /\ {u} \in Files' => u \in spoiled' \cap unmarked'
        BY <1>1, <1>3, <1>5, <3>1, <3>2 DEF Placed
      <4> QED BY <1>1, <1>3, <3>2, <4>1, <4>2, <4>3, <4>4 DEF Placed, Serving
    <3>3. CASE v # u
      <4>1. req'[g].pc = req[g].pc /\ req'[g].up = v
        BY <1>3, <3>3
      <4>2. v \in Uploads => ({v} \in Files' <=> {v} \in Files)
        BY <1>4, <3>3
      <4>3. req[g].pc \in {"tomb", "create", "write"} => v \in Uploads
        BY DEF Request, Serving
      <4> HIDE DEF IInv, TypeOK, v
      <4>4. /\ req'[g].pc \in {"tomb", "create"} /\ {v} \in Files' => v \in spoiled' \cap unmarked'
            /\ req'[g].pc = "write" => {v} \in Files'
        BY <1>1, <3>1, <4>1, <4>2, <4>3 DEF Placed, Serving, v
      <4>5. req'[g].pc \in {"create", "write"} =>
              \A f \in whole' : v \in f /\ Merged(f) => v \in unmarked' \/ Swapping(v, f)'
        BY <1>1, <1>4, <1>6, <3>1, <3>3, <4>1 DEF Placed, v
      <4> QED BY <4>1, <4>4, <4>5 DEF Placed, Serving, v
    <3> QED BY <3>2, <3>3
  <2> QED BY <2>1 DEF PlaceInv
<1>10. TornInv'
  <2>1. ASSUME NEW v \in Uploads, {v} \in torn'
        PROVE  v \in spoiled' \/ \E g \in Handlers : Serving(g, "write")' /\ req'[g].up = v
    <3>1. v \in spoiled \/ \E g \in Handlers : Serving(g, "write") /\ req[g].up = v
      BY <1>4, <2>1 DEF CauseInv, Causes, TornInv
    <3>2. v = u => req' = req
      BY <1>2, <2>1
    <3> QED BY <1>1, <1>3, <3>1, <3>2 DEF Serving
  <2>2. ASSUME NEW v \in Uploads, Tombstoned(v)'
        PROVE  SharesName(v) \/ v \in spoiled' \/ v \in Readable'
    BY <1>1, <1>7, <2>2 DEF CauseInv, Causes, TornInv, Tombstoned
  <2> QED BY <2>1, <2>2 DEF TornInv
<1>11. MergedInv'
  <2>1. ASSUME NEW v \in Uploads \ unmarked', NEW f \in whole', v \in f, Merged(f)
        PROVE  /\ {v} \in Files' => Swapping(v, f)'
               /\ Tombstoned(v)' \/ (cpc' \in {"remove", "mark"} /\ f = inputs')
               /\ \A g \in whole' : v \in g /\ Merged(g) => f = g
    <3>1. f \in whole /\ \A g \in whole' : Merged(g) => g \in whole
      BY <1>4, <2>1
    <3>2. /\ {v} \in Files => Swapping(v, f)
          /\ Tombstoned(v) \/ (cpc \in {"remove", "mark"} /\ f = inputs)
          /\ \A g \in whole : v \in g /\ Merged(g) => f = g
      BY <1>1, <2>1, <3>1 DEF CauseInv, Causes, MergedInv
    <3>3. {v} \in Files' => Swapping(v, f)'
      BY <1>4, <1>6, <2>1, <3>2
    <3> QED BY <1>1, <3>1, <3>2, <3>3 DEF Tombstoned
  <2> QED BY <1>1, <2>1 DEF MergedInv
<1>12. MergeInv'
  <2>1. inputs \in whole'
    BY <1>4, <1>5
  <2>2. \A v \in left' : {v} \in Files'
    BY <1>1, <1>4, <1>5
  <2> QED BY <1>1, <1>5, <2>1, <2>2 DEF MergeInv
<1>13. LossNeedsCause'
    BY <1>1 DEF CauseInv, LossNeedsCause
<1> QED BY <1>8, <1>9, <1>10, <1>11, <1>12, <1>13 DEF CauseInv, Causes

(* Tombstones are for rows of the compacted file; who gets none is unmarked. *)
LEMMA CauseMark ==
    ASSUME IInv, CauseInv, NEW us \in SUBSET inputs, Mark(us)
    PROVE  CauseInv'
<1> USE DEF IInv, TypeOK
<1>1. /\ UNCHANGED <<req, inputs, lost, spoiled>> /\ cpc = "mark" /\ cpc' = "scan"
      /\ whole' = whole /\ torn' = torn /\ Files' = Files /\ Readable' = Readable
      /\ tombs' = tombs \cup {NameOf[u] : u \in us}
      /\ unmarked' = unmarked \cup (inputs \ us)
    BY DEF Mark, diskVars, Files, Readable
<1>2. inputs \in whole /\ Merged(inputs)
    BY <1>1 DEF CauseInv, Causes, MergeInv
<1>3. TwiceInv'
    BY <1>1, TwiceFrame DEF CauseInv
<1>4. PlaceInv'
    BY <1>1 DEF CauseInv, Causes, PlaceInv, Placed, Swapping, Serving
<1>5. TornInv'
  <2>1. ASSUME NEW v \in Uploads, Tombstoned(v)'
        PROVE  SharesName(v) \/ v \in spoiled \/ v \in Readable
    <3>1. CASE Tombstoned(v)
      BY <3>1 DEF CauseInv, Causes, TornInv
    <3>2. CASE ~Tombstoned(v)
      <4>1. PICK w \in us : NameOf[w] = NameOf[v]
        BY <1>1, <2>1, <3>2 DEF Tombstoned
      <4>2. w \in Readable /\ w \in Uploads
        BY <1>2 DEF Readable
      <4> QED BY <4>1, <4>2 DEF SharesName
    <3> QED BY <3>1, <3>2
  <2> QED BY <1>1, <2>1 DEF CauseInv, Causes, TornInv, Serving
<1>6. MergedInv'
  <2>1. ASSUME NEW v \in Uploads \ unmarked', NEW f \in whole, v \in f, Merged(f)
        PROVE  {v} \notin Files /\ Tombstoned(v)' /\ \A g \in whole : v \in g /\ Merged(g) => f = g
    <3>1. /\ {v} \in Files => Swapping(v, f)
          /\ Tombstoned(v) \/ f = inputs
          /\ \A g \in whole : v \in g /\ Merged(g) => f = g
      BY <1>1, <2>1 DEF CauseInv, Causes, MergedInv
    <3>2. f = inputs => v \in us
      BY <1>1, <2>1
    <3> QED BY <1>1, <3>1, <3>2 DEF Swapping, Tombstoned
  <2> QED BY <1>1, <2>1 DEF MergedInv
<1>7. MergeInv'
    BY <1>1 DEF MergeInv
<1>8. LossNeedsCause'
    BY <1>1 DEF CauseInv, LossNeedsCause
<1> QED BY <1>3, <1>4, <1>5, <1>6, <1>7, <1>8 DEF CauseInv, Causes

(* A restart spoils what it cuts short, and unmarks what a swap had not marked yet. *)
LEMMA CauseDown ==
    ASSUME IInv, CauseInv, NEW cut \in SUBSET unsynced, Down(cut)
    PROVE  CauseInv'
<1> USE DEF IInv, TypeOK
<1> DEFINE writing == {req[h].up : h \in {g \in Handlers : req[g].pc \in {"write"}}}
<1>1. /\ tombs' = tombs /\ cpc' = "idle" /\ cut \subseteq whole
      /\ whole' = whole \ cut /\ torn' = torn \cup cut
      /\ lost' = lost \cup (Readable \ Readable')
      /\ req' = [h \in Handlers |-> Idle]
      /\ spoiled' = spoiled \cup writing \cup UNION cut
      /\ unmarked' = unmarked \cup
            (IF cpc \in {"remove", "mark"} THEN inputs ELSE {}) \cup UNION cut
    BY DEF Down
<1>2. \A h \in Handlers : req'[h] = Idle
    BY <1>1
<1>3. Files' = Files
    BY <1>1 DEF Files
<1>4. \A v \in Readable : v \in Readable' \/ v \in spoiled'
  <2>1. ASSUME NEW v \in Readable PROVE v \in Readable' \/ v \in spoiled'
    <3>1. PICK f \in whole : v \in f
      BY DEF Readable
    <3>2. f \in cut => v \in spoiled'
      BY <1>1, <3>1
    <3>3. f \notin cut => v \in Readable'
      BY <1>1, <3>1 DEF Readable
    <3> QED BY <3>2, <3>3
  <2> QED BY <2>1
<1>5. TwiceInv'
    BY <1>2 DEF TwiceInv, Idle
<1>6. PlaceInv'
    BY <1>2 DEF PlaceInv, Placed, Serving, Idle
<1>7. TornInv'
  <2>1. ASSUME NEW v \in Uploads, {v} \in torn' PROVE v \in spoiled'
    <3>1. CASE {v} \in torn
      BY <1>1, <3>1 DEF CauseInv, Causes, TornInv, Serving
    <3>2. CASE {v} \in cut
      BY <1>1, <3>2
    <3> QED BY <1>1, <2>1, <3>1, <3>2
  <2>2. ASSUME NEW v \in Uploads, Tombstoned(v)'
        PROVE  SharesName(v) \/ v \in spoiled' \/ v \in Readable'
    BY <1>1, <1>4, <2>2 DEF CauseInv, Causes, TornInv, Tombstoned
  <2> QED BY <2>1, <2>2 DEF TornInv
<1>8. MergedInv'
  <2>1. ASSUME NEW v \in Uploads \ unmarked', NEW f \in whole', v \in f, Merged(f)
        PROVE  {v} \notin Files /\ Tombstoned(v) /\ \A g \in whole' : v \in g /\ Merged(g) => f = g
    <3>1. v \notin unmarked /\ f \in whole /\ whole' \subseteq whole
      BY <1>1, <2>1
    <3>2. /\ {v} \in Files => Swapping(v, f)
          /\ Tombstoned(v) \/ (cpc \in {"remove", "mark"} /\ f = inputs)
          /\ \A g \in whole : v \in g /\ Merged(g) => f = g
      BY <2>1, <3>1 DEF CauseInv, Causes, MergedInv
    <3>3. ~(cpc \in {"remove", "mark"} /\ f = inputs)
      BY <1>1, <2>1
    <3> QED BY <3>1, <3>2, <3>3 DEF Swapping
  <2> HIDE DEF IInv, TypeOK
  <2> QED BY <1>1, <1>3, <2>1 DEF MergedInv, Tombstoned
<1>9. MergeInv'
    BY <1>1 DEF MergeInv
<1>10. LossNeedsCause'
    BY <1>1, <1>4 DEF CauseInv, LossNeedsCause
<1> QED BY <1>5, <1>6, <1>7, <1>8, <1>9, <1>10 DEF CauseInv, Causes

-----------------------------------------------------------------------------
(* Nothing is lost, torn or merged at first. *)
LEMMA InitCauseInv == Init => CauseInv
    BY DEF Init, CauseInv, Causes, TwiceInv, PlaceInv, Placed, TornInv, MergedInv, MergeInv,
           LossNeedsCause, Idle, Serving, Files, Tombstoned

(* Every step keeps the causes. *)
LEMMA StepCauseInv ==
    ASSUME IInv, CauseInv, [Next]_vars
    PROVE  CauseInv'
<1>1. ASSUME NEW h \in Handlers,
             (\E u \in Uploads : Send(h, u)) \/ GiveUp(h) \/ Cancel(h) \/ Handle(h)
      PROVE  CauseInv'
    BY <1>1, CauseSend, CauseQuiet, CauseLook, CauseCreate, CauseWrite DEF Handle
<1>2. CASE Compact
    BY <1>2, CauseCompact, CauseRename, CauseRemove, CauseMark DEF Compact
<1>3. CASE \E cut \in SUBSET unsynced : Down(cut)
    BY <1>3, CauseDown
<1>4. CASE UNCHANGED vars
  <2>1. Files' = Files /\ Readable' = Readable
    BY <1>4 DEF vars, Files, Readable
  <2> QED BY <1>4, <2>1 DEF vars, CauseInv, Causes, TwiceInv, PlaceInv, Placed, TornInv,
             MergedInv, MergeInv, LossNeedsCause, Serving, Tombstoned, Swapping
<1> QED BY <1>1, <1>2, <1>3, <1>4 DEF Next

(* A row outside of the swap under way is in one file: two compacted files with it are
   one, and what is merged has no file of its own. *)
LEMMA OneFile == IInv /\ CauseInv => DuplicateNeedsCause
<1> SUFFICES ASSUME IInv, CauseInv,
                    NEW u \in Uploads \ unmarked, NEW f \in whole, NEW g \in whole,
                    u \in f \cap g, f # g
             PROVE  cpc = "remove" /\ u \in left /\ {f, g} = {{u}, inputs}
    BY DEF DuplicateNeedsCause
<1>1. \A x \in whole : u \in x /\ ~Merged(x) => x = {u}
    BY DEF Merged
<1>2. ~(Merged(f) /\ Merged(g))
    BY DEF CauseInv, Causes, MergedInv
<1>3. CASE Merged(f) /\ g = {u}
    BY <1>3 DEF CauseInv, Causes, MergedInv, Swapping, Files
<1>4. CASE Merged(g) /\ f = {u}
    BY <1>4 DEF CauseInv, Causes, MergedInv, Swapping, Files
<1> QED BY <1>1, <1>2, <1>3, <1>4

(* Requests for one upload, torn files, tombstones and merged files are as the causes
   recorded so far allow. *)
THEOREM CausesKept == Spec => []CauseInv
    BY InitCauseInv, StepCauseInv, StoreInvariant, PTL DEF Spec

(* The server loses an upload, or answers 200 for what no file holds, only if it was
   sent twice at once, its writing failed or was cut short, or an upload of another
   table has the same file name. *)
THEOREM LossHasCause == Spec => []LossNeedsCause
<1>1. CauseInv => LossNeedsCause
    BY DEF CauseInv
<1> QED BY <1>1, CausesKept, PTL

(* A row is in two readable files only while its swap is under way, or when a retry
   could bring it back because the tombstone was late, pruned or not read. *)
THEOREM DuplicateHasCause == Spec => []DuplicateNeedsCause
    BY OneFile, StoreInvariant, CausesKept, PTL

-----------------------------------------------------------------------------
(* Counting: the rows of a table in a set of files. *)
Rows(W, t) == {p \in W \X Uploads : p[2] \in p[1] /\ TableOf[p[2]] = t}

(* Handler h has u to add to the count. *)
Owes(h, u) ==
    req[h].up = u /\ (Serving(h, "update") \/ (Serving(h, "stats") /\ {u} \in whole))

LEMMA RowsFinite ==
    ASSUME NEW W \in SUBSET SUBSET Uploads, NEW t
    PROVE  IsFiniteSet(Rows(W, t)) /\ Cardinality(Rows(W, t)) \in Nat
<1>1. IsFiniteSet(W)
    BY FS_SUBSET, FS_Subset
<1>2. IsFiniteSet(W \X Uploads)
    BY <1>1, FS_Product
<1>3. IsFiniteSet(Rows(W, t))
    BY <1>2, FS_Subset DEF Rows
<1> QED BY <1>3, FS_CardinalityType

LEMMA RowsCounted == \A t : RowCount(t) = Cardinality(Rows(whole, t))
    BY DEF RowCount, Rows

LEMMA RowsCountedNext == \A t : RowCount(t)' = Cardinality(Rows(whole', t))
    BY DEF RowCount, Rows

(* A file without rows of the table does not matter to its count ... *)
LEMMA RowsSame ==
    ASSUME NEW V, NEW W, NEW t,
           \A f : f \in V \ W \/ f \in W \ V => \A u \in f \cap Uploads : TableOf[u] # t
    PROVE  Rows(V, t) = Rows(W, t)
<1>1. ASSUME NEW p PROVE p \in Rows(V, t) <=> p \in Rows(W, t)
  <2>1. \A f \in V \cup W : \A u \in f \cap Uploads : TableOf[u] = t => (f \in V <=> f \in W)
    OBVIOUS
  <2>2. ASSUME p \in Rows(V, t) PROVE p \in Rows(W, t)
    <3>1. PICK f \in V : \E u \in Uploads : p = <<f, u>>
      BY <2>2 DEF Rows
    <3>2. PICK u \in Uploads : p = <<f, u>>
      BY <3>1
    <3> QED BY <2>1, <2>2, <3>1, <3>2 DEF Rows
  <2>3. ASSUME p \in Rows(W, t) PROVE p \in Rows(V, t)
    <3>1. PICK f \in W : \E u \in Uploads : p = <<f, u>>
      BY <2>3 DEF Rows
    <3>2. PICK u \in Uploads : p = <<f, u>>
      BY <3>1
    <3> QED BY <2>1, <2>3, <3>1, <3>2 DEF Rows
  <2> QED BY <2>2, <2>3
<1> QED BY <1>1

(* ... and an upload's own file has one row. *)
LEMMA RowsGrow ==
    ASSUME NEW W \in SUBSET SUBSET Uploads, NEW u \in Uploads, {u} \notin W
    PROVE  Cardinality(Rows(W \cup {{u}}, TableOf[u])) = Cardinality(Rows(W, TableOf[u])) + 1
<1> DEFINE t == TableOf[u]
           new == <<{u}, u>>
<1>1. new \notin Rows(W, t)
    BY DEF Rows
<1>2. Rows(W \cup {{u}}, t) = Rows(W, t) \cup {new}
  <2>1. Rows(W, t) \cup {new} \subseteq Rows(W \cup {{u}}, t)
    BY DEF Rows
  <2>2. ASSUME NEW p \in Rows(W \cup {{u}}, t) PROVE p \in Rows(W, t) \cup {new}
    <3>1. PICK f \in W \cup {{u}} : \E v \in Uploads : p = <<f, v>>
      BY DEF Rows
    <3>2. PICK v \in Uploads : p = <<f, v>>
      BY <3>1
    <3>3. v \in f /\ TableOf[v] = t
      BY <3>2 DEF Rows
    <3>4. CASE f = {u}
      BY <3>2, <3>3, <3>4
    <3>5. CASE f \in W
      BY <3>2, <3>3, <3>5 DEF Rows
    <3> QED BY <3>1, <3>4, <3>5
  <2> QED BY <2>1, <2>2
<1>3. IsFiniteSet(Rows(W, t))
    BY RowsFinite
<1> HIDE DEF new
<1> QED BY <1>1, <1>2, <1>3, FS_AddElement

LEMMA DueFinite ==
    /\ \A t : IsFiniteSet(Due(t)) /\ Cardinality(Due(t)) \in Nat
    /\ \A t : IsFiniteSet(Due(t)') /\ Cardinality(Due(t)') \in Nat
<1>1. \A t : Due(t) \subseteq Uploads /\ Due(t)' \subseteq Uploads
    BY DEF Due
<1> QED BY <1>1, FS_Subset, FS_CardinalityType

LEMMA DueOwed == \A t : Due(t) = {u \in Uploads : TableOf[u] = t /\ \E h \in Handlers : Owes(h, u)}
    BY DEF Due, Owes

LEMMA DueOwedNext ==
    \A t : Due(t)' = {u \in Uploads : TableOf[u] = t /\ \E h \in Handlers : Owes(h, u)'}
    BY DEF Due, Owes

(* A table of which neither files nor what is owed changed has its count still. *)
LEMMA CountFrame ==
    ASSUME NEW t, Counted(t), total'[t] = total[t],
           \A h \in Handlers : \A u \in Uploads :
               TableOf[u] = t => (Owes(h, u)' <=> Owes(h, u)),
           \A f : f \in whole \ whole' \/ f \in whole' \ whole =>
               \A u \in f \cap Uploads : TableOf[u] # t,
           cpc' \in {"idle", "list", "merge", "rename"} \/ table' # t =>
               cpc \in {"idle", "list", "merge", "rename"} \/ table # t,
           cpc' = "recount" /\ table' = t => cpc = "recount" /\ table = t /\ scan' = scan
    PROVE  Counted(t)'
<1>1. Due(t)' = Due(t)
    BY DueOwed, DueOwedNext
<1>2. RowCount(t)' = RowCount(t)
    BY RowsSame, RowsCounted, RowsCountedNext
<1> QED BY <1>1, <1>2 DEF Counted

(* Two requests for one upload stay noted as long as no request gets an upload. *)
LEMMA AloneFrame ==
    ASSUME AloneInv, skewed \subseteq skewed',
           \A g \in Handlers : req'[g].up \in {NoUpload, req[g].up},
           \A g \in Handlers : req'[g].up # NoUpload =>
               /\ req'[g].pc \in {"tomb", "create"} /\ {req[g].up} \in Files' =>
                      \/ TableOf[req[g].up] \in skewed'
                      \/ req[g].pc \in {"tomb", "create"} /\ {req[g].up} \in Files
               /\ req'[g].pc \in {"write", "detached"} /\ {req[g].up} \in whole' =>
                      \/ TableOf[req[g].up] \in skewed'
                      \/ req[g].pc \in {"write", "detached"} /\ {req[g].up} \in whole,
           \A g \in Handlers : req'[g].up = NoUpload =>
               req'[g].pc \notin {"tomb", "create", "write", "detached"}
    PROVE  AloneInv'
<1>1. \A g, h \in Handlers :
          g # h /\ req'[g].up = req'[h].up /\ req'[g].up # NoUpload =>
              TableOf[req'[g].up] \in skewed'
    BY DEF AloneInv
<1>2. ASSUME NEW g \in Handlers, req'[g].pc \in {"tomb", "create"}, {req'[g].up} \in Files'
      PROVE  TableOf[req'[g].up] \in skewed'
    BY <1>2 DEF AloneInv
<1>3. ASSUME NEW g \in Handlers, req'[g].pc \in {"write", "detached"}, {req'[g].up} \in whole'
      PROVE  TableOf[req'[g].up] \in skewed'
    BY <1>3 DEF AloneInv
<1> QED BY <1>1, <1>2, <1>3 DEF AloneInv

(* Sending an upload again notes its table. *)
LEMMA CountSend ==
    ASSUME IInv, CountInv, NEW h \in Handlers, NEW u \in Uploads, Send(h, u)
    PROVE  CountInv'
<1> USE DEF IInv, TypeOK
<1>1. /\ req' = [req EXCEPT ![h] = [pc |-> "check", up |-> u, live |-> TRUE]]
      /\ req[h].pc = "idle" /\ UNCHANGED <<diskVars, total, compactVars>>
      /\ skewed \subseteq skewed'
      /\ \A g \in Handlers : req[g].up = u => TableOf[u] \in skewed'
    BY DEF Send, Serving
<1>2. /\ \A g \in Handlers : g # h => req'[g] = req[g]
      /\ req'[h].pc = "check" /\ req'[h].up = u
    BY <1>1
<1>3. Files' = Files /\ whole' = whole
    BY <1>1 DEF diskVars, Files
<1>4. AloneInv'
  <2>1. \A f, g \in Handlers :
            f # g /\ req'[f].up = req'[g].up /\ req'[f].up # NoUpload =>
                TableOf[req'[f].up] \in skewed'
    BY <1>1, <1>2 DEF CountInv, AloneInv
  <2> QED BY <1>1, <1>2, <1>3, <2>1 DEF CountInv, AloneInv, Serving
<1>5. \A t \in Tables \ skewed' : Counted(t)'
  <2>1. \A g \in Handlers : \A v \in Uploads : Owes(g, v)' <=> Owes(g, v)
    BY <1>1, <1>2, <1>3 DEF Owes, Serving
  <2> QED BY <1>1, <1>3, <2>1, CountFrame DEF CountInv, diskVars, compactVars
<1> QED BY <1>4, <1>5 DEF CountInv

(* The steps of a request that touch neither files nor the count: only one that owes
   can stop owing, and that notes the table. *)
LEMMA CountQuiet ==
    ASSUME IInv, CountInv, NEW h \in Handlers,
           \/ GiveUp(h) \/ Cancel(h) \/ Check(h) \/ TombSkip(h) \/ TombPass(h)
           \/ CreateFails(h) \/ WriteDetached(h) \/ ReadStats(h) \/ Respond(h)
    PROVE  CountInv'
<1> USE DEF IInv, TypeOK
<1>1. /\ UNCHANGED <<diskVars, total, compactVars>> /\ skewed \subseteq skewed'
      /\ whole' = whole /\ Files' = Files
    BY DEF GiveUp, Cancel, Check, TombSkip, TombPass, CreateFails, WriteDetached, ReadStats,
           Respond, history, diskVars, Files
<1>2. /\ \A g \in Handlers : g # h => req'[g] = req[g]
      /\ \/ req'[h].up = req[h].up /\ req[h].up # NoUpload
         \/ req'[h].up = NoUpload /\ req'[h].pc = "idle"
    BY DEF GiveUp, Cancel, Check, TombSkip, TombPass, CreateFails, WriteDetached, ReadStats,
           Respond, Idle, Serving, Goto, Request
<1>3. /\ req'[h].pc \in {"tomb", "create"} /\ {req[h].up} \in Files =>
             req[h].pc \in {"tomb", "create"}
      /\ req'[h].pc \in {"write", "detached"} => req'[h].pc = req[h].pc
    BY DEF GiveUp, Cancel, Check, TombSkip, TombPass, CreateFails, WriteDetached, ReadStats,
           Respond, Idle, Serving, Goto, Request
<1>4. AloneInv'
  <2>1. \A g \in Handlers : req'[g].up \in {NoUpload, req[g].up}
    BY <1>2
  <2>2. \A g \in Handlers : req'[g].up = NoUpload =>
            req'[g].pc \notin {"tomb", "create", "write", "detached"}
    BY <1>2 DEF Serving
  <2>3. \A g \in Handlers :
          /\ req'[g].pc \in {"tomb", "create"} /\ {req[g].up} \in Files' =>
                 req[g].pc \in {"tomb", "create"} /\ {req[g].up} \in Files
          /\ req'[g].pc \in {"write", "detached"} /\ {req[g].up} \in whole' =>
                 req[g].pc \in {"write", "detached"} /\ {req[g].up} \in whole
    BY <1>1, <1>2, <1>3
  <2> QED BY <1>1, <2>1, <2>2, <2>3, AloneFrame DEF CountInv
<1>5. ASSUME NEW t \in Tables \ skewed' PROVE Counted(t)'
  <2>1. ASSUME NEW u \in Uploads, TableOf[u] = t PROVE Owes(h, u)' <=> Owes(h, u)
    <3>0. ASSUME WriteDetached(h) \/ ReadStats(h)
          PROVE  req'[h].up = req[h].up /\ req'[h].pc =
                   IF ReadStats(h) /\ {req[h].up} \in whole THEN "update"
                   ELSE IF ReadStats(h) THEN "ok" ELSE "stats"
      BY <3>0 DEF WriteDetached, ReadStats, Serving, Goto, Request
    <3>1. CASE GiveUp(h)
      BY <1>1, <3>1 DEF GiveUp, Owes, Serving
    <3>2. CASE Cancel(h)
      BY <1>1, <2>1, <3>2 DEF Cancel, Owes, Serving, Idle
    <3>3. CASE Check(h) \/ TombSkip(h) \/ TombPass(h) \/ CreateFails(h)
      BY <1>1, <3>3 DEF Check, TombSkip, TombPass, CreateFails, Owes, Serving, Goto, Request
    <3>4. CASE WriteDetached(h)
      <4>1. req[h].pc = "detached" /\ ~ReadStats(h)
        BY <3>4 DEF WriteDetached, ReadStats, Serving
      <4>2. req[h].up = u => {u} \notin whole
        BY <1>1, <2>1, <4>1 DEF CountInv, AloneInv
      <4> HIDE DEF IInv, TypeOK
      <4> QED BY <1>1, <3>0, <3>4, <4>1, <4>2 DEF Owes, Serving
    <3>5. CASE ReadStats(h)
      <4>1. req[h].pc = "stats"
        BY <3>5 DEF ReadStats, Serving
      <4> HIDE DEF IInv, TypeOK
      <4> QED BY <1>1, <3>0, <3>5, <4>1 DEF Owes, Serving
    <3>6. CASE Respond(h)
      BY <1>1, <3>6 DEF Respond, Owes, Serving, Idle
    <3> QED BY <3>1, <3>2, <3>3, <3>4, <3>5, <3>6
  <2>2. ASSUME NEW g \in Handlers, NEW u \in Uploads, TableOf[u] = t
        PROVE  Owes(g, u)' <=> Owes(g, u)
    BY <1>1, <1>2, <2>1, <2>2 DEF Owes, Serving
  <2>3. Counted(t)
    BY <1>1 DEF CountInv
  <2> QED BY <1>1, <2>2, <2>3, CountFrame DEF compactVars
<1> QED BY <1>4, <1>5 DEF CountInv

(* What is created was not there, or its table is noted. *)
LEMMA CountCreate ==
    ASSUME IInv, CountInv, NEW h \in Handlers, Create(h)
    PROVE  CountInv'
<1> USE DEF IInv, TypeOK
<1> DEFINE u == req[h].up
<1>1. /\ req' = [req EXCEPT ![h].pc = "write"] /\ req[h].pc = "create"
      /\ UNCHANGED <<total, compactVars, skewed>>
      /\ whole' = whole \ {{u}} /\ torn' = torn \cup {{u}} /\ u \in Uploads
    BY DEF Create, Serving, Goto, Request
<1>2. /\ \A g \in Handlers : g # h => req'[g] = req[g]
      /\ req'[h].pc = "write" /\ req'[h].up = u
    BY <1>1
<1>3. \A v : v # u => /\ {v} \in Files' <=> {v} \in Files
                      /\ {v} \in whole' <=> {v} \in whole
    BY <1>1, Singletons DEF Files
<1>4. {u} \in whole => TableOf[u] \in skewed
    BY <1>1 DEF CountInv, AloneInv, Files
<1>5. AloneInv'
  <2>1. \A f, g \in Handlers :
            f # g /\ req'[f].up = req'[g].up /\ req'[f].up # NoUpload =>
                TableOf[req'[f].up] \in skewed'
    BY <1>1, <1>2 DEF CountInv, AloneInv
  <2>2. ASSUME NEW g \in Handlers, g # h
        PROVE  /\ req'[g].pc \in {"tomb", "create"} /\ {req'[g].up} \in Files' =>
                      TableOf[req'[g].up] \in skewed'
               /\ req'[g].pc \in {"write", "detached"} /\ {req'[g].up} \in whole' =>
                      TableOf[req'[g].up] \in skewed'
    <3>1. CASE req[g].up = u
      BY <1>1, <1>2, <2>2, <3>1 DEF CountInv, AloneInv
    <3>2. CASE req[g].up # u
      BY <1>1, <1>2, <1>3, <2>2, <3>2 DEF CountInv, AloneInv
    <3> QED BY <3>1, <3>2
  <2>3. {u} \notin whole'
    BY <1>1
  <2> QED BY <1>2, <2>1, <2>2, <2>3 DEF AloneInv, Serving
<1>6. ASSUME NEW t \in Tables \ skewed' PROVE Counted(t)'
  <2>1. ASSUME NEW v \in Uploads, TableOf[v] = t PROVE {v} \in whole' <=> {v} \in whole
    <3>1. v = u => {v} \notin whole
      BY <1>1, <1>4, <2>1
    <3>2. {u} \notin whole'
      BY <1>1
    <3> QED BY <1>3, <3>1, <3>2
  <2>2. ASSUME NEW g \in Handlers, NEW v \in Uploads, TableOf[v] = t
        PROVE  Owes(g, v)' <=> Owes(g, v)
    BY <1>1, <1>2, <2>1, <2>2 DEF Owes, Serving
  <2>3. \A f : f \in whole \ whole' \/ f \in whole' \ whole =>
            \A v \in f \cap Uploads : TableOf[v] # t
    <3>1. \A f : f \in whole \ whole' \/ f \in whole' \ whole => f = {u} /\ f \in whole
      BY <1>1
    <3>2. {u} \in whole => TableOf[u] # t
      BY <1>1, <1>4
    <3> HIDE DEF IInv, TypeOK, u
    <3> QED BY <3>1, <3>2
  <2>4. Counted(t)
    BY <1>1 DEF CountInv
  <2> QED BY <1>1, <2>2, <2>3, <2>4, CountFrame DEF compactVars
<1> QED BY <1>5, <1>6 DEF CountInv

(* Writing a file adds its row to the files and its upload to what is owed. *)
LEMMA CountWrite ==
    ASSUME IInv, CountInv, NEW h \in Handlers, Write(h) \/ WriteFails(h)
    PROVE  CountInv'
<1> USE DEF IInv, TypeOK
<1>0. PICK u \in Uploads : u = req[h].up
    BY DEF Write, WriteFails, Serving, Request
<1>1. /\ req[h].pc = "write" /\ req[h].up = u
      /\ UNCHANGED <<total, compactVars>> /\ skewed \subseteq skewed'
      /\ \A g \in Handlers : g # h => req'[g] = req[g]
      /\ req'[h].pc \in {"stats", "err"} /\ req'[h].up = u
    BY <1>0 DEF Write, WriteFails, Serving, Goto, Request, history
<1>2. /\ \/ whole' = whole /\ torn' = torn
         \/ whole' = whole \cup {{u}} /\ torn' = torn \ {{u}}
      /\ Write(h) => whole' = whole \cup {{u}} /\ req'[h].pc = "stats"
      /\ WriteFails(h) => TableOf[u] \in skewed' /\ req'[h].pc = "err"
    BY <1>1 DEF Write, WriteFails, diskVars, Goto, Request
<1>3. \A v : v # u => /\ {v} \in Files' <=> {v} \in Files
                      /\ {v} \in whole' <=> {v} \in whole
    BY <1>2, Singletons DEF Files
<1>4. AloneInv'
  <2>1. \A f, g \in Handlers :
            f # g /\ req'[f].up = req'[g].up /\ req'[f].up # NoUpload =>
                TableOf[req'[f].up] \in skewed'
    BY <1>1 DEF CountInv, AloneInv
  <2>2. ASSUME NEW g \in Handlers, g # h
        PROVE  /\ req'[g].pc \in {"tomb", "create"} /\ {req'[g].up} \in Files' =>
                      TableOf[req'[g].up] \in skewed'
               /\ req'[g].pc \in {"write", "detached"} /\ {req'[g].up} \in whole' =>
                      TableOf[req'[g].up] \in skewed'
    <3>1. CASE req[g].up = u
      BY <1>1, <2>2, <3>1 DEF CountInv, AloneInv
    <3>2. CASE req[g].up # u
      <4>1. req'[g] = req[g] /\ ({req[g].up} \in Files' <=> {req[g].up} \in Files)
        BY <1>1, <1>3, <2>2, <3>2
      <4>2. {req[g].up} \in whole' <=> {req[g].up} \in whole
        BY <1>3, <3>2
      <4> HIDE DEF IInv, TypeOK
      <4> QED BY <1>1, <4>1, <4>2 DEF CountInv, AloneInv
    <3> QED BY <3>1, <3>2
  <2> QED BY <1>1, <2>1, <2>2 DEF AloneInv, Serving
<1>5. ASSUME NEW t \in Tables \ skewed', t # TableOf[u] PROVE Counted(t)'
  <2>1. ASSUME NEW g \in Handlers, NEW v \in Uploads, TableOf[v] = t
        PROVE  Owes(g, v)' <=> Owes(g, v)
    BY <1>1, <1>3, <1>5, <2>1 DEF Owes, Serving
  <2>2. \A f : f \in whole \ whole' \/ f \in whole' \ whole =>
            \A v \in f \cap Uploads : TableOf[v] # t
    BY <1>2, <1>5
  <2>3. Counted(t)
    BY <1>1 DEF CountInv
  <2> QED BY <1>1, <2>1, <2>2, <2>3, CountFrame DEF compactVars
<1>6. ASSUME NEW t \in Tables \ skewed', t = TableOf[u] PROVE Counted(t)'
  <2>1. /\ Write(h) /\ {u} \notin whole
        /\ whole' = whole \cup {{u}}
        /\ \A g \in Handlers : g # h => req[g].up # u
    BY <1>1, <1>2, <1>6 DEF CountInv, AloneInv, Serving
  <2>2. u \notin Due(t)
    BY <1>1, <2>1 DEF DueOwed, Owes, Due, Serving
  <2>3. Due(t)' = Due(t) \cup {u}
    <3>1. \A g \in Handlers : \A v \in Uploads : v # u => (Owes(g, v)' <=> Owes(g, v))
      BY <1>1, <1>3 DEF Owes, Serving
    <3>2. Owes(h, u)'
      BY <1>1, <1>2, <2>1 DEF Owes, Serving
    <3>3. ASSUME NEW v \in Uploads, v # u PROVE v \in Due(t)' <=> v \in Due(t)
      BY <3>1, <3>3, DueOwed, DueOwedNext
    <3>4. u \in Due(t)'
      BY <1>6, <3>2, DueOwedNext
    <3>5. Due(t) \subseteq Uploads /\ Due(t)' \subseteq Uploads
      BY DueOwed, DueOwedNext
    <3> HIDE DEF IInv, TypeOK
    <3> QED BY <3>3, <3>4, <3>5
  <2>4. Cardinality(Due(t)') = Cardinality(Due(t)) + 1
    BY <2>2, <2>3, DueFinite, FS_AddElement
  <2>5. RowCount(t)' = RowCount(t) + 1
    <3>1. Cardinality(Rows(whole \cup {{u}}, t)) = Cardinality(Rows(whole, t)) + 1
      BY <1>6, <2>1, RowsGrow
    <3> QED BY <2>1, <3>1, RowsCounted, RowsCountedNext
  <2>6. Counted(t)
    BY <1>1, <1>6 DEF CountInv
  <2>7. /\ UNCHANGED <<total, cpc, table, scan>>
        /\ Cardinality(Due(t)) \in Nat /\ RowCount(t) \in Nat /\ total[t] \in Nat /\ scan \in Nat
    BY <1>1, <2>6, DueFinite, RowCountNat DEF compactVars
  <2> HIDE DEF IInv, TypeOK
  <2> QED BY <2>4, <2>5, <2>6, <2>7 DEF Counted
<1>7. \A t \in Tables \ skewed' : Counted(t)'
  <2> HIDE DEF IInv, TypeOK
  <2> QED BY <1>5, <1>6
<1> QED BY <1>4, <1>7 DEF CountInv

(* What is added to the count is no longer owed. *)
LEMMA CountUpdate ==
    ASSUME IInv, CountInv, NEW h \in Handlers, UpdateStats(h)
    PROVE  CountInv'
<1> USE DEF IInv, TypeOK
<1>0. PICK u \in Uploads : u = req[h].up
    BY DEF UpdateStats, Serving, Request
<1>1. /\ req[h].pc = "update" /\ req[h].up = u
      /\ UNCHANGED <<diskVars, compactVars>> /\ skewed \subseteq skewed'
      /\ \A g \in Handlers : g # h => req'[g] = req[g]
      /\ req'[h].pc = "ok" /\ req'[h].up = u
      /\ whole' = whole /\ Files' = Files
    BY <1>0 DEF UpdateStats, Serving, Goto, Request, diskVars, Files
<1>2. /\ \A t \in Tables : t # TableOf[u] => total'[t] = total[t]
      /\ TableOf[u] \in Tables
      /\ TableOf[u] \notin skewed' =>
             total'[TableOf[u]] = total[TableOf[u]] + 1 /\ ~(cpc = "recount" /\ table = TableOf[u])
    BY <1>1 DEF UpdateStats, Fault
<1>3. AloneInv'
  <2>1. \A g \in Handlers : req'[g].up \in {NoUpload, req[g].up}
    BY <1>1
  <2>2. \A g \in Handlers : req'[g].up = NoUpload =>
            req'[g].pc \notin {"tomb", "create", "write", "detached"}
    BY <1>1 DEF Serving
  <2>3. \A g \in Handlers :
          /\ req'[g].pc \in {"tomb", "create"} /\ {req[g].up} \in Files' =>
                 req[g].pc \in {"tomb", "create"} /\ {req[g].up} \in Files
          /\ req'[g].pc \in {"write", "detached"} /\ {req[g].up} \in whole' =>
                 req[g].pc \in {"write", "detached"} /\ {req[g].up} \in whole
    BY <1>1
  <2> QED BY <1>1, <2>1, <2>2, <2>3, AloneFrame DEF CountInv
<1>4. ASSUME NEW t \in Tables \ skewed', t # TableOf[u] PROVE Counted(t)'
  <2>1. ASSUME NEW g \in Handlers, NEW v \in Uploads, TableOf[v] = t
        PROVE  Owes(g, v)' <=> Owes(g, v)
    BY <1>1, <1>4, <2>1 DEF Owes, Serving
  <2>2. Counted(t)
    BY <1>1 DEF CountInv
  <2> QED BY <1>1, <1>2, <1>4, <2>1, <2>2, CountFrame DEF compactVars
<1>5. ASSUME NEW t \in Tables \ skewed', t = TableOf[u] PROVE Counted(t)'
  <2>1. \A g \in Handlers : g # h => req[g].up # u
    BY <1>1, <1>5 DEF CountInv, AloneInv, Serving
  <2>2. Owes(h, u) /\ \A g \in Handlers : ~Owes(g, u)'
    BY <1>1, <2>1 DEF Owes, Serving
  <2>3. u \in Due(t) /\ Due(t)' = Due(t) \ {u}
    <3>1. \A g \in Handlers : \A v \in Uploads : v # u => (Owes(g, v)' <=> Owes(g, v))
      BY <1>1 DEF Owes, Serving
    <3>2. ASSUME NEW v \in Uploads, v # u PROVE v \in Due(t)' <=> v \in Due(t)
      BY <3>1, <3>2, DueOwed, DueOwedNext
    <3>3. u \in Due(t) /\ u \notin Due(t)'
      BY <1>5, <2>2, DueOwed, DueOwedNext
    <3>4. Due(t) \subseteq Uploads /\ Due(t)' \subseteq Uploads
      BY DueOwed, DueOwedNext
    <3> HIDE DEF IInv, TypeOK
    <3> QED BY <3>2, <3>3, <3>4
  <2>4. Cardinality(Due(t)') = Cardinality(Due(t)) - 1
    BY <2>3, DueFinite, FS_RemoveElement
  <2>5. RowCount(t)' = RowCount(t)
    BY <1>1, RowsCounted, RowsCountedNext
  <2>6. Counted(t)
    BY <1>1, <1>2, <1>5 DEF CountInv
  <2>7. /\ UNCHANGED <<cpc, table, scan>> /\ total'[t] = total[t] + 1
        /\ ~(cpc = "recount" /\ table = t)
        /\ Cardinality(Due(t)) \in Nat /\ RowCount(t) \in Nat /\ total[t] \in Nat
    BY <1>1, <1>2, <1>5, <2>6, DueFinite, RowCountNat DEF compactVars
  <2> HIDE DEF IInv, TypeOK
  <2> QED BY <2>4, <2>5, <2>6, <2>7 DEF Counted
<1>6. \A t \in Tables \ skewed' : Counted(t)'
  <2> HIDE DEF IInv, TypeOK
  <2> QED BY <1>4, <1>5
<1> QED BY <1>3, <1>6 DEF CountInv

(* The compaction task, but for its swap: the table it recounts is the only one whose
   count changes, and it takes the one the files have. *)
LEMMA CountCompact ==
    ASSUME IInv, CountInv,
           \/ \E old \in SUBSET tombs : CycleStart(old)
           \/ \E t \in Tables : List(t)
           \/ CycleDone \/ Merge \/ MergeFails
           \/ \E us \in SUBSET inputs : Mark(us)
    PROVE  CountInv'
<1> USE DEF IInv, TypeOK
<1>1. /\ UNCHANGED <<whole, torn, total, req, skewed, scan>>
      /\ cpc' # "recount"
      /\ cpc' \in {"idle", "list", "merge", "rename"} => cpc \in {"idle", "list", "merge", "rename"}
      /\ cpc \notin {"idle", "list", "merge", "rename"} => table' = table
    BY DEF CycleStart, List, CycleDone, Merge, MergeFails, Mark, diskVars, history
<1>2. AloneInv'
    BY <1>1 DEF CountInv, AloneInv, Files, Serving
<1>3. ASSUME NEW t \in Tables \ skewed' PROVE Counted(t)'
  <2>1. \A h \in Handlers : \A u \in Uploads : Owes(h, u)' <=> Owes(h, u)
    BY <1>1 DEF Owes, Serving
  <2>2. Counted(t)
    BY <1>1 DEF CountInv
  <2>3. cpc' \in {"idle", "list", "merge", "rename"} \/ table' # t =>
            cpc \in {"idle", "list", "merge", "rename"} \/ table # t
    BY <1>1
  <2> HIDE DEF IInv, TypeOK
  <2> QED BY <1>1, <2>1, <2>2, <2>3, CountFrame
<1> QED BY <1>2, <1>3 DEF CountInv

(* The swap changes the rows of its own table only, of which nothing is said. *)
LEMMA CountSwap ==
    ASSUME IInv, CountInv, Rename \/ \E u \in left : Remove(u)
    PROVE  CountInv'
<1> USE DEF IInv, TypeOK
<1>1. /\ UNCHANGED <<total, skewed, scan, table>> /\ cpc' \in {"remove", "mark"}
    BY DEF Rename, Remove, diskVars, history
<1>2. ASSUME NEW u \in Uploads
      PROVE  /\ {u} \in whole' => {u} \in whole
             /\ {u} \in Files' => {u} \in Files
             /\ {u} \in whole /\ TableOf[u] # table => {u} \in whole'
  <2>1. CASE Rename
    <3>1. inputs # {u}
      BY <2>1 DEF Rename, SwapInv
    <3> QED BY <2>1, <3>1 DEF Rename, Files
  <2>2. ASSUME NEW v \in left, Remove(v)
        PROVE  /\ {u} \in whole' => {u} \in whole
               /\ {u} \in Files' => {u} \in Files
               /\ {u} \in whole /\ TableOf[u] # table => {u} \in whole'
    <3>1. TableOf[v] = table
      BY <2>2
    <3>2. \/ whole' = whole \ {{v}} /\ torn' = torn \ {{v}}
          \/ whole' = whole /\ torn' = torn
      BY <2>2 DEF Remove, diskVars
    <3> HIDE DEF IInv, TypeOK
    <3> QED BY <3>1, <3>2, Singletons DEF Files
  <2> QED BY <2>1, <2>2
<1>3. ASSUME NEW h \in Handlers
      PROVE  /\ req'[h].up = req[h].up
             /\ \/ req'[h].pc = req[h].pc
                \/ /\ req[h].pc = "write" /\ req'[h].pc = "detached" /\ {req[h].up} \notin whole'
                   /\ TableOf[req[h].up] = table
  <2>1. CASE Rename
    BY <2>1 DEF Rename
  <2>2. ASSUME NEW v \in left, Remove(v)
        PROVE  /\ req'[h].up = req[h].up
               /\ \/ req'[h].pc = req[h].pc
                  \/ /\ req[h].pc = "write" /\ req'[h].pc = "detached" /\ {req[h].up} \notin whole'
                     /\ TableOf[req[h].up] = table
    BY <2>2 DEF Remove, Serving, Request
  <2> QED BY <2>1, <2>2
<1>4. AloneInv'
  <2>1. \A g \in Handlers : req'[g].up # NoUpload => req[g].up \in Uploads
    BY <1>3 DEF Request
  <2>2. \A g \in Handlers : req'[g].up = NoUpload =>
            req'[g].pc \notin {"tomb", "create", "write", "detached"}
    BY <1>3 DEF Serving, Request
  <2>3. ASSUME NEW g \in Handlers, req'[g].up # NoUpload
        PROVE
          /\ req'[g].pc \in {"tomb", "create"} /\ {req[g].up} \in Files' =>
                 req[g].pc \in {"tomb", "create"} /\ {req[g].up} \in Files
          /\ req'[g].pc \in {"write", "detached"} /\ {req[g].up} \in whole' =>
                 req[g].pc \in {"write", "detached"} /\ {req[g].up} \in whole
    <3> HIDE DEF IInv, TypeOK
    <3> QED BY <1>2, <1>3, <2>1, <2>3
  <2> HIDE DEF IInv, TypeOK
  <2> QED BY <1>1, <1>3, <2>2, <2>3, AloneFrame DEF CountInv
<1>5. ASSUME NEW t \in Tables \ skewed' PROVE Counted(t)'
  <2>1. CASE t = table
    BY <1>1, <2>1 DEF Counted
  <2>2. CASE t # table
    <3>1. ASSUME NEW h \in Handlers, NEW u \in Uploads, TableOf[u] = t
          PROVE  Owes(h, u)' <=> Owes(h, u)
      BY <1>2, <1>3, <2>2, <3>1 DEF Owes, Serving
    <3>2. ASSUME NEW f, f \in whole \ whole' \/ f \in whole' \ whole
          PROVE  \A u \in f \cap Uploads : TableOf[u] # t
      <4>1. CASE Rename
        BY <2>2, <3>2, <4>1 DEF Rename
      <4>2. ASSUME NEW v \in left, Remove(v) PROVE f = {v} /\ TableOf[v] = table
        BY <3>2, <4>2 DEF Remove, diskVars
      <4> QED BY <2>2, <4>1, <4>2
    <3>3. Counted(t)
      BY <1>1 DEF CountInv
    <3> HIDE DEF IInv, TypeOK
    <3> QED BY <1>1, <2>2, <3>1, <3>2, <3>3, CountFrame
  <2> QED BY <2>1, <2>2
<1> QED BY <1>4, <1>5 DEF CountInv

(* The scan counts what the files have; nothing is owed then, or the table is noted. *)
LEMMA CountScan ==
    ASSUME IInv, CountInv, Scan
    PROVE  CountInv'
<1> USE DEF IInv, TypeOK
<1>1. /\ UNCHANGED <<whole, torn, total, req, table>> /\ Files' = Files
      /\ cpc = "scan" /\ cpc' = "recount" /\ scan' = RowCount(table)
      /\ skewed \subseteq skewed'
      /\ \A h \in Handlers :
            req[h].pc \in {"stats", "update"} /\ TableOf[req[h].up] = table => table \in skewed'
    BY DEF Scan, diskVars, Files
<1>2. AloneInv'
    BY <1>1 DEF CountInv, AloneInv, Serving
<1>3. \A h \in Handlers : \A u \in Uploads : Owes(h, u)' <=> Owes(h, u)
    BY <1>1 DEF Owes, Serving
<1>4. ASSUME NEW t \in Tables \ skewed' PROVE Counted(t)'
  <2>1. CASE t = table
    <3>1. \A h \in Handlers : \A u \in Uploads : TableOf[u] = t => ~Owes(h, u)'
      BY <1>1, <1>3, <1>4, <2>1 DEF Owes, Serving
    <3>2. Due(t)' = {}
      BY <3>1, DueOwedNext
    <3>3. RowCount(t)' = RowCount(t) /\ RowCount(t) \in Nat /\ Cardinality(Due(t)') = 0
      BY <1>1, <3>2, RowCountNat, RowsCounted, RowsCountedNext, FS_EmptySet
    <3> HIDE DEF IInv, TypeOK
    <3> QED BY <1>1, <2>1, <3>3 DEF Counted
  <2>2. CASE t # table
    <3>1. Counted(t)
      BY <1>1 DEF CountInv
    <3> HIDE DEF IInv, TypeOK
    <3> QED BY <1>1, <1>3, <2>2, <3>1, CountFrame
  <2> QED BY <2>1, <2>2
<1> QED BY <1>2, <1>4 DEF CountInv

LEMMA CountRecount ==
    ASSUME IInv, CountInv, Recount
    PROVE  CountInv'
<1> USE DEF IInv, TypeOK
<1>1. /\ UNCHANGED <<whole, torn, req, table>> /\ Files' = Files
      /\ cpc = "recount" /\ cpc' = "list" /\ skewed \subseteq skewed'
      /\ table \notin skewed' => total'[table] = scan
      /\ \A t \in Tables : t # table => total'[t] = total[t]
    BY DEF Recount, diskVars, Files
<1>2. AloneInv'
    BY <1>1 DEF CountInv, AloneInv, Serving
<1>3. \A h \in Handlers : \A u \in Uploads : Owes(h, u)' <=> Owes(h, u)
    BY <1>1 DEF Owes, Serving
<1>4. ASSUME NEW t \in Tables \ skewed' PROVE Counted(t)'
  <2>1. Counted(t)
    BY <1>1 DEF CountInv
  <2>2. CASE t = table
    <3>1. Due(t)' = Due(t) /\ RowCount(t)' = RowCount(t)
      BY <1>1, <1>3, DueOwed, DueOwedNext, RowsCounted, RowsCountedNext
    <3>2. total'[t] = scan
      BY <1>1, <1>4, <2>2
    <3> HIDE DEF IInv, TypeOK
    <3> QED BY <1>1, <2>1, <2>2, <3>1, <3>2 DEF Counted
  <2>3. CASE t # table
    <3>1. total'[t] = total[t]
      BY <1>1, <2>3
    <3> HIDE DEF IInv, TypeOK
    <3> QED BY <1>1, <1>3, <2>1, <2>3, <3>1, CountFrame
  <2> QED BY <2>2, <2>3
<1> QED BY <1>2, <1>4 DEF CountInv

(* A restart forgets what is owed, which it notes. *)
LEMMA CountDown ==
    ASSUME IInv, CountInv, NEW cut \in SUBSET unsynced, Down(cut)
    PROVE  CountInv'
<1> USE DEF IInv, TypeOK
<1>1. /\ req' = [h \in Handlers |-> Idle] /\ UNCHANGED <<total, table>> /\ cpc' = "idle"
      /\ whole' = whole \ cut /\ cut \subseteq whole /\ skewed \subseteq skewed'
      /\ cpc \in {"remove", "mark", "scan", "recount"} => table \in skewed'
    BY DEF Down
<1>2. \A h \in Handlers : req[h].pc \in {"stats", "update"} => TableOf[req[h].up] \in skewed'
    BY DEF Down
<1>3. \A f \in cut : \A u \in f : TableOf[u] \in skewed'
    BY DEF Down
<1>4. AloneInv'
    BY <1>1 DEF AloneInv, Idle, Serving
<1>5. ASSUME NEW t \in Tables \ skewed' PROVE Counted(t)'
  <2>1. ASSUME NEW h \in Handlers, NEW u \in Uploads, TableOf[u] = t
        PROVE  ~Owes(h, u)' /\ ~Owes(h, u)
    BY <1>1, <1>2, <2>1 DEF Owes, Serving, Idle
  <2>2. ASSUME NEW f, f \in whole \ whole' \/ f \in whole' \ whole
        PROVE  \A u \in f \cap Uploads : TableOf[u] # t
    BY <1>1, <1>3, <2>2
  <2>3. Counted(t)
    BY <1>1 DEF CountInv
  <2>4. cpc \in {"idle", "list", "merge", "rename"} \/ table # t
    BY <1>1
  <2> HIDE DEF IInv, TypeOK
  <2> QED BY <1>1, <2>1, <2>2, <2>3, <2>4, CountFrame
<1> QED BY <1>4, <1>5 DEF CountInv

(* Nothing is owed and nothing counted at first. *)
LEMMA InitCountInv == Init => CountInv
<1> SUFFICES ASSUME Init PROVE CountInv
    OBVIOUS
<1>1. AloneInv
    BY DEF Init, AloneInv, Idle, Serving
<1>2. ASSUME NEW t \in Tables PROVE Counted(t)
  <2>1. Due(t) = {}
    BY DEF Init, Due, Idle, Serving
  <2>2. RowCount(t) = 0
    <3>1. Rows(whole, t) = {}
      BY DEF Init, Rows
    <3> QED BY <3>1, RowsCounted, FS_EmptySet
  <2>3. Cardinality(Due(t)) = 0 /\ total[t] = 0 /\ cpc = "idle"
    BY <2>1, FS_EmptySet DEF Init
  <2> QED BY <2>2, <2>3 DEF Counted
<1> QED BY <1>1, <1>2 DEF CountInv

LEMMA StepCountInv ==
    ASSUME IInv, CountInv, [Next]_vars
    PROVE  CountInv'
<1>1. ASSUME NEW h \in Handlers,
             (\E u \in Uploads : Send(h, u)) \/ GiveUp(h) \/ Cancel(h) \/ Handle(h)
      PROVE  CountInv'
    BY <1>1, CountSend, CountQuiet, CountCreate, CountWrite, CountUpdate DEF Handle
<1>2. CASE Compact
    BY <1>2, CountCompact, CountSwap, CountScan, CountRecount DEF Compact
<1>3. CASE \E cut \in SUBSET unsynced : Down(cut)
    BY <1>3, CountDown
<1>4. CASE UNCHANGED vars
  <2>1. \A t : Due(t)' = Due(t) /\ RowCount(t)' = RowCount(t)
    BY <1>4 DEF vars, Due, RowCount, Serving
  <2> QED BY <1>4, <2>1 DEF vars, CountInv, AloneInv, Counted, Files, Serving
<1> QED BY <1>1, <1>2, <1>3, <1>4 DEF Next

(* When nobody is at work on a table nothing of it is owed. *)
LEMMA QuietCount == IInv /\ CountInv => CountNeedsCause
<1> SUFFICES ASSUME IInv, CountInv, NEW t \in Tables \ skewed, Quiet(t)
             PROVE  total[t] = RowCount(t)
    BY DEF CountNeedsCause
<1>1. Due(t) = {}
    BY DEF Due, Quiet
<1>2. Cardinality(Due(t)) = 0 /\ total[t] \in Nat
    BY <1>1, FS_EmptySet DEF IInv, TypeOK
<1>3. total[t] + Cardinality(Due(t)) = RowCount(t)
    BY DEF CountInv, Counted, Quiet
<1> QED BY <1>2, <1>3

(* A table's count and the rows of its files differ by what handlers have yet to add,
   from the renaming of a compacted file on by what the recount will make good. *)
THEOREM CountsKept == Spec => []CountInv
    BY InitCountInv, StepCountInv, StoreInvariant, PTL DEF Spec

(* The row count of a table nobody works on is wrong only if a restart, an error, a
   dropped request or a recount that overlapped an upload is to blame. *)
THEOREM CountHasCause == Spec => []CountNeedsCause
    BY QuietCount, StoreInvariant, CountsKept, PTL
=============================================================================
