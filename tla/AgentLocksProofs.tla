------------------------- MODULE AgentLocksProofs --------------------------
(***************************************************************************)
(* The locking of AgentLocks, for any number of handlers and readers.       *)
(*                                                                         *)
(* LocksInv ties each mutex to the places in the code where it is held and  *)
(* the main task's stopping to the scheduler's; it is inductive, and who    *)
(* can wait for whom follows from it alone.                                 *)
(***************************************************************************)
EXTENDS AgentLocks, TLAPS

(* A step moves one task, and no mutex is taken from another task. *)
LEMMA Moves ==
    ASSUME LocksInv, NEW t \in Tasks, NEW from, NEW to, Go(t, from, to),
           to \in Places(t),
           wal' \in {wal, t, Free}, wal' = wal \/ wal \in {t, Free},
           buffer' \in {buffer, t, Free}, buffer' = buffer \/ buffer \in {t, Free},
           HoldsWal(t)' <=> wal' = t,
           HoldsBuffer(t)' <=> buffer' = t,
           UNCHANGED stop \/ (t # Scheduler /\ Missed(t)),
           t = Main => to \in {"idle", "accepted"} \/ Stopping \/ Main \in told,
           to = "gone" => t # Scheduler \/ t \in told
    PROVE  LocksInv'
<1> USE DEF LocksInv
<1>1. /\ DOMAIN at' = Tasks
      /\ at'[t] = to
      /\ \A u \in Tasks : u # t => at'[u] = at[u]
    BY DEF TypeOK, Go
<1>2. ASSUME NEW u \in Tasks PROVE at'[u] \in Places(u)
    BY <1>1 DEF LocksInv, TypeOK
<1>3. /\ wal' \in Tasks \cup {Free} /\ buffer' \in Tasks \cup {Free}
      /\ signalled' = signalled /\ signalled \in BOOLEAN
      /\ told' \subseteq told /\ told \subseteq Tasks
      /\ Scheduler \in told => Scheduler \in told'
    BY DEF TypeOK, stop, Missed
<1>4. ASSUME NEW u \in Tasks
      PROVE  (HoldsWal(u)' <=> wal' = u) /\ (HoldsBuffer(u)' <=> buffer' = u)
    <2>1. CASE u = t
        BY <2>1
    <2>2. CASE u # t
        <3>1. (HoldsWal(u)' <=> HoldsWal(u)) /\ (HoldsBuffer(u)' <=> HoldsBuffer(u))
            BY <1>1, <2>2 DEF HoldsWal, HoldsBuffer
        <3>2. (HoldsWal(u) <=> wal = u) /\ (HoldsBuffer(u) <=> buffer = u)
            BY DEF TypeOK
        <3>3. u # Free
            BY LocksAssumption
        <3> QED
            BY <2>2, <3>1, <3>2, <3>3
    <2> QED
        BY <2>1, <2>2
<1>5. TypeOK'
    BY <1>1, <1>2, <1>3, <1>4 DEF TypeOK
<1>6. Main \in Tasks /\ Scheduler \in Tasks
    BY DEF Tasks
<1>7. Main \in told' \/ Stopping' => Scheduler \in told'
    BY <1>1, <1>3, <1>6 DEF ToldTogether, Stopping
<1>8. at'[Scheduler] = "gone" => Scheduler \in told'
    BY <1>1, <1>3, <1>6 DEF ToldTogether
<1> QED
    BY <1>3, <1>5, <1>7, <1>8 DEF ToldTogether

(* The steps of a write keep the ownership of the mutexes. *)
LEMMA WriterStep ==
    ASSUME LocksInv, NEW t \in Writers, Write(t)
    PROVE  LocksInv'
<1>1. /\ t \in Tasks /\ t # Free /\ t # Main /\ t # Scheduler
      /\ Places(t) = {"idle", "want wal", "flush", "want buffer", "apply", "gone"}
    BY LocksAssumption DEF Tasks, Places
<1>2. (HoldsWal(t) <=> wal = t) /\ (HoldsBuffer(t) <=> buffer = t) /\ at[t] \in Places(t)
    BY <1>1 DEF LocksInv, TypeOK
<1>3. ASSUME NEW from, NEW to, Go(t, from, to), to \in Places(t)
      PROVE  at[t] = from /\ at'[t] = to
    BY <1>1, <1>3 DEF Go, LocksInv, TypeOK
<1>4. CASE WriteBegin(t)
    <2>1. Go(t, "idle", "want wal") /\ UNCHANGED locks /\ Missed(t)
        BY <1>4 DEF WriteBegin
    <2>2. at[t] = "idle" /\ at'[t] = "want wal"
        BY <1>1, <1>3, <2>1
    <2> QED
        BY <1>1, <1>2, <2>1, <2>2, Moves DEF HoldsWal, HoldsBuffer, locks, stop
<1>5. CASE WriteFlush(t)
    <2>1. Go(t, "want wal", "flush") /\ wal = Free /\ wal' = t /\ UNCHANGED <<buffer, stop>>
        BY <1>5 DEF WriteFlush, LockWal
    <2>2. at[t] = "want wal" /\ at'[t] = "flush"
        BY <1>1, <1>3, <2>1
    <2> QED
        BY <1>1, <1>2, <2>1, <2>2, Moves DEF HoldsWal, HoldsBuffer, locks, stop
<1>6. CASE WriteFlushed(t)
    <2>1. PICK to \in {"want buffer", "idle"} :
             Go(t, "flush", to) /\ wal' = Free /\ UNCHANGED <<buffer, stop>>
        BY <1>6 DEF WriteFlushed
    <2>2. at[t] = "flush" /\ at'[t] = to
        BY <1>1, <1>3, <2>1
    <2> QED
        BY <1>1, <1>2, <2>1, <2>2, Moves DEF HoldsWal, HoldsBuffer, locks, stop
<1>7. CASE WriteApply(t)
    <2>1. Go(t, "want buffer", "apply") /\ buffer = Free /\ buffer' = t /\ UNCHANGED <<wal, stop>>
        BY <1>7 DEF WriteApply, LockBuffer
    <2>2. at[t] = "want buffer" /\ at'[t] = "apply"
        BY <1>1, <1>3, <2>1
    <2> QED
        BY <1>1, <1>2, <2>1, <2>2, Moves DEF HoldsWal, HoldsBuffer, locks, stop
<1>8. CASE WriteApplied(t)
    <2>1. Go(t, "apply", "idle") /\ buffer' = Free /\ UNCHANGED <<wal, stop>>
        BY <1>8 DEF WriteApplied
    <2>2. at[t] = "apply" /\ at'[t] = "idle"
        BY <1>1, <1>3, <2>1
    <2> QED
        BY <1>1, <1>2, <2>1, <2>2, Moves DEF HoldsWal, HoldsBuffer, locks, stop
<1> QED
    BY <1>4, <1>5, <1>6, <1>7, <1>8 DEF Write, WriteOn

(* The steps of a status, query or heartbeat task keep it. *)
LEMMA ReaderStep ==
    ASSUME LocksInv, NEW t \in Readers, Read(t)
    PROVE  LocksInv'
<1>1. /\ t \in Tasks /\ t # Free /\ t # Main /\ t # Scheduler
      /\ Places(t) = {"idle", "want buffer", "read", "want wal", "gone"}
    BY LocksAssumption DEF Tasks, Places
<1>2. (HoldsWal(t) <=> wal = t) /\ (HoldsBuffer(t) <=> buffer = t) /\ at[t] \in Places(t)
    BY <1>1 DEF LocksInv, TypeOK
<1>3. ASSUME NEW from, NEW to, Go(t, from, to), to \in Places(t)
      PROVE  at[t] = from /\ at'[t] = to
    BY <1>1, <1>3 DEF Go, LocksInv, TypeOK
<1>4. CASE ReadBegin(t)
    <2>1. Go(t, "idle", "want buffer") /\ UNCHANGED locks /\ Missed(t)
        BY <1>4 DEF ReadBegin
    <2>2. at[t] = "idle" /\ at'[t] = "want buffer"
        BY <1>1, <1>3, <2>1
    <2> QED
        BY <1>1, <1>2, <2>1, <2>2, Moves DEF HoldsWal, HoldsBuffer, locks, stop
<1>5. CASE ReadBuffer(t)
    <2>1. Go(t, "want buffer", "read") /\ buffer = Free /\ buffer' = t /\ UNCHANGED <<wal, stop>>
        BY <1>5 DEF ReadBuffer, LockBuffer
    <2>2. at[t] = "want buffer" /\ at'[t] = "read"
        BY <1>1, <1>3, <2>1
    <2> QED
        BY <1>1, <1>2, <2>1, <2>2, Moves DEF HoldsWal, HoldsBuffer, locks, stop
<1>6. CASE ReadDone(t)
    <2>1. PICK to \in {"want wal", "idle"} :
             Go(t, "read", to) /\ buffer' = Free /\ UNCHANGED <<wal, stop>>
        BY <1>6 DEF ReadDone
    <2>2. at[t] = "read" /\ at'[t] = to
        BY <1>1, <1>3, <2>1
    <2> QED
        BY <1>1, <1>2, <2>1, <2>2, Moves DEF HoldsWal, HoldsBuffer, locks, stop
<1>7. CASE ReadWal(t)
    <2>1. Go(t, "want wal", "idle") /\ UNCHANGED <<locks, stop>>
        BY <1>7 DEF ReadWal
    <2>2. at[t] = "want wal" /\ at'[t] = "idle"
        BY <1>1, <1>3, <2>1
    <2> QED
        BY <1>1, <1>2, <2>1, <2>2, Moves DEF HoldsWal, HoldsBuffer, locks, stop
<1> QED
    BY <1>4, <1>5, <1>6, <1>7 DEF Read, ReadOn

(* The steps of a handoff keep it. *)
LEMMA HandoffStep ==
    ASSUME LocksInv, NEW t, t = Scheduler, Handoff
    PROVE  LocksInv'
<1>1. /\ t \in Tasks /\ t # Free /\ t # Main
      /\ Places(t) = {"idle", "want buffer", "drain", "want seq", "meta", "want wal", "clean",
                   "gone"}
    BY LocksAssumption DEF Tasks, Places
<1>2. (HoldsWal(t) <=> wal = t) /\ (HoldsBuffer(t) <=> buffer = t) /\ at[t] \in Places(t)
    BY <1>1 DEF LocksInv, TypeOK
<1>3. ASSUME NEW from, NEW to, Go(t, from, to), to \in Places(t)
      PROVE  at[t] = from /\ at'[t] = to
    BY <1>1, <1>3 DEF Go, LocksInv, TypeOK
<1>4. CASE HandoffBegin
    <2>1. Go(t, "idle", "want buffer") /\ UNCHANGED <<locks, stop>>
        BY <1>4 DEF HandoffBegin
    <2>2. at[t] = "idle" /\ at'[t] = "want buffer"
        BY <1>1, <1>3, <2>1
    <2> QED
        BY <1>1, <1>2, <2>1, <2>2, Moves DEF HoldsWal, HoldsBuffer, locks, stop
<1>5. CASE HandoffDrain
    <2>1. Go(t, "want buffer", "drain") /\ buffer = Free /\ buffer' = t /\ UNCHANGED <<wal, stop>>
        BY <1>5 DEF HandoffDrain, LockBuffer
    <2>2. at[t] = "want buffer" /\ at'[t] = "drain"
        BY <1>1, <1>3, <2>1
    <2> QED
        BY <1>1, <1>2, <2>1, <2>2, Moves DEF HoldsWal, HoldsBuffer, locks, stop
<1>6. CASE HandoffDrained
    <2>1. Go(t, "drain", "meta") /\ buffer' = Free /\ UNCHANGED <<wal, stop>>
        BY <1>6 DEF HandoffDrained
    <2>2. at[t] = "drain" /\ at'[t] = "meta"
        BY <1>1, <1>3, <2>1
    <2> QED
        BY <1>1, <1>2, <2>1, <2>2, Moves DEF HoldsWal, HoldsBuffer, locks, stop
<1>7. CASE HandoffAsks
    <2>1. Go(t, "drain", "want seq") /\ UNCHANGED <<locks, stop>>
        BY <1>7 DEF HandoffAsks
    <2>2. at[t] = "drain" /\ at'[t] = "want seq"
        BY <1>1, <1>3, <2>1
    <2> QED
        BY <1>1, <1>2, <2>1, <2>2, Moves DEF HoldsWal, HoldsBuffer, locks, stop
<1>8. CASE HandoffSeq
    <2>1. Go(t, "want seq", "meta") /\ buffer' = Free /\ UNCHANGED <<wal, stop>>
        BY <1>8 DEF HandoffSeq
    <2>2. at[t] = "want seq" /\ at'[t] = "meta"
        BY <1>1, <1>3, <2>1
    <2> QED
        BY <1>1, <1>2, <2>1, <2>2, Moves DEF HoldsWal, HoldsBuffer, locks, stop
<1>9. CASE HandoffMeta
    <2>1. PICK to \in {"want wal", "idle"} :
             Go(t, "meta", to) /\ UNCHANGED <<locks, stop>>
        BY <1>9 DEF HandoffMeta
    <2>2. at[t] = "meta" /\ at'[t] = to
        BY <1>1, <1>3, <2>1
    <2> QED
        BY <1>1, <1>2, <2>1, <2>2, Moves DEF HoldsWal, HoldsBuffer, locks, stop
<1>10. CASE HandoffClean
    <2>1. Go(t, "want wal", "clean") /\ wal = Free /\ wal' = t /\ UNCHANGED <<buffer, stop>>
        BY <1>10 DEF HandoffClean, LockWal
    <2>2. at[t] = "want wal" /\ at'[t] = "clean"
        BY <1>1, <1>3, <2>1
    <2> QED
        BY <1>1, <1>2, <2>1, <2>2, Moves DEF HoldsWal, HoldsBuffer, locks, stop
<1>11. CASE HandoffCleaned
    <2>1. Go(t, "clean", "idle") /\ wal' = Free /\ UNCHANGED <<buffer, stop>>
        BY <1>11 DEF HandoffCleaned
    <2>2. at[t] = "clean" /\ at'[t] = "idle"
        BY <1>1, <1>3, <2>1
    <2> QED
        BY <1>1, <1>2, <2>1, <2>2, Moves DEF HoldsWal, HoldsBuffer, locks, stop
<1> QED
    BY <1>4, <1>5, <1>6, <1>7, <1>8, <1>9, <1>10, <1>11 DEF Handoff, HandoffOn

(* The steps of the final flush keep it. *)
LEMMA StopStep ==
    ASSUME LocksInv, NEW t, t = Main, Stop
    PROVE  LocksInv'
<1>1. /\ t \in Tasks /\ t # Free /\ t = Main /\ t # Scheduler
      /\ Places(t) = {"idle", "accepted", "stopping", "flush", "want buffer", "apply", "done"}
    BY LocksAssumption DEF Tasks, Places
<1>2. (HoldsWal(t) <=> wal = t) /\ (HoldsBuffer(t) <=> buffer = t) /\ at[t] \in Places(t)
    BY <1>1 DEF LocksInv, TypeOK
<1>3. ASSUME NEW from, NEW to, Go(t, from, to), to \in Places(t)
      PROVE  at[t] = from /\ at'[t] = to
    BY <1>1, <1>3 DEF Go, LocksInv, TypeOK
<1>4. CASE StopBegin
    <2>1. Go(t, "stopping", "flush") /\ wal = Free /\ wal' = t /\ UNCHANGED <<buffer, stop>>
        BY <1>4 DEF StopBegin, LockWal
    <2>2. at[t] = "stopping" /\ at'[t] = "flush"
        BY <1>1, <1>3, <2>1
    <2> QED
        BY <1>1, <1>2, <2>1, <2>2, Moves DEF HoldsWal, HoldsBuffer, Stopping, locks, stop
<1>5. CASE StopSkips
    <2>1. Go(t, "stopping", "done") /\ UNCHANGED <<locks, stop>>
        BY <1>5 DEF StopSkips
    <2>2. at[t] = "stopping" /\ at'[t] = "done"
        BY <1>1, <1>3, <2>1
    <2> QED
        BY <1>1, <1>2, <2>1, <2>2, Moves DEF HoldsWal, HoldsBuffer, Stopping, locks, stop
<1>6. CASE StopFails
    <2>1. Go(t, "flush", "done") /\ wal' = Free /\ UNCHANGED <<buffer, stop>>
        BY <1>6 DEF StopFails
    <2>2. at[t] = "flush" /\ at'[t] = "done"
        BY <1>1, <1>3, <2>1
    <2> QED
        BY <1>1, <1>2, <2>1, <2>2, Moves DEF HoldsWal, HoldsBuffer, Stopping, locks, stop
<1>7. CASE StopFlushed
    <2>1. Go(t, "flush", "want buffer") /\ UNCHANGED <<locks, stop>>
        BY <1>7 DEF StopFlushed
    <2>2. at[t] = "flush" /\ at'[t] = "want buffer"
        BY <1>1, <1>3, <2>1
    <2> QED
        BY <1>1, <1>2, <2>1, <2>2, Moves DEF HoldsWal, HoldsBuffer, Stopping, locks, stop
<1>8. CASE StopApply
    <2>1. Go(t, "want buffer", "apply") /\ buffer = Free /\ buffer' = t /\ UNCHANGED <<wal, stop>>
        BY <1>8 DEF StopApply, LockBuffer
    <2>2. at[t] = "want buffer" /\ at'[t] = "apply"
        BY <1>1, <1>3, <2>1
    <2> QED
        BY <1>1, <1>2, <2>1, <2>2, Moves DEF HoldsWal, HoldsBuffer, Stopping, locks, stop
<1>9. CASE StopApplied
    <2>1. Go(t, "apply", "done") /\ wal' = Free /\ buffer' = Free /\ UNCHANGED stop
        BY <1>9 DEF StopApplied
    <2>2. at[t] = "apply" /\ at'[t] = "done"
        BY <1>1, <1>3, <2>1
    <2> QED
        BY <1>1, <1>2, <2>1, <2>2, Moves DEF HoldsWal, HoldsBuffer, Stopping, locks, stop
<1> QED
    BY <1>4, <1>5, <1>6, <1>7, <1>8, <1>9 DEF Stop

(* What the signal does, and what those who hear it do, keeps it. *)
LEMMA SignalStep ==
    ASSUME LocksInv,
           \/ Signal \/ SchedulerDropped \/ Accept \/ Accepted \/ Hear
           \/ \E t \in Loops : LoopEnds(t)
           \/ \E t \in Writers \cup Readers : Disconnect(t)
    PROVE  LocksInv'
<1>1. /\ Scheduler \in Tasks /\ Main \in Tasks /\ Scheduler # Main
      /\ Scheduler # Free /\ Main # Free
      /\ \A t \in Writers \cup Readers :
            t \in Tasks /\ t # Free /\ t # Main /\ t # Scheduler
    BY LocksAssumption DEF Tasks
<1>2. \A t \in Tasks : (HoldsWal(t) <=> wal = t) /\ (HoldsBuffer(t) <=> buffer = t)
    BY DEF LocksInv, TypeOK
<1>3. \A t \in Writers \cup Readers : {"idle", "gone"} \subseteq Places(t)
    BY <1>1 DEF Places
<1>4. "gone" \in Places(Scheduler) /\ {"idle", "accepted", "stopping"} \subseteq Places(Main)
    BY LocksAssumption DEF Places
<1>5. ASSUME NEW t \in Tasks, NEW from, NEW to, Go(t, from, to), to \in Places(t)
      PROVE  at[t] = from /\ at'[t] = to
    BY <1>5 DEF Go, LocksInv, TypeOK
<1>6. CASE Signal
    <2>2. told' \subseteq Tasks
        BY <1>6, LocksAssumption DEF Signal, Listening, Tasks
    <2>3. at' = at /\ wal' = wal /\ buffer' = buffer /\ signalled'
        BY <1>6 DEF Signal, locks
    <2>4. TypeOK'
        BY <2>2, <2>3 DEF LocksInv, TypeOK, HoldsWal, HoldsBuffer
    <2>5. told = {} /\ ~Stopping /\ at[Scheduler] # "gone"
        BY <1>6 DEF Signal, LocksInv, ToldTogether
    <2>6. Scheduler \in told'
        BY <1>6, <2>5 DEF Signal, Listening
    <2> QED
        BY <2>3, <2>4, <2>6 DEF LocksInv, ToldTogether
<1>7. CASE SchedulerDropped
    <2>1. PICK place \in {"idle", "want buffer", "want seq", "want wal"} :
             Go(Scheduler, place, "gone")
        BY <1>7 DEF SchedulerDropped
    <2>2. at[Scheduler] = place /\ at'[Scheduler] = "gone"
        BY <1>1, <1>4, <1>5, <2>1
    <2>3. /\ Scheduler \in told /\ UNCHANGED <<wal, stop>>
          /\ buffer' = IF buffer = Scheduler THEN Free ELSE buffer
        BY <1>7 DEF SchedulerDropped
    <2> QED
        BY <1>1, <1>2, <1>4, <2>1, <2>2, <2>3, Moves DEF HoldsWal, HoldsBuffer, stop
<1>8. CASE Accept
    <2>1. Go(Main, "idle", "accepted") /\ Missed(Main) /\ UNCHANGED locks
        BY <1>8 DEF Accept
    <2>2. at[Main] = "idle" /\ at'[Main] = "accepted"
        BY <1>1, <1>4, <1>5, <2>1
    <2> QED
        BY <1>1, <1>2, <1>4, <2>1, <2>2, Moves DEF HoldsWal, HoldsBuffer, locks
<1>9. CASE Accepted
    <2>1. Go(Main, "accepted", "idle") /\ UNCHANGED <<locks, stop>>
        BY <1>9 DEF Accepted
    <2>2. at[Main] = "accepted" /\ at'[Main] = "idle"
        BY <1>1, <1>4, <1>5, <2>1
    <2> QED
        BY <1>1, <1>2, <1>4, <2>1, <2>2, Moves DEF HoldsWal, HoldsBuffer, locks, stop
<1>10. CASE Hear
    <2>1. Main \in told /\ Go(Main, "idle", "stopping") /\ UNCHANGED <<locks, stop>>
        BY <1>10 DEF Hear
    <2>2. at[Main] = "idle" /\ at'[Main] = "stopping"
        BY <1>1, <1>4, <1>5, <2>1
    <2> QED
        BY <1>1, <1>2, <1>4, <2>1, <2>2, Moves DEF HoldsWal, HoldsBuffer, locks, stop
<1>11. ASSUME NEW t \in Loops, LoopEnds(t) PROVE LocksInv'
    <2>1. Go(t, "idle", "gone") /\ UNCHANGED <<locks, stop>>
        BY <1>11 DEF LoopEnds
    <2>2. t \in Writers \cup Readers
        BY LocksAssumption
    <2>3. at[t] = "idle" /\ at'[t] = "gone"
        BY <1>1, <1>3, <1>5, <2>1, <2>2
    <2> QED
        BY <1>1, <1>2, <1>3, <2>1, <2>2, <2>3, Moves DEF HoldsWal, HoldsBuffer, locks, stop
<1>12. ASSUME NEW t \in Writers \cup Readers, Disconnect(t) PROVE LocksInv'
    <2>1. PICK from \in {"want wal", "want buffer"} :
             Go(t, from, "idle") /\ UNCHANGED <<locks, stop>>
        BY <1>12 DEF Disconnect
    <2>2. at[t] = from /\ at'[t] = "idle"
        BY <1>1, <1>3, <1>5, <2>1
    <2> QED
        BY <1>1, <1>2, <1>3, <2>1, <2>2, Moves DEF HoldsWal, HoldsBuffer, locks, stop
<1> QED
    BY <1>6, <1>7, <1>8, <1>9, <1>10, <1>11, <1>12

(* A mutex is held exactly in the sections that need it, by one task, and the
   main task stops only if the scheduler has been told to. *)
THEOREM MutexesAreOwned == Spec => []LocksInv
<1>1. Init => LocksInv
    <2> SUFFICES ASSUME Init PROVE LocksInv
        OBVIOUS
    <2>1. ASSUME NEW t \in Tasks
          PROVE  at[t] = "idle" /\ "idle" \in Places(t) /\ t # Free
        BY LocksAssumption DEF Init, Places, Tasks
    <2>2. Main \in Tasks /\ Scheduler \in Tasks
        BY DEF Tasks
    <2> QED
        BY <2>1, <2>2
           DEF Init, LocksInv, TypeOK, ToldTogether, Stopping, HoldsWal, HoldsBuffer
<1>2. LocksInv /\ [Next]_vars => LocksInv'
    <2> SUFFICES ASSUME LocksInv, [Next]_vars PROVE LocksInv'
        OBVIOUS
    <2>1. ASSUME NEW t \in Writers, Write(t) PROVE LocksInv'
        BY <2>1, WriterStep
    <2>2. ASSUME NEW t \in Readers, Read(t) PROVE LocksInv'
        BY <2>2, ReaderStep
    <2>3. CASE Handoff
        BY <2>3, HandoffStep
    <2>4. CASE Stop
        BY <2>4, StopStep
    <2>5. CASE \/ Signal \/ SchedulerDropped \/ Accept \/ Accepted \/ Hear
               \/ \E t \in Loops : LoopEnds(t)
               \/ \E t \in Writers \cup Readers : Disconnect(t)
        BY <2>5, SignalStep
    <2>6. CASE UNCHANGED vars
        BY <2>6 DEF vars, LocksInv, TypeOK, ToldTogether, Stopping, HoldsWal, HoldsBuffer
    <2> QED
        BY <2>1, <2>2, <2>3, <2>4, <2>5, <2>6 DEF Next
<1> QED
    BY <1>1, <1>2, PTL DEF Spec

(* With any number of handlers and readers, only the handoff and the final
   flush can wait for each other, and then the handoff is about to be dropped:
   the two locks taken in opposite orders never stop the agent for good. *)
THEOREM DeadlocksAreBroken == Spec => []DeadlockIsBroken
<1>1. LocksInv => DeadlockIsBroken
    <2> SUFFICES ASSUME LocksInv, NEW t \in Tasks, NEW u \in Tasks, Deadlocked(t, u)
                 PROVE  {t, u} = {Scheduler, Main} /\ Scheduler \in told
        BY DEF DeadlockIsBroken
    <2>1. ASSUME NEW x \in Tasks, NEW y \in Tasks, WaitsFor(x, y), WaitsFor(y, x)
          PROVE  \/ x = Scheduler /\ y = Main /\ at[Main] = "want buffer"
                 \/ x = Main /\ y = Scheduler /\ at[Main] = "want buffer"
        <3>1. /\ at[x] \in Places(x) /\ at[y] \in Places(y)
              /\ HoldsWal(x) <=> wal = x
              /\ HoldsWal(y) <=> wal = y
              /\ HoldsBuffer(x) <=> buffer = x
              /\ HoldsBuffer(y) <=> buffer = y
            BY DEF LocksInv, TypeOK
        <3>2. ASSUME NEW z \in Tasks, at[z] \in Places(z), at[z] = "want seq"
              PROVE  z = Scheduler
            BY <3>2, LocksAssumption DEF Places, Tasks
        <3> QED
            BY <2>1, <3>1, <3>2 DEF WaitsFor, HoldsWal, HoldsBuffer
    <2>2. Stopping => Scheduler \in told
        BY DEF LocksInv, ToldTogether
    <2> QED
        BY <2>1, <2>2 DEF Deadlocked, Stopping
<1> QED
    BY <1>1, MutexesAreOwned, PTL
=============================================================================
