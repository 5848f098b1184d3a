---------------------------- MODULE AgentLocks -----------------------------
(***************************************************************************)
(* Who waits for whom, and who is told to stop: the agent's two tokio       *)
(* mutexes, around the WAL and around the buffer, every task of a running   *)
(* agent that takes them, and the Notify that Ctrl-C wakes.                 *)
(* What the critical sections do to the data is in AgentIngest; here a      *)
(* task is a place in its code.                                             *)
(*                                                                         *)
(* notify_waiters reaches the Notified futures that exist at that moment,   *)
(* and a select! that takes another branch drops the future it was told     *)
(* through.  `told` are the tasks with a future that has been woken.        *)
(*                                                                         *)
(* Left out: start-up, where replay holds the WAL and takes the buffer but  *)
(* nothing else runs yet.                                                   *)
(***************************************************************************)
EXTENDS Naturals, FiniteSets

CONSTANTS
    Writers,    \* handlers of POST /write, and the periodic flush task
    Readers,    \* handlers of GET /status, /query, ... and the heartbeat
    Loops,      \* those of them that are background loops: flush and heartbeat
    Scheduler,  \* the snapshot scheduler
    Main,       \* the agent's main task: the accept loop, then the final flush
    Free        \* the owner of a mutex nobody holds

Tasks == Writers \cup Readers \cup {Scheduler, Main}

ASSUME LocksAssumption ==
    /\ Writers \cap Readers = {}
    /\ Loops \subseteq Writers \cup Readers
    /\ Scheduler \notin Writers \cup Readers
    /\ Main \notin Writers \cup Readers \cup {Scheduler}
    /\ Free \notin Tasks

VARIABLES
    wal,       \* the task that holds the WAL mutex
    buffer,    \* the task that holds the buffer mutex
    at,        \* where each task is
    signalled, \* Ctrl-C was pressed
    told       \* the tasks whose select! has been woken by it

locks == <<wal, buffer>>
stop == <<signalled, told>>
vars == <<wal, buffer, at, signalled, told>>

Init ==
    /\ wal = Free /\ buffer = Free
    /\ at = [t \in Tasks |-> "idle"]
    /\ signalled = FALSE /\ told = {}

Go(t, from, to) ==
    /\ at[Main] # "done"     \* the process has not ended
    /\ at[t] = from
    /\ at' = [at EXCEPT ![t] = to]

LockWal    == wal = Free
LockBuffer == buffer = Free

(* A select! that has two branches ready takes either: a loop that goes on
   with its timer drops the future that was woken. *)
Missed(t) == told' = told \ {t} /\ UNCHANGED signalled

-----------------------------------------------------------------------------
(* WriteHandler::handle and flush_and_apply: flush under the WAL mutex, let it
   go, apply under the buffer mutex. *)

WriteBegin(t) ==
    /\ Go(t, "idle", "want wal")
    /\ Missed(t)
    /\ UNCHANGED locks

WriteFlush(t) ==
    /\ Go(t, "want wal", "flush")
    /\ LockWal /\ wal' = t
    /\ UNCHANGED <<buffer, stop>>

(* Mutant: the WAL guard is still alive when the buffer is locked. *)
WriteFlushedKeeps(t) ==
    /\ \/ Go(t, "flush", "want buffer") /\ UNCHANGED wal
       \/ Go(t, "flush", "idle") /\ wal' = Free
    /\ UNCHANGED <<buffer, stop>>

(* The flush failed, or there was nothing to flush: nothing is applied. *)
WriteFlushed(t) ==
    /\ Go(t, "flush", "want buffer") \/ Go(t, "flush", "idle")
    /\ wal' = Free
    /\ UNCHANGED <<buffer, stop>>

WriteApply(t) ==
    /\ Go(t, "want buffer", "apply")
    /\ LockBuffer /\ buffer' = t
    /\ UNCHANGED <<wal, stop>>

WriteApplied(t) ==
    /\ Go(t, "apply", "idle")
    /\ buffer' = Free
    /\ UNCHANGED <<wal, stop>>

WriteOn(t) == WriteFlush(t) \/ WriteFlushed(t) \/ WriteApply(t) \/ WriteApplied(t)

Write(t) == WriteBegin(t) \/ WriteOn(t)

-----------------------------------------------------------------------------
(* StatusHandler::handle reads the buffer and then the WAL; the others only
   the buffer. *)

ReadBegin(t) ==
    /\ Go(t, "idle", "want buffer")
    /\ Missed(t)
    /\ UNCHANGED locks

ReadBuffer(t) ==
    /\ Go(t, "want buffer", "read")
    /\ LockBuffer /\ buffer' = t
    /\ UNCHANGED <<wal, stop>>

ReadDone(t) ==
    /\ Go(t, "read", "want wal") \/ Go(t, "read", "idle")
    /\ buffer' = Free
    /\ UNCHANGED <<wal, stop>>

ReadWal(t) == Go(t, "want wal", "idle") /\ LockWal /\ UNCHANGED <<locks, stop>>

ReadOn(t) == ReadBuffer(t) \/ ReadDone(t) \/ ReadWal(t)

Read(t) == ReadBegin(t) \/ ReadOn(t)

(* The client of a request goes away while its handler waits: hyper drops the
   handler.  (In the file write of a flush, that is WriteFlushed to "idle".) *)
Disconnect(t) ==
    /\ t \notin Loops
    /\ Go(t, "want wal", "idle") \/ Go(t, "want buffer", "idle")
    /\ UNCHANGED <<locks, stop>>

-----------------------------------------------------------------------------
(* complete_chunk_handoff *)

HandoffBegin == Go(Scheduler, "idle", "want buffer") /\ UNCHANGED <<locks, stop>>

HandoffDrain ==
    /\ Go(Scheduler, "want buffer", "drain")
    /\ LockBuffer /\ buffer' = Scheduler
    /\ UNCHANGED <<wal, stop>>

(* Chunks are left: the watermark comes from them. *)
HandoffDrained ==
    /\ Go(Scheduler, "drain", "meta")
    /\ buffer' = Free
    /\ UNCHANGED <<wal, stop>>

(* The buffer is empty: the WAL is asked, with the buffer still locked. *)
HandoffAsks == Go(Scheduler, "drain", "want seq") /\ UNCHANGED <<locks, stop>>

HandoffSeq ==
    /\ Go(Scheduler, "want seq", "meta")
    /\ LockWal
    /\ buffer' = Free
    /\ UNCHANGED <<wal, stop>>

HandoffMeta ==
    /\ Go(Scheduler, "meta", "want wal") \/ Go(Scheduler, "meta", "idle")
    /\ UNCHANGED <<locks, stop>>

HandoffClean ==
    /\ Go(Scheduler, "want wal", "clean")
    /\ LockWal /\ wal' = Scheduler
    /\ UNCHANGED <<buffer, stop>>

HandoffCleaned ==
    /\ Go(Scheduler, "clean", "idle")
    /\ wal' = Free
    /\ UNCHANGED <<buffer, stop>>

HandoffOn == HandoffDrain \/ HandoffDrained \/ HandoffAsks \/ HandoffSeq
                 \/ HandoffMeta \/ HandoffClean \/ HandoffCleaned

Handoff == HandoffBegin \/ HandoffOn

-----------------------------------------------------------------------------
(* Ctrl-C.  The scheduler's future exists as long as its task; a loop has one
   while it waits for its timer, the main task while it waits for a
   connection. *)

Listening ==
    {t \in Loops \cup {Main} : at[t] = "idle"} \cup {t \in {Scheduler} : at[t] # "gone"}

(* Mutant: the scheduler looks at the signal between two cycles only. *)
SignalBetweenCycles ==
    /\ ~signalled /\ at[Main] # "done"
    /\ signalled' = TRUE
    /\ told' = {t \in Listening : at[t] = "idle"}
    /\ UNCHANGED <<locks, at>>

Signal ==
    /\ ~signalled /\ at[Main] # "done"
    /\ signalled' = TRUE
    /\ told' = Listening
    /\ UNCHANGED <<locks, at>>

(* The scheduler's run() is dropped where it waits, with the guard it holds. *)
SchedulerDropped ==
    /\ Scheduler \in told
    /\ \E place \in {"idle", "want buffer", "want seq", "want wal"} :
          Go(Scheduler, place, "gone")
    /\ buffer' = IF buffer = Scheduler THEN Free ELSE buffer
    /\ UNCHANGED <<wal, stop>>

LoopEnds(t) == t \in told /\ Go(t, "idle", "gone") /\ UNCHANGED <<locks, stop>>

(* The accept loop takes a connection, hands it to a task of its own, and
   makes a new future for the next round. *)
Accept   == Go(Main, "idle", "accepted") /\ Missed(Main) /\ UNCHANGED locks
Accepted == Go(Main, "accepted", "idle") /\ UNCHANGED <<locks, stop>>
Hear     == Main \in told /\ Go(Main, "idle", "stopping") /\ UNCHANGED <<locks, stop>>

(* The final flush of the agent's main function, under try_lock. *)

StopBegin ==
    /\ Go(Main, "stopping", "flush")
    /\ LockWal /\ wal' = Main
    /\ UNCHANGED <<buffer, stop>>

StopSkips == Go(Main, "stopping", "done") /\ ~LockWal /\ UNCHANGED <<locks, stop>>

(* The flush fails: both are free and the process ends ... *)
StopFails == Go(Main, "flush", "done") /\ wal' = Free /\ UNCHANGED <<buffer, stop>>

(* ... or succeeds, and the buffer is locked with the WAL still locked. *)
StopFlushed == Go(Main, "flush", "want buffer") /\ UNCHANGED <<locks, stop>>

StopApply ==
    /\ Go(Main, "want buffer", "apply")
    /\ LockBuffer /\ buffer' = Main
    /\ UNCHANGED <<wal, stop>>

StopApplied ==
    /\ Go(Main, "apply", "done")
    /\ wal' = Free /\ buffer' = Free
    /\ UNCHANGED stop

Stop == StopBegin \/ StopSkips \/ StopFails \/ StopFlushed \/ StopApply \/ StopApplied

-----------------------------------------------------------------------------
Next ==
    \/ \E t \in Writers : Write(t)
    \/ \E t \in Readers : Read(t)
    \/ \E t \in Writers \cup Readers : Disconnect(t)
    \/ Handoff
    \/ Signal
    \/ SchedulerDropped
    \/ \E t \in Loops : LoopEnds(t)
    \/ Accept \/ Accepted \/ Hear
    \/ Stop

Spec == Init /\ [][Next]_vars

(***************************************************************************)
(* Fairness.  A task in a critical section leaves it, and a task that waits *)
(* for a mutex gets it if it is free again and again, since tokio's mutexes *)
(* serve their waiters in order: strong fairness of what a task does once   *)
(* it has begun.  A task that was woken is polled; the scheduler may be     *)
(* polled in a section and is dropped at its next wait.  No request has to  *)
(* arrive, no handoff to begin and nobody has to press Ctrl-C; when a       *)
(* connection and the signal are both there, nothing says which of the two  *)
(* the accept loop takes.                                                   *)
(***************************************************************************)
Fairness ==
    /\ \A t \in Writers : SF_vars(WriteOn(t))
    /\ \A t \in Readers : SF_vars(ReadOn(t))
    /\ SF_vars(HandoffOn) /\ SF_vars(SchedulerDropped)
    /\ WF_vars(Accepted \/ Hear) /\ SF_vars(Stop)

FairSpec == Spec /\ Fairness

-----------------------------------------------------------------------------
WaitsFor(t, u) ==
    \/ at[t] \in {"want wal", "want seq"} /\ wal = u
    \/ at[t] = "want buffer" /\ buffer = u

Deadlocked(t, u) == WaitsFor(t, u) /\ WaitsFor(u, t)

Places(t) ==
    CASE t \in Writers  -> {"idle", "want wal", "flush", "want buffer", "apply", "gone"}
      [] t \in Readers  -> {"idle", "want buffer", "read", "want wal", "gone"}
      [] t = Scheduler  -> {"idle", "want buffer", "drain", "want seq", "meta",
                            "want wal", "clean", "gone"}
      [] t = Main       -> {"idle", "accepted", "stopping", "flush", "want buffer",
                            "apply", "done"}

HoldsWal(t) ==
    \/ at[t] \in {"flush", "clean"}
    \/ t = Main /\ at[t] \in {"want buffer", "apply"}

HoldsBuffer(t) == at[t] \in {"apply", "read", "drain", "want seq"}

Stopping == at[Main] \in {"stopping", "flush", "want buffer", "apply", "done"}

(* A mutex is held by exactly the task that is in a section of it. *)
TypeOK ==
    /\ DOMAIN at = Tasks /\ \A t \in Tasks : at[t] \in Places(t)
    /\ wal \in Tasks \cup {Free} /\ buffer \in Tasks \cup {Free}
    /\ \A t \in Tasks : HoldsWal(t) <=> wal = t
    /\ \A t \in Tasks : HoldsBuffer(t) <=> buffer = t
    /\ signalled \in BOOLEAN /\ told \subseteq Tasks

(* The main task heard the signal only if the scheduler was told as well. *)
ToldTogether ==
    /\ Main \in told \/ Stopping => Scheduler \in told
    /\ at[Scheduler] = "gone" => Scheduler \in told
    /\ told # {} => signalled

LocksInv == TypeOK /\ ToldTogether

(* The only tasks that can wait for each other are the handoff, which asks for
   the WAL with the buffer locked, and the final flush, which asks for the
   buffer with the WAL locked; and then the scheduler has been told to stop, so
   the handoff is about to be dropped with what it holds. *)
DeadlockIsBroken ==
    \A t, u \in Tasks :
        Deadlocked(t, u) => {t, u} = {Scheduler, Main} /\ Scheduler \in told

Busy(t) == at[t] \notin {"idle", "gone"}

(* Whoever takes a mutex, or wants to, gets through until the process ends: the
   handoff that waits for the WAL with the buffer locked included. *)
EveryoneGetsThrough ==
    \A t \in Tasks \ {Main} : Busy(t) ~> ~Busy(t) \/ at[Main] = "done"

(* An agent that heard the signal gets through its final flush and ends,
   whatever its other tasks hold or wait for. *)
StopsOnceHeard == at[Main] = "stopping" ~> at[Main] = "done"

(* mix mode's comment (main.rs:486) takes it that an agent told by Ctrl-C
   "exits gracefully". *)
SignalStops == signalled ~> at[Main] = "done"
=============================================================================
