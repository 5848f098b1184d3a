-------------------------- MODULE ConfigSyncProofs --------------------------
(***************************************************************************)
(* The protocol for every number of settings, fields, requests under way,    *)
(* puts and mishaps: an agent that the server takes for up to date has the    *)
(* settings that were put last, one that starts without an answer those it    *)
(* was told, and what it takes for reported is known or failed.               *)
(***************************************************************************)
EXTENDS ConfigSync, TLAPS

USE SyncAssumption

(* A function is partial if its domain is some of the settings. *)
LEMMA PartialFunction ==
    ASSUME NEW S \in SUBSET Settings, NEW f \in [S -> Values]
    PROVE  f \in Partial
<1>1. [S -> Values] \in {[T -> Values] : T \in SUBSET Settings}
  OBVIOUS
<1> QED
  BY <1>1 DEF Partial

LEMMA PartialDomain ==
    ASSUME NEW f \in Partial
    PROVE  /\ DOMAIN f \subseteq Settings
           /\ f \in [DOMAIN f -> Values]
<1>1. PICK T \in SUBSET Settings : f \in [T -> Values]
  BY DEF Partial
<1> QED
  BY <1>1

LEMMA NothingPartial == Nothing \in Partial
<1>1. Nothing \in [{} -> Values]
  BY DEF Nothing
<1> QED
  BY <1>1, PartialFunction

LEMMA ReadPartial ==
    ASSUME NEW c \in Configs \cup {NoConfig}
    PROVE  Read(c) \in Partial
BY NothingPartial DEF Read

(* Overlaying keeps an object an object. *)
LEMMA OverlayPartial ==
    ASSUME NEW f \in Partial, NEW g \in Partial
    PROVE  Overlay(f, g) \in Partial
<1> DEFINE D == DOMAIN f \cup DOMAIN g
<1>1. D \in SUBSET Settings
  BY PartialDomain
<1>2. Overlay(f, g) \in [D -> Values]
  BY PartialDomain DEF Overlay
<1> QED
  BY <1>1, <1>2, PartialFunction

(* An update lets no garbage in, and sets all else that it gives a value. *)
LEMMA ApplyUpdateFull ==
    ASSUME NEW f \in [Settings -> Values \ Garbage], NEW g \in Partial
    PROVE  ApplyUpdate(f, g) \in [Settings -> Values \ Garbage]
BY PartialDomain DEF ApplyUpdate, Parses

LEMMA ApplyUpdateApplied ==
    ASSUME NEW f \in [Settings -> Values \ Garbage], NEW c \in Configs \cup {NoConfig}
    PROVE  Applied(c, ApplyUpdate(f, Read(c)))
<1>1. DOMAIN Read(c) \subseteq Settings
  BY ReadPartial, PartialDomain
<1> QED
  BY <1>1 DEF ApplyUpdate, Applied

LEMMA NoneApplied == \A f : Applied(NoConfig, f)
BY DEF Applied, Read, Nothing

LEMMA FreeConn == Free \in Conn
BY DEF Free, Conn

-----------------------------------------------------------------------------
(* Types *)

(* Replacing one request by another of the agent's, or by none of its, keeps
   what is said about requests. *)
LEMMA ConnStep ==
    ASSUME TypeOK, NEW k \in Conns, NEW r \in Conn,
           conn' = [conn EXCEPT ![k] = r],
           r.live => conn[k].live \/ \A c \in Conns : ~conn[c].live
    PROVE  /\ conn' \in [Conns -> Conn]
           /\ \A i, j \in Conns : conn'[i].live /\ conn'[j].live => i = j
           /\ (\A c \in Conns : ~conn[c].live) /\ ~r.live
                 => \A c \in Conns : ~conn'[c].live
<1>1. /\ conn \in [Conns -> Conn]
      /\ \A i, j \in Conns : conn[i].live /\ conn[j].live => i = j
  BY DEF TypeOK
<1>2. \A c \in Conns : conn'[c] = IF c = k THEN r ELSE conn[c]
  BY <1>1
<1> QED
  BY <1>1, <1>2

(* A step of the server changes one request and not whose it is. *)
ConnOK ==
    /\ conn \in [Conns -> Conn]
    /\ \A i, j \in Conns : conn[i].live /\ conn[j].live => i = j
    /\ agent = "down" => \A c \in Conns : ~conn[c].live

LEMMA ServedStep ==
    ASSUME TypeOK, NEW k \in Conns, NEW r \in Conn,
           conn' = [conn EXCEPT ![k] = r], r.live = conn[k].live, agent' = agent
    PROVE  ConnOK'
<1>1. \A c \in Conns : conn'[c] = IF c = k THEN r ELSE conn[c]
  BY DEF TypeOK
<1>2. conn' \in [Conns -> Conn]
  BY DEF TypeOK
<1> QED
  BY <1>1, <1>2 DEF TypeOK, ConnOK

LEMMA GotoStep ==
    ASSUME TypeOK, NEW k \in Conns, agent' = agent,
           NEW place \in {"row", "refused", "schema", "get", "reply"}, Goto(k, place)
    PROVE  ConnOK'
<1> DEFINE r == [conn[k] EXCEPT !.pc = place]
<1>1. r \in Conn /\ r.live = conn[k].live
  BY DEF TypeOK, Conn
<1>2. conn' = [conn EXCEPT ![k] = r]
  BY DEF Goto
<1> QED
  BY <1>1, <1>2, ServedStep

LEMMA TypeInit == Init => TypeOK
<1> SUFFICES ASSUME Init PROVE TypeOK
  OBVIOUS
<1>1. conn \in [Conns -> Conn] /\ \A k \in Conns : ~conn[k].live
  BY FreeConn DEF Init, Free
<1>2. hot \in [Settings -> Values \ Garbage]
  BY DEF Init
<1>3. cache \in Partial /\ draft \in Partial /\ told \in Partial
  BY NothingPartial DEF Init
<1>4. puts \in 0 .. MaxPuts /\ mishaps \in 0 .. MaxMishaps
  BY DEF Init
<1> QED
  BY <1>1, <1>2, <1>3, <1>4 DEF Init, TypeOK

LEMMA TypeStep == TypeOK /\ [Next]_vars => TypeOK'
<1> SUFFICES ASSUME TypeOK, [Next]_vars PROVE TypeOK'
  OBVIOUS
<1> USE DEF serverVars, agentVars, cacheVars, bounds
<1>1. ASSUME NEW k \in Conns, NEW replayed \in SUBSET schema, Boot(k, replayed)
      PROVE  TypeOK'
  <2> DEFINE r == [Free EXCEPT !.pc = "register", !.live = TRUE]
  <2>1. r \in Conn
    BY DEF Free, Conn
  <2>2. \A c \in Conns : ~conn[c].live
    BY <1>1 DEF Boot, TypeOK
  <2>3. /\ conn' \in [Conns -> Conn]
        /\ \A i, j \in Conns : conn'[i].live /\ conn'[j].live => i = j
    BY <1>1, <2>1, <2>2, ConnStep DEF Boot
  <2>4. ApplyUpdate(Local, cache) \in [Settings -> Values \ Garbage]
    BY ApplyUpdateFull DEF TypeOK
  <2>5. hot' \in [Settings -> Values \ Garbage]
    BY <1>1, <2>4 DEF Boot
  <2>6. cut' \in BOOLEAN
    BY <1>1 DEF Boot, TypeOK
  <2>7. mishaps' \in 0 .. MaxMishaps
    BY <1>1 DEF Boot, TypeOK, Mishap
  <2> QED
    BY <1>1, <2>3, <2>5, <2>6, <2>7 DEF Boot, TypeOK
<1>2. ASSUME NEW k \in Conns, Registered(k) PROVE TypeOK'
  <2>1. /\ conn' \in [Conns -> Conn]
        /\ \A i, j \in Conns : conn'[i].live /\ conn'[j].live => i = j
    BY <1>2, FreeConn, ConnStep DEF Registered, Free
  <2>2. conn[k] \in Conn
    BY DEF TypeOK
  <2>3. Read(conn[k].reply) \in Partial
    BY <2>2, ReadPartial DEF Conn
  <2>4. ApplyUpdate(hot, Read(conn[k].reply)) \in [Settings -> Values \ Garbage]
    BY <2>3, ApplyUpdateFull DEF TypeOK
  <2> QED
    BY <1>2, <2>1, <2>2, <2>3, <2>4 DEF Registered, TypeOK, Conn
<1>3. ASSUME NEW k \in Conns, Heartbeat(k) PROVE TypeOK'
  <2>1. PICK report \in SUBSET Fields :
            conn' = [conn EXCEPT ![k] = [Free EXCEPT !.pc = "beat", !.ver = version,
                                                   !.report = report, !.live = TRUE]]
    BY <1>3 DEF Heartbeat, SchemaChanges, TypeOK
  <2> DEFINE r == [Free EXCEPT !.pc = "beat", !.ver = version, !.report = report,
                               !.live = TRUE]
  <2>2. r \in Conn
    BY DEF Free, Conn, TypeOK
  <2>3. \A c \in Conns : ~conn[c].live
    BY <1>3 DEF Heartbeat
  <2>4. /\ conn' \in [Conns -> Conn]
        /\ \A i, j \in Conns : conn'[i].live /\ conn'[j].live => i = j
    BY <2>1, <2>2, <2>3, ConnStep
  <2>5. missed' \subseteq Fields
    BY <1>3 DEF Heartbeat, SchemaChanges, TypeOK
  <2> QED
    BY <1>3, <2>4, <2>5 DEF Heartbeat, SchemaChanges, TypeOK
<1>4. ASSUME NEW k \in Conns, Updated(k) PROVE TypeOK'
  <2>1. /\ conn' \in [Conns -> Conn]
        /\ \A i, j \in Conns : conn'[i].live /\ conn'[j].live => i = j
    BY <1>4, FreeConn, ConnStep DEF Updated, Free
  <2>2. conn[k] \in Conn
    BY DEF TypeOK
  <2>3. conn[k].reply \in Partial
    BY <1>4, <2>2 DEF Updated, Conn
  <2>4. /\ ApplyUpdate(hot, conn[k].reply) \in [Settings -> Values \ Garbage]
        /\ Overlay(cache, conn[k].reply) \in Partial
        /\ Overlay(told, conn[k].reply) \in Partial
    BY <2>3, ApplyUpdateFull, OverlayPartial DEF TypeOK
  <2>5. version' \in Nat /\ haunted' \in BOOLEAN
    BY <1>4 DEF Updated, NextVersion, TypeOK
  <2>6. draft' \in Partial
    BY <1>4, <2>3, <2>4 DEF Updated
  <2>7. cut' \in BOOLEAN
    BY <1>4 DEF Updated, TypeOK
  <2>8. mishaps' \in 0 .. MaxMishaps
    BY <1>4 DEF Updated, TypeOK, Mishap
  <2> QED
    BY <1>4, <2>1, <2>4, <2>5, <2>6, <2>7, <2>8 DEF Updated, TypeOK
<1>5. ASSUME NEW k \in Conns, NotUpdated(k) PROVE TypeOK'
  <2>1. /\ conn' \in [Conns -> Conn]
        /\ \A i, j \in Conns : conn'[i].live /\ conn'[j].live => i = j
    BY <1>5, FreeConn, ConnStep DEF NotUpdated, Free
  <2> QED
    BY <1>5, <2>1 DEF NotUpdated, TypeOK
<1>6. ASSUME NEW k \in Conns, GiveUp(k) PROVE TypeOK'
  <2> DEFINE r == [conn[k] EXCEPT !.live = FALSE]
  <2>1. conn[k] \in Conn /\ r \in Conn
    BY DEF TypeOK, Conn
  <2>2. /\ conn' \in [Conns -> Conn]
        /\ \A i, j \in Conns : conn'[i].live /\ conn'[j].live => i = j
    BY <1>6, <2>1, ConnStep DEF GiveUp, Conn
  <2>3. missed' \subseteq Fields
    BY <1>6, <2>1 DEF GiveUp, TypeOK, Conn
  <2> QED
    BY <1>6, <2>2, <2>3 DEF GiveUp, TypeOK, Mishap
<1>7. CASE Truncate
  BY <1>7, NothingPartial DEF Truncate, TypeOK
<1>8. CASE Fill
  <2>1. cache' \in Partial /\ draft' \in Partial /\ cut' \in BOOLEAN
    BY <1>8, NothingPartial DEF Fill, TypeOK
  <2>2. mishaps' \in 0 .. MaxMishaps
    BY <1>8 DEF Fill, TypeOK, Mishap
  <2> QED
    BY <1>8, <2>1, <2>2 DEF Fill, TypeOK
<1>9. ASSUME NEW f \in Fields, Write(f) PROVE TypeOK'
  BY <1>9 DEF Write, TypeOK
<1>10. CASE Crash
  <2>1. \A c \in Conns : [conn[c] EXCEPT !.live = FALSE] \in Conn
    BY DEF TypeOK, Conn
  <2>2. /\ conn' \in [Conns -> Conn]
        /\ \A c \in Conns : ~conn'[c].live
    BY <1>10, <2>1 DEF Crash, Conn, TypeOK
  <2> QED
    BY <1>10, <2>2, NothingPartial DEF Crash, TypeOK, Mishap
<1>11. ASSUME NEW k \in Conns, Register(k) PROVE TypeOK'
  <2>1. ConnOK'
    BY <1>11, GotoStep DEF Register
  <2>2. haunted' \in BOOLEAN
    BY <1>11 DEF Register, TypeOK
  <2>3. row' \in Row
    BY <1>11 DEF Register, TypeOK, Row
  <2> QED
    BY <1>11, <2>1, <2>2, <2>3 DEF Register, TypeOK, ConnOK
<1>12. ASSUME NEW k \in Conns, GetRow(k) PROVE TypeOK'
  <2>1. CASE row = NoRow
    <3>1. ConnOK'
      BY <1>12, <2>1, GotoStep DEF GetRow
    <3> QED
      BY <1>12, <3>1 DEF GetRow, TypeOK, ConnOK
  <2>2. CASE row # NoRow
    <3> DEFINE r == [conn[k] EXCEPT !.pc = "welcome", !.ver = row.reported,
                                    !.reply = row.config]
    <3>0. conn[k] \in Conn /\ row \in Row
      BY <2>2 DEF TypeOK
    <3>1. r \in Conn /\ r.live = conn[k].live
      BY <3>0 DEF Conn, Row
    <3>2. conn' = [conn EXCEPT ![k] = r]
      BY <1>12, <2>2 DEF GetRow, TypeOK, Conn
    <3>3. ConnOK'
      BY <1>12, <3>1, <3>2, ServedStep DEF GetRow
    <3> QED
      BY <1>12, <3>3 DEF GetRow, TypeOK, ConnOK
  <2> QED
    BY <2>1, <2>2
<1>13. ASSUME NEW k \in Conns, SeeVersion(k) PROVE TypeOK'
  <2>1. conn[k] \in Conn
    BY DEF TypeOK
  <2>2. ConnOK'
    BY <1>13, GotoStep DEF SeeVersion
  <2>3. row' \in Row \cup {NoRow} /\ missed' \subseteq Fields
    BY <1>13, <2>1 DEF SeeVersion, TypeOK, Row, Conn
  <2> QED
    BY <1>13, <2>2, <2>3 DEF SeeVersion, TypeOK, ConnOK
<1>14. ASSUME NEW k \in Conns, NEW t \in Tables, MergeSchema(k, t) PROVE TypeOK'
  <2> DEFINE its == FieldsOf(t, conn[k].report)
             r == [conn[k] EXCEPT !.report = @ \ its]
  <2>1. conn[k] \in Conn /\ its \subseteq Fields
    BY DEF TypeOK, Conn, FieldsOf
  <2>2. r \in Conn /\ r.live = conn[k].live
    BY <2>1 DEF Conn
  <2>3. conn' = [conn EXCEPT ![k] = r]
    BY <1>14 DEF MergeSchema
  <2>4. ConnOK'
    BY <1>14, <2>2, <2>3, ServedStep DEF MergeSchema
  <2>5. /\ known' \subseteq Fields /\ mapped' \subseteq Tables
        /\ missed' \subseteq Fields /\ mishaps' \in 0 .. MaxMishaps
    BY <1>14, <2>1 DEF MergeSchema, TypeOK, Mishap
  <2> QED
    BY <1>14, <2>4, <2>5 DEF MergeSchema, TypeOK, ConnOK
<1>15. ASSUME NEW k \in Conns, ShouldUpdate(k) PROVE TypeOK'
  <2>1. ConnOK'
    BY <1>15, GotoStep DEF ShouldUpdate
  <2> QED
    BY <1>15, <2>1 DEF ShouldUpdate, TypeOK, ConnOK
<1>16. ASSUME NEW k \in Conns, GetConfig(k) PROVE TypeOK'
  <2> DEFINE r == [conn[k] EXCEPT !.pc = "reply",
                            !.reply = IF row = NoRow THEN NoConfig ELSE row.config]
  <2>1. r \in Conn /\ r.live = conn[k].live
    BY DEF TypeOK, Conn, Row
  <2>2. conn' = [conn EXCEPT ![k] = r]
    BY <1>16 DEF GetConfig, TypeOK, Conn
  <2>3. ConnOK'
    BY <1>16, <2>1, <2>2, ServedStep DEF GetConfig
  <2> QED
    BY <1>16, <2>3 DEF GetConfig, TypeOK, ConnOK
<1>17. ASSUME NEW k \in Conns, Drop(k) PROVE TypeOK'
  <2>1. conn[k] \in Conn
    BY DEF TypeOK
  <2>2. /\ conn' \in [Conns -> Conn]
        /\ \A i, j \in Conns : conn'[i].live /\ conn'[j].live => i = j
        /\ agent = "down" => \A c \in Conns : ~conn'[c].live
    BY <1>17, FreeConn, ConnStep DEF Drop, Free, TypeOK
  <2> QED
    BY <1>17, <2>2 DEF Drop, TypeOK
<1>18. ASSUME NEW c \in Configs \cup {NoConfig}, Put(c) PROVE TypeOK'
  <2>1. row \in Row
    BY <1>18 DEF Put, TypeOK
  <2>2. row' = [config |-> c, reported |-> row.reported, target |-> row.target + 1]
    BY <1>18, <2>1 DEF Put, Row
  <2>3. row' \in Row
    BY <2>1, <2>2 DEF Row
  <2>4. puts' \in 0 .. MaxPuts
    BY <1>18 DEF Put, TypeOK
  <2> QED
    BY <1>18, <2>3, <2>4 DEF Put, TypeOK
<1>19. CASE Delete
  BY <1>19 DEF Delete, TypeOK, Mishap
<1>20. CASE UNCHANGED vars
  BY <1>20 DEF vars, TypeOK
<1> QED
  BY <1>1, <1>2, <1>3, <1>4, <1>5, <1>6, <1>7, <1>8, <1>9, <1>10, <1>11, <1>12, <1>13, <1>14, <1>15, <1>16, <1>17, <1>18, <1>19, <1>20 DEF Next, Answer, Serve

-----------------------------------------------------------------------------
(* Counting *)

LEMMA InvInit == Init => CountInv /\ PutInv /\ AnswerInv /\ UpToDate
<1> SUFFICES ASSUME Init PROVE CountInv /\ PutInv /\ AnswerInv /\ UpToDate
  OBVIOUS
<1>1. row = NoRow
  BY DEF Init
<1>2. \A k \in Conns : conn[k] = Free
  BY DEF Init
<1> QED
  BY <1>1, <1>2 DEF CountInv, PutInv, AnswerInv, UpToDate, Counting, Serving, Free

LEMMA InvStep ==
    IInv /\ [Next]_vars => (CountInv /\ PutInv /\ AnswerInv /\ UpToDate)'
<1> SUFFICES ASSUME IInv, [Next]_vars
             PROVE  (CountInv /\ PutInv /\ AnswerInv /\ UpToDate)'
  OBVIOUS
<1> USE DEF serverVars, agentVars, cacheVars, bounds
<1> USE DEF Serving, Counting
<1>0. /\ TypeOK /\ CountInv /\ PutInv /\ AnswerInv /\ UpToDate
      /\ row # NoRow => row \in Row
      /\ version \in Nat
      /\ conn \in [Conns -> Conn]
      /\ \A k \in Conns : conn[k].ver \in Nat /\ conn[k].reply \in Configs \cup {NoConfig}
  BY DEF IInv, TypeOK, Conn
<1>1. ASSUME NEW k \in Conns, NEW replayed \in SUBSET schema, Boot(k, replayed)
      PROVE  (CountInv /\ PutInv /\ AnswerInv /\ UpToDate)'
  <2>1. \A c \in Conns : ~conn[c].live
    BY <1>0, <1>1 DEF Boot, TypeOK
  <2>2. \A c \in Conns :
            /\ conn'[c].pc = IF c = k THEN "register" ELSE conn[c].pc
            /\ conn'[c].ver = IF c = k THEN 0 ELSE conn[c].ver
            /\ conn'[c].reply = IF c = k THEN NoConfig ELSE conn[c].reply
            /\ conn'[c].live = IF c = k THEN TRUE ELSE conn[c].live
    BY <1>0, <1>1 DEF Boot, Free
  <2>3. version' = 0 /\ row' = row /\ haunted' = haunted
    BY <1>1 DEF Boot
  <2>3a. PutInv'
    BY <1>0, <2>3 DEF PutInv
  <2>3b. Counting => 0 <= row.target /\ version' <= row.target
    BY <1>0, <2>3 DEF PutInv, Row
  <2>4. CountInv'
    BY <1>0, <2>2, <2>3, <2>3b DEF CountInv
  <2>5. AnswerInv'
    <3>1. conn'[k].pc = "register"
      BY <2>2
    <3>2. \A c \in Conns \ {k} :
              /\ conn'[c].pc = conn[c].pc /\ conn'[c].ver = conn[c].ver
              /\ conn'[c].reply = conn[c].reply /\ ~conn'[c].live
      BY <2>1, <2>2
    <3> QED
      BY <1>0, <2>3, <3>1, <3>2 DEF AnswerInv
  <2>6. UpToDate'
    BY <1>0, <2>3 DEF UpToDate, PutInv, Row
  <2> QED
    BY <2>3a, <2>4, <2>5, <2>6
<1>2. ASSUME NEW k \in Conns, Registered(k)
      PROVE  (CountInv /\ PutInv /\ AnswerInv /\ UpToDate)'
  <2>1. \A c \in Conns : conn'[c] = IF c = k THEN Free ELSE conn[c]
    BY <1>0, <1>2 DEF Registered
  <2>2. /\ version' = conn[k].ver /\ row' = row /\ haunted' = haunted
        /\ hot' = ApplyUpdate(hot, Read(conn[k].reply))
        /\ conn[k].pc = "welcome" /\ conn[k].live
    BY <1>2 DEF Registered, Answered
  <2>3. \A c \in Conns \ {k} : ~conn[c].live
    BY <1>0, <2>2 DEF TypeOK
  <2>4. Applied(conn[k].reply, hot')
    BY <1>0, <2>2, ApplyUpdateApplied DEF TypeOK
  <2>5. CountInv' /\ PutInv'
    BY <1>0, <2>1, <2>2 DEF CountInv, PutInv, Free, Row
  <2>6. AnswerInv'
    BY <1>0, <2>1, <2>2, <2>3 DEF AnswerInv, Free
  <2>7. UpToDate'
    BY <1>0, <2>2, <2>4 DEF UpToDate, CountInv, AnswerInv, Row
  <2> QED
    BY <2>5, <2>6, <2>7
<1>3. ASSUME NEW k \in Conns, Heartbeat(k)
      PROVE  (CountInv /\ PutInv /\ AnswerInv /\ UpToDate)'
  <2>1. \A c \in Conns :
            /\ conn'[c].pc = IF c = k THEN "beat" ELSE conn[c].pc
            /\ conn'[c].ver = IF c = k THEN version ELSE conn[c].ver
            /\ conn'[c].reply = IF c = k THEN NoConfig ELSE conn[c].reply
            /\ conn'[c].live = IF c = k THEN TRUE ELSE conn[c].live
    BY <1>0, <1>3 DEF Heartbeat, SchemaChanges, Free
  <2>2. version' = version /\ row' = row /\ haunted' = haunted /\ hot' = hot
    BY <1>3 DEF Heartbeat
  <2>3. CountInv' /\ PutInv' /\ UpToDate'
    BY <1>0, <2>1, <2>2 DEF CountInv, PutInv, UpToDate
  <2>4. AnswerInv'
    <3>1. /\ conn'[k].pc = "beat" /\ conn'[k].ver = version
          /\ conn'[k].reply = NoConfig
      BY <2>1
    <3>2. \A c \in Conns \ {k} :
              /\ conn'[c].pc = conn[c].pc /\ conn'[c].ver = conn[c].ver
              /\ conn'[c].reply = conn[c].reply /\ conn'[c].live = conn[c].live
      BY <2>1
    <3> QED
      BY <1>0, <2>2, <3>1, <3>2 DEF AnswerInv
  <2> QED
    BY <2>3, <2>4
<1>4. ASSUME NEW k \in Conns, Updated(k)
      PROVE  (CountInv /\ PutInv /\ AnswerInv /\ UpToDate)'
  <2>1. \A c \in Conns : conn'[c] = IF c = k THEN Free ELSE conn[c]
    BY <1>0, <1>4 DEF Updated
  <2>2. /\ row' = row /\ haunted \in BOOLEAN
        /\ haunted' = (haunted \/ version' > version + 1)
        /\ hot' = ApplyUpdate(hot, conn[k].reply)
        /\ conn[k].pc = "reply" /\ conn[k].live /\ conn[k].reply # NoConfig
    BY <1>0, <1>4 DEF Updated, Answered, TypeOK
  <2>3. \A c \in Conns \ {k} : ~conn[c].live
    BY <1>0, <2>2 DEF TypeOK
  <2>4. Read(conn[k].reply) = conn[k].reply
    BY <2>2 DEF Read
  <2>5. Applied(conn[k].reply, hot')
    BY <1>0, <2>2, <2>4, ApplyUpdateApplied DEF TypeOK
  <2>6. conn[k].ver = version
    BY <1>0, <2>2 DEF AnswerInv
  <2>7. version' \in Nat
    BY <1>0, <1>4 DEF Updated, NextVersion
  <2>8. Counting' => Counting /\ version' <= version + 1 /\ version < row.target
    <3>1. Counting' => Counting /\ ~(version' > version + 1)
      BY <2>2, Zenon
    <3>2. Counting => conn[k].ver < row.target
      BY <1>0, <2>2 DEF AnswerInv
    <3> QED
      BY <1>0, <2>6, <2>7, <3>1, <3>2
  <2>9. CountInv' /\ PutInv'
    BY <1>0, <2>1, <2>2, <2>7, <2>8 DEF CountInv, PutInv, Free, Row
  <2>10. AnswerInv'
    BY <1>0, <2>1, <2>2, <2>3 DEF AnswerInv, Free
  <2>11. UpToDate'
    BY <1>0, <2>2, <2>5, <2>6, <2>7, <2>8 DEF UpToDate, AnswerInv, Row
  <2> QED
    BY <2>9, <2>10, <2>11
<1>5. ASSUME NEW k \in Conns, NotUpdated(k)
      PROVE  (CountInv /\ PutInv /\ AnswerInv /\ UpToDate)'
  <2>1. \A c \in Conns : conn'[c] = IF c = k THEN Free ELSE conn[c]
    BY <1>0, <1>5 DEF NotUpdated
  <2>2. version' = version /\ row' = row /\ haunted' = haunted /\ hot' = hot
    BY <1>5 DEF NotUpdated
  <2> QED
    BY <1>0, <2>1, <2>2 DEF CountInv, PutInv, AnswerInv, UpToDate, Free, Row
<1>6. ASSUME NEW k \in Conns, GiveUp(k)
      PROVE  (CountInv /\ PutInv /\ AnswerInv /\ UpToDate)'
  <2>1. \A c \in Conns :
            /\ conn'[c].pc = conn[c].pc /\ conn'[c].ver = conn[c].ver
            /\ conn'[c].reply = conn[c].reply
            /\ conn'[c].live => conn[c].live
    BY <1>0, <1>6 DEF GiveUp, Conn
  <2>2. version' = version /\ row' = row /\ haunted' = haunted /\ hot' = hot
    BY <1>6 DEF GiveUp
  <2> QED
    BY <1>0, <2>1, <2>2 DEF CountInv, PutInv, AnswerInv, UpToDate
<1>7. CASE Truncate
  BY <1>0, <1>7 DEF Truncate, CountInv, PutInv, AnswerInv, UpToDate
<1>8. CASE Fill
  BY <1>0, <1>8 DEF Fill, CountInv, PutInv, AnswerInv, UpToDate
<1>9. ASSUME NEW f \in Fields, Write(f)
      PROVE  (CountInv /\ PutInv /\ AnswerInv /\ UpToDate)'
  BY <1>0, <1>9 DEF Write, CountInv, PutInv, AnswerInv, UpToDate
<1>10. CASE Crash
  <2>1. \A c \in Conns :
            /\ conn'[c].pc = conn[c].pc /\ conn'[c].ver = conn[c].ver
            /\ conn'[c].reply = conn[c].reply /\ ~conn'[c].live
    BY <1>0, <1>10 DEF Crash, Conn
  <2>2. version' = 0 /\ row' = row /\ haunted' = haunted
    BY <1>10 DEF Crash
  <2> QED
    BY <1>0, <2>1, <2>2 DEF CountInv, PutInv, AnswerInv, UpToDate, Row
<1>11. ASSUME NEW k \in Conns, Register(k)
       PROVE  (CountInv /\ PutInv /\ AnswerInv /\ UpToDate)'
  <2>1. /\ conn[k].pc = "register"
        /\ version' = version /\ hot' = hot
        /\ \A c \in Conns :
            /\ conn'[c].pc = IF c = k THEN "row" ELSE conn[c].pc
            /\ conn'[c].ver = conn[c].ver /\ conn'[c].reply = conn[c].reply
            /\ conn'[c].live = conn[c].live
    BY <1>0, <1>11 DEF Register, Goto, Conn
  <2>2. CASE row # NoRow
    <3>1. row' = row /\ haunted' = haunted
      BY <1>11, <2>2 DEF Register
    <3> QED
      BY <1>0, <2>1, <3>1 DEF CountInv, PutInv, AnswerInv, UpToDate
  <2>3. CASE row = NoRow
    <3>0. haunted' = (version > 1 \/ \E c \in Conns : Echo(c))
      BY <1>11, <2>3 DEF Register
    <3>1. row'.config = NoConfig /\ row'.reported = 1 /\ row'.target = 1
      BY <1>11, <2>3 DEF Register
    <3>1a. ~haunted' => ~(version > 1) /\ \A c \in Conns : ~Echo(c)
      BY <3>0, Zenon
    <3>2. CountInv'
      BY <1>0, <2>1, <3>1, <3>1a DEF CountInv, Echo
    <3>3. PutInv'
      BY <3>1 DEF PutInv
    <3>4. AnswerInv'
      BY <1>0, <2>1, <3>1, <3>1a DEF AnswerInv, Echo
    <3>5. UpToDate'
      BY <3>1, NoneApplied DEF UpToDate
    <3> QED
      BY <3>2, <3>3, <3>4, <3>5
  <2> QED
    BY <2>2, <2>3
<1>12. ASSUME NEW k \in Conns, GetRow(k)
       PROVE  (CountInv /\ PutInv /\ AnswerInv /\ UpToDate)'
  <2>1. version' = version /\ row' = row /\ haunted' = haunted /\ hot' = hot
    BY <1>12 DEF GetRow
  <2>2. CASE row = NoRow
    <3>1. \A c \in Conns :
            /\ conn'[c].pc = IF c = k THEN "refused" ELSE conn[c].pc
            /\ conn'[c].ver = conn[c].ver /\ conn'[c].reply = conn[c].reply
            /\ conn'[c].live = conn[c].live
      BY <1>0, <1>12, <2>2 DEF GetRow, Goto, Conn
    <3> QED
      BY <1>0, <2>1, <3>1 DEF CountInv, PutInv, AnswerInv, UpToDate
  <2>3. CASE row # NoRow
    <3>1. \A c \in Conns :
            /\ conn'[c].pc = IF c = k THEN "welcome" ELSE conn[c].pc
            /\ conn'[c].ver = IF c = k THEN row.reported ELSE conn[c].ver
            /\ conn'[c].reply = IF c = k THEN row.config ELSE conn[c].reply
            /\ conn'[c].live = conn[c].live
      BY <1>0, <1>12, <2>3 DEF GetRow, Conn
    <3> QED
      BY <1>0, <2>1, <3>1 DEF CountInv, PutInv, AnswerInv, UpToDate, Row
  <2> QED
    BY <2>2, <2>3
<1>13. ASSUME NEW k \in Conns, SeeVersion(k)
       PROVE  (CountInv /\ PutInv /\ AnswerInv /\ UpToDate)'
  <2>1. version' = version /\ haunted' = haunted /\ hot' = hot /\ conn[k].pc = "beat"
    BY <1>13 DEF SeeVersion
  <2>2. \A c \in Conns :
            /\ conn'[c].pc = IF c = k THEN conn'[k].pc ELSE conn[c].pc
            /\ conn'[k].pc \in {"schema", "refused"}
            /\ conn'[c].ver = conn[c].ver /\ conn'[c].reply = conn[c].reply
            /\ conn'[c].live = conn[c].live
    BY <1>0, <1>13 DEF SeeVersion, Goto, Conn
  <2>3. CASE row = NoRow
    <3>1. row' = NoRow
      BY <1>13, <2>3 DEF SeeVersion
    <3> QED
      BY <1>0, <2>1, <2>2, <3>1 DEF CountInv, PutInv, AnswerInv, UpToDate
  <2>4. CASE row # NoRow
    <3>1. row' = [row EXCEPT !.reported = IF conn[k].ver > @ THEN conn[k].ver ELSE @]
      BY <1>13, <2>4 DEF SeeVersion
    <3>2. /\ row'.config = row.config /\ row'.target = row.target
          /\ row'.reported = row.reported \/ row'.reported = conn[k].ver
      BY <1>0, <2>4, <3>1 DEF Row
    <3> QED
      BY <1>0, <2>1, <2>2, <2>4, <3>2 DEF CountInv, PutInv, AnswerInv, UpToDate, Row
  <2> QED
    BY <2>3, <2>4
<1>14. ASSUME NEW k \in Conns, NEW t \in Tables, MergeSchema(k, t)
       PROVE  (CountInv /\ PutInv /\ AnswerInv /\ UpToDate)'
  <2>1. version' = version /\ row' = row /\ haunted' = haunted /\ hot' = hot
    BY <1>14 DEF MergeSchema
  <2>2. \A c \in Conns :
            /\ conn'[c].pc = conn[c].pc /\ conn'[c].ver = conn[c].ver
            /\ conn'[c].reply = conn[c].reply /\ conn'[c].live = conn[c].live
    BY <1>0, <1>14 DEF MergeSchema, Conn
  <2> QED
    BY <1>0, <2>1, <2>2 DEF CountInv, PutInv, AnswerInv, UpToDate
<1>15. ASSUME NEW k \in Conns, ShouldUpdate(k)
       PROVE  (CountInv /\ PutInv /\ AnswerInv /\ UpToDate)'
  <2>1. /\ version' = version /\ row' = row /\ haunted' = haunted /\ hot' = hot
        /\ conn[k].pc = "schema"
    BY <1>15 DEF ShouldUpdate
  <2>2. \A c \in Conns :
            /\ conn'[c].pc = IF c = k THEN conn'[k].pc ELSE conn[c].pc
            /\ conn'[k].pc \in {"get", "reply"}
            /\ conn'[k].pc = "get" => row # NoRow /\ row.target > conn[k].ver
            /\ conn'[c].ver = conn[c].ver /\ conn'[c].reply = conn[c].reply
            /\ conn'[c].live = conn[c].live
    BY <1>0, <1>15 DEF ShouldUpdate, Goto, Conn
  <2> QED
    BY <1>0, <2>1, <2>2 DEF CountInv, PutInv, AnswerInv, UpToDate, Row
<1>16. ASSUME NEW k \in Conns, GetConfig(k)
       PROVE  (CountInv /\ PutInv /\ AnswerInv /\ UpToDate)'
  <2>1. /\ version' = version /\ row' = row /\ haunted' = haunted /\ hot' = hot
        /\ conn[k].pc = "get"
    BY <1>16 DEF GetConfig
  <2>2. \A c \in Conns :
            /\ conn'[c].pc = IF c = k THEN "reply" ELSE conn[c].pc
            /\ conn'[c].ver = conn[c].ver /\ conn'[c].live = conn[c].live
            /\ conn'[c].reply = IF c # k THEN conn[c].reply
                                ELSE IF row = NoRow THEN NoConfig ELSE row.config
    BY <1>0, <1>16 DEF GetConfig, Conn
  <2> QED
    BY <1>0, <2>1, <2>2 DEF CountInv, PutInv, AnswerInv, UpToDate, Row
<1>17. ASSUME NEW k \in Conns, Drop(k)
      PROVE  (CountInv /\ PutInv /\ AnswerInv /\ UpToDate)'
  <2>1. \A c \in Conns : conn'[c] = IF c = k THEN Free ELSE conn[c]
    BY <1>0, <1>17 DEF Drop
  <2>2. version' = version /\ row' = row /\ haunted' = haunted /\ hot' = hot
    BY <1>17 DEF Drop
  <2> QED
    BY <1>0, <2>1, <2>2 DEF CountInv, PutInv, AnswerInv, UpToDate, Free, Row
<1>18. ASSUME NEW x \in Configs \cup {NoConfig}, Put(x)
       PROVE  (CountInv /\ PutInv /\ AnswerInv /\ UpToDate)'
  <2>1. /\ version' = version /\ haunted' = haunted /\ conn' = conn /\ row # NoRow
        /\ row'.reported = row.reported /\ row'.target = row.target + 1
    BY <1>0, <1>18 DEF Put, Row
  <2> QED
    BY <1>0, <2>1 DEF CountInv, PutInv, AnswerInv, UpToDate, Row
<1>19. CASE Delete
  BY <1>0, <1>19 DEF Delete, CountInv, PutInv, AnswerInv, UpToDate
<1>20. CASE UNCHANGED vars
  BY <1>0, <1>20 DEF vars, CountInv, PutInv, AnswerInv, UpToDate
<1> QED
  BY <1>1, <1>2, <1>3, <1>4, <1>5, <1>6, <1>7, <1>8, <1>9, <1>10, <1>11, <1>12, <1>13, <1>14, <1>15, <1>16, <1>17, <1>18, <1>19, <1>20 DEF Next, Answer, Serve

-----------------------------------------------------------------------------
(* The inductive invariant holds in every reachable state: run_agent's and the
   handlers' counting never gets ahead of the puts. *)
THEOREM SyncInvariant == Spec => []IInv
<1>1. Init => IInv
  BY TypeInit, InvInit DEF IInv
<1>2. IInv /\ [Next]_vars => IInv'
  BY TypeStep, InvStep DEF IInv
<1> QED
  BY <1>1, <1>2, PTL DEF Spec

(* An agent that the server sends no more updates has the settings that were
   put last, whatever was lost, late or restarted; as long as both count from the
   same row, and no configuration's "version" took the agent ahead. *)
THEOREM AgentUpToDate == Spec => []UpToDate
<1>1. IInv => UpToDate
  BY DEF IInv
<1> QED
  BY <1>1, SyncInvariant, PTL

-----------------------------------------------------------------------------
(* The cache *)

LEMMA CacheInit == Init => CacheInv
BY DEF Init, CacheInv, Free

LEMMA CacheStep == TypeOK /\ CacheInv /\ [Next]_vars => CacheInv'
<1> SUFFICES ASSUME TypeOK, CacheInv, [Next]_vars PROVE CacheInv'
  OBVIOUS
<1> USE DEF serverVars, agentVars, cacheVars, bounds
<1>0. /\ conn \in [Conns -> Conn]
      /\ \A i, j \in Conns : conn[i].live /\ conn[j].live => i = j
  BY DEF TypeOK
<1>1. ASSUME NEW k \in Conns, NEW replayed \in SUBSET schema, Boot(k, replayed)
      PROVE  CacheInv'
  BY <1>1 DEF Boot, CacheInv
<1>2. ASSUME NEW k \in Conns, Registered(k) PROVE CacheInv'
  <2>1. \A c \in Conns : ~conn'[c].live
    BY <1>0, <1>2 DEF Registered, Answered, Free
  <2> QED
    BY <1>2, <2>1 DEF Registered, CacheInv
<1>3. ASSUME NEW k \in Conns, Heartbeat(k) PROVE CacheInv'
  BY <1>3 DEF Heartbeat, CacheInv
<1>4. ASSUME NEW k \in Conns, Updated(k) PROVE CacheInv'
  <2>1. \A c \in Conns : ~conn'[c].live
    BY <1>0, <1>4 DEF Updated, Answered, Free
  <2>2. ~cut => cache = told
    BY <1>4 DEF Updated, Answered, CacheInv
  <2>3. ~cut' => draft' = told'
    BY <1>4, <2>2 DEF Updated
  <2>4. agent' = "save"
    BY <1>4 DEF Updated
  <2> QED
    BY <2>1, <2>3, <2>4 DEF CacheInv
<1>5. ASSUME NEW k \in Conns, NotUpdated(k) PROVE CacheInv'
  <2>1. \A c \in Conns : ~conn'[c].live
    BY <1>0, <1>5 DEF NotUpdated, Free
  <2> QED
    BY <1>5, <2>1 DEF NotUpdated, CacheInv
<1>6. ASSUME NEW k \in Conns, GiveUp(k) PROVE CacheInv'
  <2>1. \A c \in Conns : ~conn'[c].live
    BY <1>0, <1>6 DEF GiveUp, Conn
  <2> QED
    BY <1>6, <2>1 DEF GiveUp, CacheInv
<1>7. CASE Truncate
  BY <1>7 DEF Truncate, CacheInv
<1>8. CASE Fill
  BY <1>8 DEF Fill, CacheInv
<1>9. ASSUME NEW f \in Fields, Write(f) PROVE CacheInv'
  BY <1>9 DEF Write, CacheInv
<1>10. CASE Crash
  <2>1. \A c \in Conns : ~conn'[c].live
    BY <1>0, <1>10 DEF Crash, Conn
  <2> QED
    BY <1>10, <2>1 DEF Crash, CacheInv
<1>11. ASSUME NEW k \in Conns, Serve(k) PROVE CacheInv'
  <2>1. UNCHANGED agentVars
    BY <1>11 DEF Serve, Register, GetRow, SeeVersion, MergeSchema, ShouldUpdate, GetConfig
  <2>2. \A c \in Conns : conn'[c].live = conn[c].live
    <3>1. CASE Register(k) \/ SeeVersion(k) \/ ShouldUpdate(k)
      BY <1>0, <3>1 DEF Register, SeeVersion, ShouldUpdate, Goto, Conn
    <3>2. CASE GetRow(k) \/ GetConfig(k)
      BY <1>0, <3>2 DEF GetRow, GetConfig, Goto, Conn
    <3>3. ASSUME NEW t \in Tables, MergeSchema(k, t)
          PROVE  \A c \in Conns : conn'[c].live = conn[c].live
      BY <1>0, <3>3 DEF MergeSchema, Conn
    <3> QED
      BY <1>11, <3>1, <3>2, <3>3 DEF Serve
  <2> QED
    BY <2>1, <2>2 DEF CacheInv
<1>12. ASSUME NEW k \in Conns, Drop(k) PROVE CacheInv'
  <2>1. \A c \in Conns : conn'[c].live => conn[c].live
    BY <1>0, <1>12 DEF Drop, Free
  <2> QED
    BY <1>12, <2>1 DEF Drop, CacheInv
<1>13. ASSUME NEW c \in Configs \cup {NoConfig}, Put(c) PROVE CacheInv'
  BY <1>13 DEF Put, CacheInv
<1>14. CASE Delete
  BY <1>14 DEF Delete, CacheInv
<1>15. CASE UNCHANGED vars
  BY <1>15 DEF vars, CacheInv
<1> QED
  BY <1>1, <1>2, <1>3, <1>4, <1>5, <1>6, <1>7, <1>8, <1>9, <1>10, <1>11, <1>12, <1>13, <1>14, <1>15 DEF Next, Answer

(* run_agent without an answer to its registration runs with what the cache
   kept of all that the server told the agent before. *)
THEOREM FallbackIsKept == Spec => []FallbackKept
<1>1. Init => TypeOK /\ CacheInv
  BY TypeInit, CacheInit
<1>2. TypeOK /\ CacheInv /\ [Next]_vars => (TypeOK /\ CacheInv)'
  BY TypeStep, CacheStep
<1>3. CacheInv => FallbackKept
  BY DEF CacheInv, FallbackKept
<1> QED
  BY <1>1, <1>2, <1>3, PTL DEF Spec

-----------------------------------------------------------------------------
(* The reports *)

Reporting == ReportInv /\ ReportKnown

LEMMA ReportStep == TypeOK /\ Reporting /\ [Next]_vars => Reporting'
<1> SUFFICES ASSUME TypeOK, Reporting, [Next]_vars PROVE Reporting'
  OBVIOUS
<1> USE DEF serverVars, agentVars, cacheVars, bounds, Serving
<1>0. /\ conn \in [Conns -> Conn]
      /\ \A i, j \in Conns : conn[i].live /\ conn[j].live => i = j
      /\ ReportInv /\ ReportKnown
  BY DEF TypeOK, Reporting
<1>1. ASSUME NEW k \in Conns, NEW replayed \in SUBSET schema, Boot(k, replayed)
      PROVE  Reporting'
  <2>1. \A c \in Conns : ~conn[c].live
    BY <1>1 DEF Boot, TypeOK
  <2>2. \A c \in Conns : conn'[c].live => c = k
    BY <1>0, <1>1, <2>1 DEF Boot
  <2>3. conn'[k].pc = "register" /\ conn'[k].report = {}
    BY <1>0, <1>1 DEF Boot, Free
  <2>4. last' = {}
    BY <1>1 DEF Boot
  <2> QED
    BY <2>2, <2>3, <2>4 DEF Reporting, ReportInv, ReportKnown
<1>2. ASSUME NEW k \in Conns, Registered(k) \/ Updated(k) \/ NotUpdated(k)
      PROVE  Reporting'
  <2>1. \A c \in Conns : conn'[c] = IF c = k THEN Free ELSE conn[c]
    BY <1>0, <1>2 DEF Registered, Updated, NotUpdated
  <2>2. UNCHANGED <<known, mapped, last, missed>>
    BY <1>2 DEF Registered, Updated, NotUpdated
  <2>3. conn[k].live /\ conn[k].pc \in {"welcome", "reply", "refused"}
    BY <1>2 DEF Registered, Updated, NotUpdated, Answered
  <2>4. conn[k].report \subseteq missed
    BY <1>0, <2>3 DEF ReportInv
  <2>5. ReportInv'
    BY <1>0, <2>1, <2>2 DEF ReportInv, Free
  <2>6. ReportKnown'
    BY <1>0, <2>1, <2>2, <2>4 DEF ReportKnown
  <2> QED
    BY <2>5, <2>6 DEF Reporting
<1>3. ASSUME NEW k \in Conns, Heartbeat(k) PROVE Reporting'
  <2> DEFINE report == SchemaChanges
  <2>1. \A c \in Conns : ~conn[c].live
    BY <1>3 DEF Heartbeat
  <2>2. /\ conn'[k].pc = "beat" /\ conn'[k].report = report /\ conn'[k].live
        /\ \A c \in Conns \ {k} : conn'[c] = conn[c]
    BY <1>0, <1>3 DEF Heartbeat, Free
  <2>3. last' = schema /\ missed' = missed \ report /\ UNCHANGED <<known, mapped>>
    BY <1>3 DEF Heartbeat
  <2>4. ReportInv'
    BY <2>1, <2>2 DEF ReportInv
  <2>5. ASSUME NEW f \in last' \ missed', f \notin report
        PROVE  f \in known /\ TableOf[f] \in mapped
    <3>1. f \in last
      BY <2>3, <2>5 DEF SchemaChanges
    <3>2. f \notin missed
      BY <2>3, <2>5
    <3> QED
      BY <1>0, <2>1, <3>1, <3>2 DEF ReportKnown
  <2>6. ReportKnown'
    BY <2>2, <2>3, <2>5 DEF ReportKnown
  <2> QED
    BY <2>4, <2>6 DEF Reporting
<1>4. ASSUME NEW k \in Conns, GiveUp(k) PROVE Reporting'
  <2>1. \A c \in Conns : ~conn'[c].live
    BY <1>0, <1>4 DEF GiveUp, Conn
  <2>2. \A c \in Conns : conn[c].live => c = k
    BY <1>0, <1>4 DEF GiveUp
  <2>3. missed' = missed \cup conn[k].report /\ UNCHANGED <<known, mapped, last>>
    BY <1>4 DEF GiveUp
  <2>4. ReportKnown'
    BY <1>0, <2>2, <2>3 DEF ReportKnown
  <2> QED
    BY <2>1, <2>4 DEF Reporting, ReportInv
<1>5. CASE Truncate \/ Fill \/ \E f \in Fields : Write(f)
  <2>1. UNCHANGED <<known, mapped, last, missed, conn>>
    BY <1>5 DEF Truncate, Fill, Write
  <2> QED
    BY <1>0, <2>1 DEF Reporting, ReportInv, ReportKnown
<1>6. CASE Crash
  <2>1. \A c \in Conns : ~conn'[c].live
    BY <1>0, <1>6 DEF Crash, Conn
  <2>2. last' = {}
    BY <1>6 DEF Crash
  <2> QED
    BY <2>1, <2>2 DEF Reporting, ReportInv, ReportKnown
<1>7. ASSUME NEW k \in Conns, Register(k) \/ GetRow(k) \/ ShouldUpdate(k) \/ GetConfig(k)
      PROVE  Reporting'
  <2>1. UNCHANGED <<known, mapped, last, missed>>
    BY <1>7 DEF Register, GetRow, ShouldUpdate, GetConfig
  <2>2. \A c \in Conns :
            /\ c # k => conn'[c].pc = conn[c].pc
            /\ conn'[c].report = conn[c].report /\ conn'[c].live = conn[c].live
    <3>1. CASE Register(k) \/ ShouldUpdate(k)
      BY <1>0, <3>1 DEF Register, ShouldUpdate, Goto, Conn
    <3>2. CASE GetRow(k) \/ GetConfig(k)
      BY <1>0, <3>2 DEF GetRow, GetConfig, Goto, Conn
    <3> QED
      BY <1>7, <3>1, <3>2
  <2>3. conn[k].live => conn[k].report = {}
    BY <1>0, <1>7 DEF Register, GetRow, ShouldUpdate, GetConfig, ReportInv
  <2>4. ReportInv'
    BY <1>0, <2>1, <2>2, <2>3 DEF ReportInv
  <2>5. ReportKnown'
    BY <1>0, <2>1, <2>2 DEF ReportKnown
  <2> QED
    BY <2>4, <2>5 DEF Reporting
<1>8. ASSUME NEW k \in Conns, SeeVersion(k) PROVE Reporting'
  <2>1. /\ conn'[k].pc \in {"schema", "refused"}
        /\ \A c \in Conns \ {k} : conn'[c].pc = conn[c].pc
        /\ \A c \in Conns : conn'[c].report = conn[c].report /\ conn'[c].live = conn[c].live
    BY <1>0, <1>8 DEF SeeVersion, Goto, Conn
  <2>2. /\ missed \subseteq missed' /\ UNCHANGED <<known, mapped, last>>
        /\ conn'[k].pc = "refused" => conn[k].report \subseteq missed'
    BY <1>0, <1>8 DEF SeeVersion, Goto, Conn
  <2>3. ReportInv'
    BY <1>0, <2>1, <2>2 DEF ReportInv
  <2>4. ReportKnown'
    BY <1>0, <2>1, <2>2 DEF ReportKnown
  <2> QED
    BY <2>3, <2>4 DEF Reporting
<1>9. ASSUME NEW k \in Conns, NEW t \in Tables, MergeSchema(k, t) PROVE Reporting'
  <2> DEFINE its == FieldsOf(t, conn[k].report)
  <2>1. \A c \in Conns :
            /\ conn'[c].pc = conn[c].pc /\ conn'[c].live = conn[c].live
            /\ conn'[c].report = IF c = k THEN conn[c].report \ its ELSE conn[c].report
    BY <1>0, <1>9 DEF MergeSchema, Conn
  <2>2. /\ missed \subseteq missed' /\ known \subseteq known' /\ mapped \subseteq mapped'
        /\ last' = last
        /\ \A f \in its : f \in missed' \/ (f \in known' /\ TableOf[f] \in mapped')
    <3>1. \A f \in its : TableOf[f] = t
      BY DEF FieldsOf
    <3>2. /\ last' = last
          /\ \/ /\ its \subseteq missed' /\ missed \subseteq missed'
                /\ known' = known /\ mapped' = mapped
             \/ /\ its \subseteq known' /\ t \in mapped' /\ missed' = missed
                /\ known \subseteq known' /\ mapped \subseteq mapped'
      BY <1>9 DEF MergeSchema
    <3> QED
      BY <3>1, <3>2
  <2>3. ReportInv'
    <3>1. conn[k].pc = "schema"
      BY <1>9 DEF MergeSchema
    <3> QED
      BY <1>0, <2>1, <2>2, <3>1 DEF ReportInv
  <2>4. ReportKnown'
    BY <1>0, <2>1, <2>2 DEF ReportKnown
  <2> QED
    BY <2>3, <2>4 DEF Reporting
<1>10. ASSUME NEW k \in Conns, Drop(k) PROVE Reporting'
  <2>1. /\ \A c \in Conns \ {k} : conn'[c] = conn[c]
        /\ ~conn[k].live /\ ~conn'[k].live
    BY <1>0, <1>10 DEF Drop, Free
  <2>2. UNCHANGED <<known, mapped, last, missed>>
    BY <1>10 DEF Drop
  <2>3. \A c \in Conns : conn[c].live => conn'[c] = conn[c]
    BY <2>1
  <2>4. \A c \in Conns : conn'[c].live => conn'[c] = conn[c]
    BY <2>1
  <2> QED
    BY <1>0, <2>2, <2>3, <2>4 DEF Reporting, ReportInv, ReportKnown
<1>11. CASE (\E c \in Configs \cup {NoConfig} : Put(c)) \/ Delete \/ UNCHANGED vars
  <2>1. conn' = conn /\ known' = known /\ last' = last
    BY <1>11 DEF Put, Delete, vars
  <2>2. missed \subseteq missed' /\ (mapped' = mapped \/ last \subseteq missed')
    BY <1>11 DEF Put, Delete, vars
  <2> QED
    BY <1>0, <2>1, <2>2 DEF Reporting, ReportInv, ReportKnown
<1> QED
  BY <1>1, <1>2, <1>3, <1>4, <1>5, <1>6, <1>7, <1>8, <1>9, <1>10, <1>11 DEF Next, Answer, Serve

(* What compute_schema_changes takes for reported is in the server's catalog, or
   on its way, or its report failed. *)
THEOREM ReportIsKnown == Spec => []ReportKnown
<1>1. Init => TypeOK /\ Reporting
  BY TypeInit DEF Init, Reporting, ReportInv, ReportKnown, Free
<1>2. TypeOK /\ Reporting /\ [Next]_vars => (TypeOK /\ Reporting)'
  BY TypeStep, ReportStep
<1>3. Reporting => ReportKnown
  BY DEF Reporting
<1> QED
  BY <1>1, <1>2, <1>3, PTL DEF Spec
=============================================================================
