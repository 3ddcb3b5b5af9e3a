--------------------------- MODULE FileChecksProofs ---------------------------
(***************************************************************************)
(* The safety of FileChecks, for any errors, chunk sizes, ages and any   *)
(* number of rotations, restarts and failures.                             *)
(***************************************************************************)
EXTENDS FileChecks, TLAPS, WellFoundedInduction

(* A chunk holds data between the read and the end of the execution only,   *)
(* and a result with patterns comes from that data.                         *)
ChunkIsRead ==
  /\ chunk.from <= chunk.upto
  /\ pc \notin {"read", "saved", "matched"} => chunk.from = 0 /\ chunk.upto = 0
  /\ pc # "matched" => out.found = {}
  /\ out.found \subseteq Found
  /\ pc \in {"identified", "measured"} => log.known

(* What is known of a log: files are numbered upwards, an unknown log was   *)
(* not read, and a position was counted in no older file than it names.     *)
CountsIn(l, c) == /\ l.id <= file.id /\ c.id <= file.id
                  /\ ~l.known => l.offset = 0
                  /\ l.offset > 0 => l.id <= c.id

(* A position l, counted in the file c, has passed only errors that are     *)
(* accounted for, or are among `more'; one it stands in is a border.        *)
Accounted == reported \cup undelivered \cup borders \cup overshadowed

Covers(l, c, more) ==
  /\ ~skipped /\ l.id = c.id => Within(c.start, c.start + l.offset) \subseteq Accounted \cup more
  /\ l.offset > 0 /\ c.start + l.offset \in Errors => c.start + l.offset \in borders

(* An overshadowed error is represented by one of its group.                *)
Shadows == \A e \in overshadowed : \E f \in reported \cup undelivered : Before(f, e)

Stored == IF pc \in {"saved", "matched"} THEN Found ELSE {}

Positions == /\ CountsIn(log, counted.memory) /\ CountsIn(logState, counted.store)
             /\ Covers(log, counted.memory, Found)
             /\ Covers(logState, counted.store, Stored)

(* The pattern e lies before the place from which l makes the check read:   *)
(* in an earlier file or before a truncation, or before the offset.         *)
Passed(e, l) ==
  \/ e + 1 <= file.start
  \/ /\ l.known /\ l.id = file.id
     /\ e + 1 <= file.start + l.offset
     /\ file.start + l.offset <= written

ReadOnce ==
  ~swapped =>
    /\ \A e \in reported : e + 1 <= written /\ Passed(e, log) /\ Passed(e, logState)
    /\ \A e \in Found : e + 1 <= written /\ \A d \in reported : d + 1 <= chunk.from
    /\ pc \in {"read", "saved"} => \A e \in Found : Passed(e, log)
    /\ pc = "saved" => \A e \in Found : Passed(e, logState)
    /\ \A e \in out.found : Passed(e, log) /\ Passed(e, logState)

(* What FileActivityCheck knows of the file, in memory and stored, is what  *)
(* it last told, as long as no result was lost.                             *)
Knows(a) == told # Never => a.known /\ a.size = told

ActivityTold ==
  /\ kind = "log" => ~act.known /\ ~actState.known /\ pc # "judged" /\ out.size = Never
  /\ pc = "judged" \/ (pc = "matched" /\ out.size # Never) => act.known /\ act.size = out.size
  /\ pc = "matched" /\ out.size # Never => actState = act
  /\ pc \notin {"judged", "matched"} => out.size = Never
  /\ ~missed => /\ Knows(actState) \/ (pc = "matched" /\ out.size # Never)
                /\ Knows(act) \/ pc = "judged" \/ (pc = "matched" /\ out.size # Never)

(* Since when it knows the size, the file has not changed.                  *)
SinceIsTrue ==
  /\ changedAt <= now /\ act.since <= now /\ actState.since <= now
  /\ act.known /\ ~touched /\ ~fooled => changedAt <= act.since

Watching == /\ TypeOK /\ ChunkIsRead /\ Positions /\ Shadows /\ ReadOnce
            /\ ActivityTold /\ SinceIsTrue
-------------------------------------------------------------------------------
(* Every next-state step is one of these; the case split of the proofs.     *)
LEMMA NextCases ==
  ASSUME [Next]_vars
  PROVE  \/ Append \/ Truncate \/ Remove \/ Create \/ Tick
         \/ Start \/ LogFileMissing \/ Identify \/ Measure \/ ReadData \/ SaveLog \/ Match
         \/ ActivityCancelled \/ ActivityFileMissing \/ Judge \/ SaveActivity
         \/ Finish \/ SaveFails \/ GiveUp \/ Crash \/ UNCHANGED vars
BY DEF Next, Environment, Step, LogStep, ActivityStep

(* Patterns on a stretch are on its parts, or stand across the border.      *)
LEMMA WithinFacts ==
  /\ \A a, b, c \in Nat : Within(a, c) \subseteq Within(a, b) \cup Within(b, c) \cup ({b} \cap Errors)
  /\ \A a, b \in Nat : Within(a, b) \subseteq Errors
  /\ \A a \in Nat : Within(a, a) = {}
<1>1. Errors \subseteq Nat
  BY CheckAssumption
<1>2. ASSUME NEW a \in Nat, NEW b \in Nat, NEW c \in Nat, NEW e \in Within(a, c)
      PROVE  e \in Within(a, b) \cup Within(b, c) \cup ({b} \cap Errors)
  <2>1. e \in Errors /\ e \in Nat /\ a < e /\ e + 1 <= c
    BY <1>1, <1>2 DEF Within
  <2>2. e + 1 <= b \/ b < e \/ e = b
    BY <2>1
  <2>. QED
    BY <2>1, <2>2 DEF Within
<1>3. \A a \in Nat : Within(a, a) = {}
  <2>1. ASSUME NEW a \in Nat, NEW e \in Within(a, a) PROVE FALSE
    BY <1>1 DEF Within
  <2>. QED
    BY <2>1
<1>4. \A a, b \in Nat : Within(a, b) \subseteq Errors
  BY DEF Within
<1>5. \A a, b, c \in Nat : Within(a, c) \subseteq Within(a, b) \cup Within(b, c) \cup ({b} \cap Errors)
  BY <1>2
<1>. QED
  BY <1>3, <1>4, <1>5

(* What a read takes lies between the offset and the end of the file.       *)
LEMMA DataFacts ==
  ASSUME TypeOK
  PROVE  /\ Data.from = file.start + log.offset
         /\ Data.take = chunk.take
         /\ Data \in [take : Nat, from : Nat, upto : Nat]
         /\ Data.upto >= Data.from
         /\ Data.upto > Data.from => file.present /\ Data.upto <= written
<1>1. /\ file.start \in Nat /\ log.offset \in Nat /\ chunk.take \in Nat /\ written \in Nat
      /\ chunk \in [take : Nat, from : Nat, upto : Nat] /\ file.present \in BOOLEAN
  BY DEF TypeOK, Files
<1>. DEFINE left == IF file.present /\ Size > log.offset THEN Size - log.offset ELSE 0
<1>2. left \in Nat /\ (left > 0 => file.present /\ file.start + log.offset + left <= written)
  BY <1>1 DEF Size
<1>3. /\ Least(chunk.take, left) \in Nat /\ Least(chunk.take, left) <= left
  BY <1>1, <1>2 DEF Least
<1>4. Data = [chunk EXCEPT !.from = file.start + log.offset,
                            !.upto = file.start + log.offset + Least(chunk.take, left)]
  BY DEF Data
<1>. HIDE DEF left
<1>5. /\ Data.from = file.start + log.offset
      /\ Data.upto = file.start + log.offset + Least(chunk.take, left)
      /\ Data.take = chunk.take
      /\ Data \in [take : Nat, from : Nat, upto : Nat]
  <2>. DEFINE n == Least(chunk.take, left)
  <2>1. n \in Nat /\ file.start + log.offset \in Nat /\ file.start + log.offset + n \in Nat
    BY <1>1, <1>3
  <2>2. Data = [chunk EXCEPT !.from = file.start + log.offset,
                              !.upto = file.start + log.offset + n]
    BY <1>4
  <2>. HIDE DEF n
  <2>3. /\ Data.from = file.start + log.offset
        /\ Data.upto = file.start + log.offset + n
        /\ Data.take = chunk.take
        /\ Data \in [take : Nat, from : Nat, upto : Nat]
    BY <1>1, <2>1, <2>2
  <2>. QED
    BY <2>3 DEF n
<1>. QED
  BY <1>1, <1>2, <1>3, <1>5

(* The offset that Measure starts from is within the file.                  *)
LEMMA MeasuredFacts ==
  ASSUME TypeOK
  PROVE  /\ Measured \in [known : BOOLEAN, id : Nat, offset : Nat]
         /\ Measured.known = log.known /\ Measured.id = log.id
         /\ Measured.offset \in {0, log.offset}
         /\ Measured.offset <= Size
         /\ Least(Size - Measured.offset, MaxRead) \in Nat
<1>1. /\ file.start \in Nat /\ written \in Nat /\ file.start <= written
      /\ log \in [known : BOOLEAN, id : Nat, offset : Nat]
  BY DEF TypeOK, Files
<1>2. /\ Measured \in [known : BOOLEAN, id : Nat, offset : Nat]
      /\ Measured.known = log.known /\ Measured.id = log.id
      /\ Measured.offset = IF Size < log.offset THEN 0 ELSE log.offset
  BY <1>1 DEF Measured
<1>. QED
  BY <1>1, <1>2, CheckAssumption DEF Size, Least
-------------------------------------------------------------------------------
(* The types hold when the check starts for the first time.                 *)
LEMMA TypeInit == Init => TypeOK
<1>. SUFFICES ASSUME Init PROVE TypeOK
  OBVIOUS
<1>1. file \in Files /\ file.start = 0 /\ written = 0
  BY DEF Init, Files
<1>2. counted \in [memory : Files, store : Files]
  BY <1>1 DEF Init
<1>3. /\ NoLog \in [known : BOOLEAN, id : Nat, offset : Nat]
      /\ NoAct \in [known : BOOLEAN, size : Nat, since : Nat]
      /\ NoChunk \in [take : Nat, from : Nat, upto : Nat]
      /\ Unknown \in [status : {"ok", "warning", "critical", "unknown"},
                      size : Nat \cup {Never}, shrunk : BOOLEAN, found : SUBSET Errors]
  BY DEF NoLog, NoAct, NoChunk, Unknown, Result
<1>4. /\ log = NoLog /\ logState = NoLog /\ act = NoAct /\ actState = NoAct
      /\ chunk = NoChunk /\ out = Unknown /\ kind \in {"log", "activity"}
      /\ now = 0 /\ changedAt = 0 /\ faults = 0 /\ pc = "idle" /\ told = Never
  BY DEF Init
<1>5. /\ stop = FALSE /\ skipped = FALSE /\ swapped = FALSE /\ missed = FALSE
      /\ touched = FALSE /\ fooled = FALSE
      /\ reported = {} /\ undelivered = {} /\ borders = {} /\ overshadowed = {}
  BY DEF Init
<1>6. {log, logState} \subseteq [known : BOOLEAN, id : Nat, offset : Nat]
  BY <1>3, <1>4
<1>7. {act, actState} \subseteq [known : BOOLEAN, size : Nat, since : Nat]
  BY <1>3, <1>4
<1>8. {skipped, swapped, missed, touched, fooled} \subseteq BOOLEAN /\ stop \in BOOLEAN
  BY <1>5
<1>9. /\ chunk \in [take : Nat, from : Nat, upto : Nat]
      /\ out \in [status : {"ok", "warning", "critical", "unknown"},
                  size : Nat \cup {Never}, shrunk : BOOLEAN, found : SUBSET Errors]
  BY <1>3, <1>4
<1>10. /\ now \in Nat /\ changedAt \in Nat /\ faults \in Nat /\ written \in Nat
       /\ file.start <= written /\ told \in Nat \cup {Never}
  BY <1>1, <1>4
<1>11. /\ reported \subseteq Errors /\ undelivered \subseteq Errors
       /\ borders \subseteq Errors /\ overshadowed \subseteq Errors
  BY <1>5
<1>. QED
  BY <1>1, <1>2, <1>4, <1>6, <1>7, <1>8, <1>9, <1>10, <1>11 DEF TypeOK

(* The types hold after every step.                                         *)
LEMMA TypeStep == TypeOK /\ [Next]_vars => TypeOK'
<1>. SUFFICES ASSUME TypeOK, [Next]_vars PROVE TypeOK'
  OBVIOUS
<1>. USE DEF TypeOK, Files, env, memory, stored, logGhosts, actGhosts, Same
<1>a. /\ Unknown \in [status : {"ok", "warning", "critical", "unknown"},
                      size : Nat \cup {Never}, shrunk : BOOLEAN, found : SUBSET Errors]
      /\ NoChunk \in [take : Nat, from : Nat, upto : Nat]
  BY DEF Unknown, Result, Never, NoChunk
<1>b. Found \subseteq Errors /\ Named \subseteq Errors
  BY WithinFacts DEF Found, Named
<1>c. Size \in Nat
  BY DEF Size
<1>1. CASE Append
  BY <1>1 DEF Append, Changed
<1>2. CASE Truncate
  BY <1>2 DEF Truncate, Changed
<1>3. CASE Remove
  <2>1. file' \in Files /\ file'.start = file.start
    BY <1>3 DEF Remove
  <2>. QED
    BY <1>3, <2>1 DEF Remove, Changed
<1>4. CASE Create
  BY <1>4 DEF Create, Changed
<1>5. CASE Tick
  BY <1>5 DEF Tick
<1>6. CASE Start
  BY <1>6 DEF Start
<1>7. CASE LogFileMissing
  BY <1>7 DEF LogFileMissing, Ends, Result
<1>8. CASE Identify
  BY <1>8 DEF Identify, Identified
<1>9. CASE Measure
  BY <1>9, <1>a, MeasuredFacts DEF Measure, Ends, NoChunk
<1>10. CASE ReadData
  <2>1. borders' \subseteq Errors /\ overshadowed' \subseteq Errors
    BY <1>10 DEF ReadData
  <2>2. /\ log' \in [known : BOOLEAN, id : Nat, offset : Nat]
        /\ chunk' \in [take : Nat, from : Nat, upto : Nat]
    BY <1>10, DataFacts DEF ReadData
  <2>3. counted' \in [memory : Files, store : Files] /\ skipped' \in BOOLEAN
        /\ swapped' \in BOOLEAN
    BY <1>10 DEF ReadData
  <2>. QED
    BY <1>10, <2>1, <2>2, <2>3 DEF ReadData
<1>11. CASE SaveLog
  BY <1>11 DEF SaveLog, save_log_state
<1>12. CASE Match
  BY <1>12, <1>a, <1>b DEF Match, Ends, Result
<1>13. CASE ActivityCancelled
  BY <1>13, <1>a DEF ActivityCancelled, Ends
<1>14. CASE ActivityFileMissing
  <2>1. out' \in {Result("critical", Never, FALSE, {}), Unknown} /\ pc' = "matched"
    BY <1>14 DEF ActivityFileMissing, Ends
  <2>2. out' \in [status : {"ok", "warning", "critical", "unknown"},
                  size : Nat \cup {Never}, shrunk : BOOLEAN, found : SUBSET Errors]
    <3>1. Result("critical", Never, FALSE, {}) \in
            [status : {"ok", "warning", "critical", "unknown"},
             size : Nat \cup {Never}, shrunk : BOOLEAN, found : SUBSET Errors]
      BY DEF Result
    <3>. QED
      BY <2>1, <3>1, <1>a
  <2>. QED
    BY <1>14, <2>1, <2>2 DEF ActivityFileMissing
<1>15. CASE Judge
  <2>1. Since \in Nat /\ Shrunk \in BOOLEAN
    BY <1>c DEF Since, Shrunk
  <2>2. Judgement \in {"ok", "warning", "critical"}
    BY DEF Judgement
  <2>3. act' \in [known : BOOLEAN, size : Nat, since : Nat]
    BY <1>15, <1>c, <2>1 DEF Judge
  <2>4. out' \in [status : {"ok", "warning", "critical", "unknown"},
                  size : Nat \cup {Never}, shrunk : BOOLEAN, found : SUBSET Errors]
    BY <1>15, <1>c, <2>1, <2>2 DEF Judge, Result
  <2>5. fooled' \in BOOLEAN /\ touched' \in BOOLEAN /\ pc' = "judged"
    BY <1>15 DEF Judge
  <2>. QED
    BY <1>15, <2>3, <2>4, <2>5 DEF Judge
<1>16. CASE SaveActivity
  BY <1>16 DEF SaveActivity, save_file_state
<1>17. CASE Finish
  BY <1>17, <1>a, <1>b DEF Finish, Deliver, Drop, Observed
<1>18. CASE SaveFails
  BY <1>18, <1>a DEF SaveFails, Ends
<1>19. CASE GiveUp
  BY <1>19 DEF GiveUp
<1>20. CASE Crash
  <2>1. {log', logState'} \subseteq [known : BOOLEAN, id : Nat, offset : Nat]
    BY <1>20 DEF Crash, load_log_state
  <2>2. {act', actState'} \subseteq [known : BOOLEAN, size : Nat, since : Nat]
    BY <1>20 DEF Crash, load_file_state
  <2>3. /\ counted' \in [memory : Files, store : Files]
        /\ undelivered' \subseteq Errors
        /\ faults' \in Nat
    BY <1>20, <1>b DEF Crash
  <2>4. missed' \in BOOLEAN /\ touched' \in BOOLEAN
    <3>1. touched \in BOOLEAN /\ missed \in BOOLEAN
      OBVIOUS
    <3>2. touched' = (touched \/ act # actState) /\ missed' = (missed \/ Observed)
      BY <1>20 DEF Crash
    <3>3. Observed \in BOOLEAN
      BY DEF Observed
    <3>. QED
      BY <3>1, <3>2, <3>3
  <2>5. chunk' = NoChunk /\ out' = Unknown /\ pc' = "idle" /\ stop' = FALSE
    BY <1>20 DEF Crash
  <2>. QED
    BY <1>20, <1>a, <2>1, <2>2, <2>3, <2>4, <2>5 DEF Crash
<1>21. CASE UNCHANGED vars
  BY <1>21 DEF vars
<1>. QED
  BY <1>1, <1>2, <1>3, <1>4, <1>5, <1>6, <1>7, <1>8, <1>9, <1>10, <1>11, <1>12, <1>13,
     <1>14, <1>15, <1>16, <1>17, <1>18, <1>19, <1>20, <1>21, NextCases
-------------------------------------------------------------------------------
(* Results and chunks as they are when nothing was read.                    *)
LEMMA EmptyFacts ==
  /\ Unknown.found = {} /\ Unknown.size = Never
  /\ \A n : LET c == [NoChunk EXCEPT !.take = n]
            IN c.from = 0 /\ c.upto = 0
  /\ NoChunk.from = 0 /\ NoChunk.upto = 0
  /\ chunk.from = 0 /\ chunk.upto = 0 => Found = {}
<1>1. chunk.from = 0 /\ chunk.upto = 0 => Found = {}
  BY WithinFacts DEF Found
<1>. QED
  BY <1>1 DEF Unknown, Result, NoChunk

(* Chunks and results belong together after every step.                     *)
LEMMA ChunkStep == TypeOK /\ ChunkIsRead /\ [Next]_vars => ChunkIsRead'
<1>. SUFFICES ASSUME TypeOK, ChunkIsRead, [Next]_vars PROVE ChunkIsRead'
  OBVIOUS
<1>. USE DEF ChunkIsRead, env, memory, stored, logGhosts, actGhosts, Same
<1>1. CASE Append \/ Truncate \/ Remove \/ Create \/ Tick
  BY <1>1 DEF Append, Truncate, Remove, Create, Changed, Tick, Found
<1>2. CASE Start
  BY <1>2 DEF Start, Found
<1>3. CASE LogFileMissing
  BY <1>3 DEF LogFileMissing, Ends, Result, Found
<1>4. CASE Identify
  BY <1>4 DEF Identify, Identified, Found
<1>5. CASE Measure
  <2>1. chunk'.from = 0 /\ chunk'.upto = 0
    BY <1>5, EmptyFacts DEF Measure
  <2>2. out'.found = {}
    BY <1>5, EmptyFacts DEF Measure, Ends
  <2>3. (pc' = "measured" /\ log' = Measured) \/ pc' = "matched"
    BY <1>5 DEF Measure, Ends
  <2>4. log.known /\ Measured.known = log.known
    BY <1>5, MeasuredFacts DEF Measure
  <2>5. pc' # "matched" => out' = out /\ out.found = {} /\ log'.known
    BY <1>5, <2>3, <2>4 DEF Measure, Ends
  <2>. QED
    BY <2>1, <2>2, <2>3, <2>5
<1>6. CASE ReadData
  <2>1. /\ chunk' = Data /\ out' = out /\ pc' = "read" /\ out.found = {}
    BY <1>6 DEF ReadData
  <2>2. Data.from \in Nat /\ Data.upto \in Nat /\ Data.from <= Data.upto
    BY DataFacts
  <2>. QED
    BY <2>1, <2>2
<1>7. CASE SaveLog
  BY <1>7 DEF SaveLog, Found
<1>8. CASE Match
  BY <1>8, EmptyFacts DEF Match, Ends, Result, Found, Named
<1>9. CASE ActivityCancelled \/ ActivityFileMissing
  <2>1. out'.found = {} /\ pc' = "matched" /\ pc = "started" /\ chunk' = chunk
    BY <1>9, EmptyFacts DEF ActivityCancelled, ActivityFileMissing, Ends, Result
  <2>. QED
    BY <2>1
<1>10. CASE Judge
  BY <1>10 DEF Judge, Result, Found
<1>11. CASE SaveActivity
  BY <1>11 DEF SaveActivity, Found
<1>12. CASE Finish \/ Crash
  <2>1. out' = Unknown /\ chunk' = NoChunk /\ pc' = "idle"
    BY <1>12 DEF Finish, Crash
  <2>. QED
    BY <2>1, EmptyFacts
<1>13. CASE SaveFails
  BY <1>13, EmptyFacts DEF SaveFails, Ends, Found
<1>14. CASE GiveUp
  BY <1>14 DEF GiveUp, Found
<1>15. CASE UNCHANGED vars
  BY <1>15 DEF vars, Found
<1>. QED
  BY <1>1, <1>2, <1>3, <1>4, <1>5, <1>6, <1>7, <1>8, <1>9, <1>10, <1>11, <1>12, <1>13,
     <1>14, <1>15, NextCases

(* The positions are safe from every step that reads and stores nothing.    *)
LEMMA PositionsFrame ==
  ASSUME TypeOK, TypeOK', Positions, file.id <= file'.id, Stored \subseteq Stored',
         UNCHANGED <<log, logState, counted, chunk, skipped, reported, undelivered,
                   borders, overshadowed>>
  PROVE  Positions'
<1>. USE DEF TypeOK, Files
<1>1. Accounted' = Accounted /\ Found' = Found
  BY DEF Accounted, Found
<1>2. CountsIn(log, counted.memory)' /\ CountsIn(logState, counted.store)'
  BY DEF Positions, CountsIn
<1>3. Covers(log, counted.memory, Found)'
  BY <1>1 DEF Positions, Covers, Within
<1>4. Covers(logState, counted.store, Stored)'
  BY <1>1 DEF Positions, Covers, Within
<1>. QED
  BY <1>2, <1>3, <1>4 DEF Positions

(* Wherever the log is cut, rotated, read and stored, and whatever fails in *)
(* between, the positions account for what they have passed.                *)
LEMMA PositionsStep ==
  TypeOK /\ ChunkIsRead /\ Positions /\ [Next]_vars => Positions'
<1>. SUFFICES ASSUME TypeOK, ChunkIsRead, Positions, [Next]_vars PROVE Positions'
  OBVIOUS
<1>a. TypeOK'
  BY TypeStep
<1>. DEFINE rest == <<log, logState, counted, chunk, skipped, reported, undelivered,
                   borders, overshadowed>>
<1>b. /\ file \in Files /\ counted \in [memory : Files, store : Files] /\ written \in Nat
      /\ log \in [known : BOOLEAN, id : Nat, offset : Nat]
      /\ logState \in [known : BOOLEAN, id : Nat, offset : Nat]
      /\ file.id \in Nat /\ file.start \in Nat
      /\ counted.memory.id \in Nat /\ counted.memory.start \in Nat
      /\ counted.store.id \in Nat /\ counted.store.start \in Nat
  BY DEF TypeOK, Files
<1>1. ASSUME UNCHANGED rest, file.id <= file'.id, Stored \subseteq Stored' PROVE Positions'
  BY <1>1, <1>a, PositionsFrame
<1>. HIDE DEF rest
<1>2. CASE Append \/ Truncate \/ Remove \/ Create \/ Tick
  <2>1. UNCHANGED rest /\ UNCHANGED <<pc, chunk>>
    BY <1>2 DEF Append, Truncate, Remove, Create, Changed, Tick, logGhosts, memory, stored, rest
  <2>2. file.id <= file'.id
    <3>1. \/ file' = file
          \/ file' = [file EXCEPT !.start = written]
          \/ file' = [file EXCEPT !.present = FALSE]
          \/ file' = [present |-> TRUE, id |-> file.id + 1, start |-> written]
      BY <1>2 DEF Append, Truncate, Remove, Create, Tick
    <3>2. file'.id = file.id \/ file'.id = file.id + 1
      BY <1>b, <3>1 DEF Files
    <3>. QED
      BY <1>b, <3>2
  <2>3. Stored' = Stored
    BY <2>1 DEF Stored, Found
  <2>. QED
    BY <1>1, <2>1, <2>2, <2>3
<1>3. CASE \/ Start \/ LogFileMissing \/ Match \/ ActivityCancelled \/ ActivityFileMissing
           \/ Judge \/ SaveActivity \/ SaveFails \/ GiveUp
  <2>1. UNCHANGED rest /\ file' = file
    BY <1>3 DEF Start, LogFileMissing, Match, ActivityCancelled, ActivityFileMissing, Judge,
       SaveActivity, SaveFails, GiveUp, Same, env, logGhosts, memory, stored, rest
  <2>2. /\ chunk' = chunk
        /\ pc \in {"saved", "matched"} => pc' \in {"saved", "matched"}
    BY <1>3, <2>1 DEF Start, LogFileMissing, Match, ActivityCancelled, ActivityFileMissing,
       Judge, SaveActivity, SaveFails, GiveUp, Ends, rest
  <2>3. Stored \subseteq Stored'
    BY <2>2 DEF Stored, Found
  <2>. QED
    BY <1>1, <1>b, <2>1, <2>3
<1>4. CASE UNCHANGED vars
  <2>1. UNCHANGED rest /\ file' = file /\ UNCHANGED <<pc, chunk>>
    BY <1>4 DEF vars, env, logGhosts, memory, stored, rest
  <2>2. Stored' = Stored
    BY <2>1 DEF Stored, Found
  <2>. QED
    BY <1>1, <1>b, <2>1, <2>2
<1>5. CASE Identify
  <2>1. /\ UNCHANGED <<logState, counted, chunk, skipped, reported, undelivered,
                       borders, overshadowed, file>>
        /\ log' = Identified /\ pc = "started" /\ pc' = "identified"
    BY <1>5 DEF Identify, Same, env, logGhosts, stored
  <2>2. /\ log'.known /\ log'.id = file.id /\ log'.offset \in Nat
        /\ log'.offset = 0 \/ (log'.offset = log.offset /\ log.id = file.id)
    BY <1>b, <2>1 DEF Identified, Positions, CountsIn
  <2>3. Found = {} /\ Found' = {} /\ Stored = {} /\ Stored' = {}
    BY <2>1, EmptyFacts DEF ChunkIsRead, Stored, Found
  <2>4. CountsIn(log, counted.memory)' /\ CountsIn(logState, counted.store)'
    BY <1>b, <2>1, <2>2 DEF Positions, CountsIn
  <2>5. Covers(log, counted.memory, Found)'
    <3>1. CASE log'.offset = 0
      <4>1. Within(counted.memory.start, counted.memory.start + 0) = {}
        BY <1>b, WithinFacts
      <4>. QED
        BY <1>b, <2>1, <3>1, <4>1 DEF Covers, Within
    <3>2. CASE log'.offset = log.offset /\ log.id = file.id
      BY <1>b, <2>1, <2>2, <2>3, <3>2 DEF Positions, Covers, Accounted, Within
    <3>. QED
      BY <2>2, <3>1, <3>2
  <2>6. Covers(logState, counted.store, Stored)'
    BY <2>1, <2>3 DEF Positions, Covers, Accounted, Within
  <2>. QED
    BY <2>4, <2>5, <2>6 DEF Positions
<1>6. CASE Measure
  <2>1. /\ UNCHANGED <<logState, counted, skipped, reported, undelivered, borders,
                       overshadowed, file>>
        /\ log' \in {log, Measured} /\ pc = "identified"
    BY <1>6 DEF Measure, Same, env, logGhosts, stored
  <2>2. /\ log'.known = log.known /\ log'.id = log.id /\ log'.offset \in {0, log.offset}
    BY <2>1, MeasuredFacts
  <2>3. Found = {} /\ Found' = {} /\ Stored = {} /\ Stored' = {}
    <3>1. /\ chunk.from = 0 /\ chunk.upto = 0
          /\ chunk'.from = 0 /\ chunk'.upto = 0
      BY <1>6, EmptyFacts DEF Measure, Ends, ChunkIsRead
    <3>2. Within(0, 0) = {}
      BY WithinFacts
    <3>. QED
      BY <3>1, <3>2 DEF Found, Stored, Within
  <2>4. CountsIn(log, counted.memory)' /\ CountsIn(logState, counted.store)'
    BY <1>b, <2>1, <2>2 DEF Positions, CountsIn
  <2>5. Covers(log, counted.memory, Found)'
    <3>1. CASE log'.offset = 0
      <4>1. Within(counted.memory.start, counted.memory.start + 0) = {}
        BY <1>b, WithinFacts
      <4>. QED
        BY <1>b, <2>1, <3>1, <4>1 DEF Covers, Within
    <3>2. CASE log'.offset = log.offset
      BY <1>b, <2>1, <2>2, <2>3, <3>2 DEF Positions, Covers, Accounted, Within
    <3>. QED
      BY <2>2, <3>1, <3>2
  <2>6. Covers(logState, counted.store, Stored)'
    BY <2>1, <2>3 DEF Positions, Covers, Accounted, Within
  <2>. QED
    BY <2>4, <2>5, <2>6 DEF Positions
<1>7. CASE ReadData
  <2>1. /\ UNCHANGED <<logState, file, reported, undelivered, overshadowed>> /\ pc = "measured" /\ pc' = "read"
        /\ chunk' = Data /\ log' = [log EXCEPT !.offset = @ + (Data.upto - Data.from)]
        /\ counted'.store = counted.store
    BY <1>7, <1>b DEF ReadData, Same, env, stored
  <2>2. /\ Data.from = file.start + log.offset /\ Data.upto >= Data.from
        /\ Data.from \in Nat /\ Data.upto \in Nat
    BY DataFacts
  <2>3. /\ log'.id = log.id /\ log'.known = log.known
        /\ log'.offset = log.offset + (Data.upto - Data.from) /\ log'.offset \in Nat
    BY <1>b, <2>1, <2>2
  <2>4. Found = {} /\ Stored = {} /\ Stored' = {} /\ Found' = Within(Data.from, Data.upto)
    BY <2>1, EmptyFacts DEF ChunkIsRead, Stored, Found, Within
  <2>5. log.known
    BY <2>1 DEF ChunkIsRead
  <2>6. CASE Data.upto = Data.from
    <3>1. /\ counted' = counted /\ borders' = borders /\ skipped' = skipped
          /\ log'.offset = log.offset
      BY <1>7, <1>b, <2>2, <2>3, <2>6 DEF ReadData
    <3>2. CountsIn(log, counted.memory)' /\ CountsIn(logState, counted.store)'
      BY <1>b, <2>1, <2>3, <3>1 DEF Positions, CountsIn
    <3>3. Covers(log, counted.memory, Found)'
      BY <1>b, <2>1, <2>3, <2>4, <3>1 DEF Positions, Covers, Accounted, Within
    <3>4. Covers(logState, counted.store, Stored)'
      BY <1>b, <2>1, <2>4, <3>1 DEF Positions, Covers, Accounted, Within
    <3>. QED
      BY <3>2, <3>3, <3>4 DEF Positions
  <2>7. CASE Data.upto > Data.from
    <3>1. /\ counted'.memory = file
          /\ borders' = borders \cup ({Data.upto} \cap Errors)
          /\ skipped' = (skipped \/ (log.offset > 0 /\ file.id = counted.memory.id
                                       /\ file # counted.memory))
          /\ log'.offset > 0
      BY <1>7, <1>b, <2>2, <2>3, <2>7 DEF ReadData
    <3>2. CountsIn(log, counted.memory)' /\ CountsIn(logState, counted.store)'
      BY <1>b, <2>1, <2>3, <2>5, <3>1 DEF Positions, CountsIn
    <3>3. Accounted \subseteq Accounted'
      BY <2>1, <3>1 DEF Accounted
    <3>4. ASSUME ~skipped', log.id = file.id
          PROVE  Within(file.start, Data.upto) \subseteq Accounted \cup Within(Data.from, Data.upto)
      <4>1. CASE log.offset = 0
        BY <1>b, <2>2, <4>1
      <4>2. CASE log.offset > 0
        <5>1. counted.memory.id = file.id
          BY <1>b, <3>4, <4>2 DEF Positions, CountsIn
        <5>2. counted.memory = file /\ ~skipped
          BY <3>1, <3>4, <4>2, <5>1
        <5>3. Within(file.start, Data.from) \subseteq Accounted
          BY <2>2, <2>4, <3>4, <5>2 DEF Positions, Covers
        <5>4. {Data.from} \cap Errors \subseteq Accounted
          BY <2>2, <4>2, <5>2 DEF Positions, Covers, Accounted
        <5>5. Within(file.start, Data.upto)
                \subseteq Within(file.start, Data.from) \cup Within(Data.from, Data.upto)
                            \cup ({Data.from} \cap Errors)
          BY <1>b, <2>2, WithinFacts
        <5>. QED
          BY <5>3, <5>4, <5>5
      <4>. QED
        BY <1>b, <4>1, <4>2
    <3>5. file.start + log'.offset = Data.upto
      BY <1>b, <2>2, <2>3
    <3>6. Covers(log, counted.memory, Found)'
      <4>1. ~skipped' /\ log'.id = counted'.memory.id
              => Within(file.start, Data.upto) \subseteq Accounted' \cup Found'
        BY <2>3, <2>4, <3>1, <3>3, <3>4
      <4>2. Data.upto \in Errors => Data.upto \in borders'
        BY <3>1
      <4>. QED
        BY <3>1, <3>5, <4>1, <4>2, <2>1 DEF Covers, Within
    <3>7. Covers(logState, counted.store, Stored)'
      <4>1. skipped => skipped'
        BY <3>1
      <4>2. borders \subseteq borders'
        BY <3>1
      <4>. QED
        BY <2>1, <2>4, <3>3, <4>1, <4>2 DEF Positions, Covers, Within
    <3>. QED
      BY <3>2, <3>6, <3>7 DEF Positions
  <2>. QED
    BY <2>2, <2>6, <2>7
<1>8. CASE SaveLog
  <2>1. /\ UNCHANGED <<log, file, reported, undelivered, borders, overshadowed, chunk,
                       skipped>>
        /\ logState' = log /\ counted'.memory = counted.memory /\ counted'.store = counted.memory
        /\ pc' = "saved"
    BY <1>8, <1>b DEF SaveLog, save_log_state, Same, env, memory
  <2>2. Found' = Found /\ Stored' = Found /\ Accounted' = Accounted
    BY <2>1 DEF Found, Stored, Accounted
  <2>3. CountsIn(log, counted.memory)' /\ CountsIn(logState, counted.store)'
    BY <2>1 DEF Positions, CountsIn
  <2>4. Covers(log, counted.memory, Found)' /\ Covers(logState, counted.store, Stored)'
    BY <2>1, <2>2 DEF Positions, Covers, Within
  <2>. QED
    BY <2>3, <2>4 DEF Positions
<1>9. CASE Finish
  <2>1. /\ UNCHANGED <<log, logState, file, borders, skipped, counted>>
        /\ pc = "matched" /\ pc' = "idle" /\ chunk' = NoChunk
        /\ undelivered' = undelivered \cup (Named \ reported')
        /\ overshadowed' = overshadowed \cup (Found \ Named)
        /\ reported \subseteq reported'
    BY <1>9 DEF Finish, Deliver, Drop, Same, env, memory, stored
  <2>2. Found' = {} /\ Stored' = {} /\ Stored = Found
    <3>1. Within(0, 0) = {}
      BY WithinFacts
    <3>. QED
      BY <2>1, <3>1, EmptyFacts DEF Found, Stored, Within
  <2>3. Accounted \cup Found \subseteq Accounted'
    BY <2>1 DEF Accounted
  <2>4. CountsIn(log, counted.memory)' /\ CountsIn(logState, counted.store)'
    BY <2>1 DEF Positions, CountsIn
  <2>5. Covers(log, counted.memory, Found)' /\ Covers(logState, counted.store, Stored)'
    BY <2>1, <2>2, <2>3 DEF Positions, Covers, Within
  <2>. QED
    BY <2>4, <2>5 DEF Positions
<1>10. CASE Crash
  <2>1. /\ UNCHANGED <<logState, file, borders, overshadowed, skipped, reported>>
        /\ log' = logState /\ counted'.memory = counted.store /\ counted'.store = counted.store
        /\ pc' = "idle" /\ chunk' = NoChunk
        /\ undelivered' = undelivered \cup Stored
    BY <1>10, <1>b DEF Crash, load_log_state, Same, env, stored, Stored
  <2>2. Found' = {} /\ Stored' = {}
    <3>1. Within(0, 0) = {}
      BY WithinFacts
    <3>. QED
      BY <2>1, <3>1, EmptyFacts DEF Found, Stored, Within
  <2>3. Accounted \cup Stored \subseteq Accounted'
    BY <2>1 DEF Accounted
  <2>4. CountsIn(log, counted.memory)' /\ CountsIn(logState, counted.store)'
    BY <2>1 DEF Positions, CountsIn
  <2>5. Covers(log, counted.memory, Found)' /\ Covers(logState, counted.store, Stored)'
    BY <2>1, <2>2, <2>3 DEF Positions, Covers, Within
  <2>. QED
    BY <2>4, <2>5 DEF Positions
<1>. QED
  BY <1>2, <1>3, <1>4, <1>5, <1>6, <1>7, <1>8, <1>9, <1>10, NextCases

(* In every group of a chunk some error is named: of one that is not, an    *)
(* earlier pattern of its group is.                                         *)
LEMMA NamedFirst ==
  ASSUME TypeOK, NEW e \in Found \ Named
  PROVE  \E f \in Named : Before(f, e)
<1>. DEFINE Rivals == {f \in Found : Before(f, e)}
            Places == {Place[f] : f \in Rivals}
            LessThan == {p \in Nat \X Nat : p[1] < p[2]}
<1>1. Found \subseteq Errors /\ Rivals # {}
  <2>1. Found \subseteq Errors
    BY WithinFacts DEF Found, TypeOK
  <2>. QED
    BY <2>1 DEF Named
<1>2. Places \subseteq Nat /\ Places # {}
  <2>1. \A f \in Errors : Place[f] \in Nat
    BY CheckAssumption
  <2>2. Rivals \subseteq Errors
    BY <1>1
  <2>. QED
    BY <1>1, <2>1, <2>2
<1>3. PICK i \in Places : \A j \in Places : <<j, i>> \notin LessThan
  <2>1. LessThan = OpToRel(<, Nat)
    BY DEF OpToRel
  <2>2. IsWellFoundedOn(LessThan, Nat)
    BY <2>1, NatLessThanWellFounded
  <2>. QED
    BY <1>2, <2>2, WFMin
<1>4. PICK f \in Rivals : Place[f] = i
  BY <1>3
<1>5. \A g \in Found : ~Before(g, f)
  <2>. SUFFICES ASSUME NEW g \in Found, Before(g, f) PROVE FALSE
    OBVIOUS
  <2>1. Place[g] \in Nat /\ Place[f] \in Nat /\ Place[e] \in Nat
    BY <1>1, CheckAssumption
  <2>2. Before(g, e)
    BY <2>1 DEF Before
  <2>3. Place[g] \in Places /\ Place[g] < i
    BY <1>4, <2>2 DEF Before
  <2>. QED
    BY <1>2, <1>3, <2>3
<1>. QED
  BY <1>5 DEF Named

(* Only the end of an execution adds overshadowed errors, and then it has   *)
(* reported, or lost, one of their group.                                   *)
LEMMA ShadowsStep == TypeOK /\ Shadows /\ [Next]_vars => Shadows'
<1>. SUFFICES ASSUME TypeOK, Shadows, [Next]_vars PROVE Shadows'
  OBVIOUS
<1>1. CASE Finish
  <2>1. /\ undelivered' = undelivered \cup (Named \ reported')
        /\ overshadowed' = overshadowed \cup (Found \ Named)
        /\ reported \subseteq reported'
    BY <1>1 DEF Finish, Deliver, Drop
  <2>2. Named \subseteq reported' \cup undelivered'
    BY <2>1
  <2>3. \A e \in overshadowed : \E f \in reported' \cup undelivered' : Before(f, e)
    BY <2>1 DEF Shadows
  <2>4. \A e \in Found \ Named : \E f \in reported' \cup undelivered' : Before(f, e)
    BY <2>2, NamedFirst
  <2>5. \A e \in overshadowed' : \E f \in reported' \cup undelivered' : Before(f, e)
    BY <2>1, <2>3, <2>4
  <2>. QED
    BY <2>5 DEF Shadows, Before
<1>2. CASE ~Finish
  <2>1. overshadowed' = overshadowed /\ reported \subseteq reported'
    BY <1>2, NextCases DEF Append, Truncate, Remove, Create, Changed, Tick, Start,
         LogFileMissing, Identify, Measure, ReadData, SaveLog, Match, ActivityCancelled,
         ActivityFileMissing, Judge, SaveActivity, SaveFails, GiveUp, Crash, vars,
         logGhosts
  <2>2. undelivered \subseteq undelivered'
    BY <1>2, NextCases DEF Append, Truncate, Remove, Create, Changed, Tick, Start,
         LogFileMissing, Identify, Measure, ReadData, SaveLog, Match, ActivityCancelled,
         ActivityFileMissing, Judge, SaveActivity, SaveFails, GiveUp, Crash, vars,
         logGhosts
  <2>. QED
    BY <2>1, <2>2 DEF Shadows, Before
<1>. QED
  BY <1>1, <1>2

(* What lies before a position stays behind it, whatever is done to the     *)
(* file.                                                                    *)
LEMMA PassedStays ==
  ASSUME TypeOK, Append \/ Truncate \/ Remove \/ Create \/ Tick,
         NEW e \in Nat, e + 1 <= written
  PROVE  /\ e + 1 <= written'
         /\ Passed(e, log) => Passed(e, log)'
         /\ Passed(e, logState) => Passed(e, logState)'
<1>1. /\ log \in [known : BOOLEAN, id : Nat, offset : Nat]
      /\ logState \in [known : BOOLEAN, id : Nat, offset : Nat]
      /\ file \in Files /\ file.start \in Nat /\ file.id \in Nat /\ written \in Nat
  BY DEF TypeOK, Files
<1>2. log' = log /\ logState' = logState
  BY DEF Append, Truncate, Remove, Create, Tick, Changed, memory, stored
<1>3. CASE Append \/ Tick
  <2>1. file' = file /\ written' \in {written, written + 1}
    BY <1>3 DEF Append, Tick
  <2>. QED
    BY <1>1, <1>2, <2>1 DEF Passed
<1>4. CASE Remove
  <2>1. written' = written /\ file'.id = file.id /\ file'.start = file.start
    BY <1>1, <1>4 DEF Remove, Files
  <2>. QED
    BY <1>1, <1>2, <2>1 DEF Passed
<1>5. CASE Truncate \/ Create
  <2>1. written' = written /\ file'.start = written
    BY <1>1, <1>5 DEF Truncate, Create, Files
  <2>. QED
    BY <2>1 DEF Passed
<1>. QED
  BY <1>3, <1>4, <1>5

(* No step makes the check read again what it has reported.                 *)
LEMMA ReadOnceStep ==
  TypeOK /\ ChunkIsRead /\ ReadOnce /\ [Next]_vars => ReadOnce'
<1>. SUFFICES ASSUME TypeOK, ChunkIsRead, ReadOnce, [Next]_vars, ~swapped' PROVE ReadOnce'
  BY DEF ReadOnce
<1>a. /\ file \in Files /\ written \in Nat /\ file.id \in Nat /\ file.start \in Nat
      /\ file.start <= written
      /\ log \in [known : BOOLEAN, id : Nat, offset : Nat]
      /\ logState \in [known : BOOLEAN, id : Nat, offset : Nat]
      /\ reported \subseteq Nat /\ Found \subseteq Nat /\ out.found \subseteq Nat
      /\ chunk.from \in Nat /\ chunk.upto \in Nat
  <2>1. /\ file \in Files /\ written \in Nat /\ file.id \in Nat /\ file.start \in Nat
        /\ file.start <= written
        /\ log \in [known : BOOLEAN, id : Nat, offset : Nat]
        /\ logState \in [known : BOOLEAN, id : Nat, offset : Nat]
        /\ chunk.from \in Nat /\ chunk.upto \in Nat
    BY DEF TypeOK, Files
  <2>2. Errors \subseteq Nat /\ reported \subseteq Errors /\ out.found \subseteq Errors
    BY CheckAssumption DEF TypeOK
  <2>3. Found \subseteq Errors
    BY <2>1, WithinFacts DEF Found
  <2>. QED
    BY <2>1, <2>2, <2>3
<1>b. out.found \subseteq Found /\ (pc # "matched" => out.found = {})
      /\ (pc \notin {"read", "saved", "matched"} => Found = {})
  BY EmptyFacts DEF ChunkIsRead
<1>c. ~swapped
  BY NextCases DEF Append, Truncate, Remove, Create, Changed, Tick, Start, LogFileMissing,
     Identify, Measure, ReadData, SaveLog, Match, ActivityCancelled, ActivityFileMissing, Judge,
     SaveActivity, Finish, SaveFails, GiveUp, Crash, vars, logGhosts
<1>d. /\ \A e \in reported : e + 1 <= written /\ Passed(e, log) /\ Passed(e, logState)
      /\ \A e \in Found : e + 1 <= written /\ \A d \in reported : d + 1 <= chunk.from
      /\ pc \in {"read", "saved"} => \A e \in Found : Passed(e, log)
      /\ pc = "saved" => \A e \in Found : Passed(e, logState)
      /\ \A e \in out.found : Passed(e, log) /\ Passed(e, logState)
  BY <1>c DEF ReadOnce
<1>1. CASE Append \/ Truncate \/ Remove \/ Create \/ Tick
  <2>1. UNCHANGED <<pc, chunk, out, reported>> /\ Found' = Found
    BY <1>1 DEF Append, Truncate, Remove, Create, Changed, Tick, logGhosts, Found
  <2>2. /\ \A e \in reported : e + 1 <= written' /\ Passed(e, log)' /\ Passed(e, logState)'
        /\ \A e \in Found : e + 1 <= written'
        /\ pc \in {"read", "saved"} => \A e \in Found : Passed(e, log)'
        /\ pc = "saved" => \A e \in Found : Passed(e, logState)'
        /\ \A e \in out.found : Passed(e, log)' /\ Passed(e, logState)'
    BY <1>a, <1>b, <1>d, <1>1, PassedStays
  <2>. QED
    BY <1>d, <2>1, <2>2 DEF ReadOnce
<1>2. ASSUME UNCHANGED <<file, written, log, logState, chunk, reported>>,
             out'.found = {}, pc' \in {"read", "saved"} => pc' = pc
      PROVE  ReadOnce'
  <2>1. Found' = Found
    BY <1>2 DEF Found
  <2>. QED
    BY <1>d, <1>2, <2>1 DEF ReadOnce, Passed
<1>3. CASE \/ Start \/ LogFileMissing \/ ActivityCancelled \/ ActivityFileMissing
           \/ Judge \/ SaveActivity \/ SaveFails
  <2>1. /\ UNCHANGED <<file, written, log, logState, chunk, reported>>
        /\ pc' \notin {"read", "saved"}
    BY <1>3 DEF Start, LogFileMissing, ActivityCancelled, ActivityFileMissing, Judge,
       SaveActivity, SaveFails, Same, Ends, env, memory, stored, logGhosts
  <2>2. out'.found = {}
    BY <1>3, <1>b, EmptyFacts DEF Start, LogFileMissing, ActivityCancelled, ActivityFileMissing, Judge,
       SaveActivity, SaveFails, Ends, Result
  <2>. QED
    BY <1>2, <2>1, <2>2
<1>4. CASE GiveUp \/ UNCHANGED vars
  <2>1. UNCHANGED <<file, written, log, logState, chunk, reported, pc, out>>
    BY <1>4 DEF GiveUp, vars, env, memory, stored, logGhosts
  <2>2. Found' = Found
    BY <2>1 DEF Found
  <2>. QED
    BY <1>d, <2>1, <2>2 DEF ReadOnce, Passed
<1>5. CASE Identify \/ Measure
  <2>1. /\ UNCHANGED <<file, written, logState, reported>> /\ out'.found = {}
        /\ pc' \notin {"read", "saved"}
    BY <1>5, <1>b, EmptyFacts DEF Identify, Measure, Same, Ends, env, stored, logGhosts
  <2>2. Found' = {}
    <3>1. chunk'.from = 0 /\ chunk'.upto = 0
      BY <1>5, EmptyFacts DEF Identify, Measure, Ends, ChunkIsRead
    <3>2. Within(0, 0) = {}
      BY WithinFacts
    <3>. QED
      BY <3>1, <3>2 DEF Found, Within
  <2>3. log' \in {log, Identified, Measured}
    BY <1>5 DEF Identify, Measure
  <2>4. ASSUME NEW e \in reported PROVE Passed(e, log')
    <3>1. Identified.id = file.id /\ Identified.known
          /\ (log.known /\ log.id = file.id => Identified.offset = log.offset)
      BY DEF Identified
    <3>2. Passed(e, Identified)
      BY <1>a, <1>d, <3>1 DEF Passed
    <3>3. Measured.known = log.known /\ Measured.id = log.id
          /\ (log.offset <= Size => Measured.offset = log.offset)
      BY <1>a DEF Measured, Size
    <3>4. Passed(e, Measured)
      BY <1>a, <1>d, <3>3 DEF Passed, Size
    <3>. QED
      BY <1>d, <2>3, <3>2, <3>4
  <2>. QED
    BY <1>d, <2>1, <2>2, <2>4 DEF ReadOnce, Passed
<1>6. CASE ReadData
  <2>1. /\ UNCHANGED <<logState, file, written, reported, out>> /\ pc = "measured" /\ pc' = "read"
        /\ chunk' = Data /\ log' = [log EXCEPT !.offset = @ + (Data.upto - Data.from)]
        /\ ~file.present \/ file.id = log.id
    BY <1>6 DEF ReadData, Same, env, stored
  <2>2. /\ Data.from = file.start + log.offset /\ Data.upto >= Data.from
        /\ Data.from \in Nat /\ Data.upto \in Nat
        /\ Data.upto > Data.from => file.present /\ Data.upto <= written
    BY DataFacts
  <2>3. /\ log'.id = log.id /\ log'.known /\ log.known
        /\ log'.offset = log.offset + (Data.upto - Data.from)
    BY <1>a, <2>1, <2>2 DEF ChunkIsRead
  <2>4. \A e \in Found' : e \in Nat /\ Data.from < e /\ e + 1 <= Data.upto
    BY <2>1, CheckAssumption DEF Found, Within
  <2>5. ASSUME NEW e \in reported PROVE e + 1 <= Data.from \/ Data.upto = Data.from
    BY <1>a, <1>d, <2>2 DEF Passed
  <2>6. ASSUME NEW e \in reported PROVE Passed(e, log)' /\ Passed(e, logState)'
    BY <1>a, <1>d, <2>1, <2>2, <2>3 DEF Passed
  <2>7. ASSUME NEW e \in Found' PROVE Passed(e, log)' /\ e + 1 <= written
    BY <1>a, <2>1, <2>2, <2>3, <2>4 DEF Passed
  <2>8. \A e \in Found' : \A d \in reported : d + 1 <= Data.from
    BY <1>a, <2>2, <2>4, <2>5
  <2>. QED
    BY <1>b, <1>d, <2>1, <2>6, <2>7, <2>8 DEF ReadOnce
<1>7. CASE SaveLog
  <2>1. /\ UNCHANGED <<log, file, written, reported, chunk, out>>
        /\ logState' = log /\ pc = "read" /\ pc' = "saved"
    BY <1>7 DEF SaveLog, save_log_state, Same, env, memory
  <2>2. Found' = Found
    BY <2>1 DEF Found
  <2>. QED
    BY <1>b, <1>d, <2>1, <2>2 DEF ReadOnce, Passed
<1>8. CASE Match
  <2>1. /\ UNCHANGED <<log, logState, file, written, reported, chunk>>
        /\ pc = "saved" /\ pc' = "matched" /\ out'.found \subseteq Found
    BY <1>8, EmptyFacts DEF Match, Ends, Result, Named, Same, env, memory, stored,
                            logGhosts
  <2>2. Found' = Found
    BY <2>1 DEF Found
  <2>. QED
    BY <1>d, <2>1, <2>2 DEF ReadOnce, Passed
<1>9. CASE Finish
  <2>1. /\ UNCHANGED <<log, logState, file, written>>
        /\ pc' = "idle" /\ chunk' = NoChunk /\ out' = Unknown
        /\ reported' \subseteq reported \cup out.found
    BY <1>9 DEF Finish, Deliver, Drop, Same, env, memory, stored
  <2>2. Found' = {} /\ out'.found = {}
    <3>1. Within(0, 0) = {}
      BY WithinFacts
    <3>. QED
      BY <2>1, <3>1, EmptyFacts DEF Found, Within
  <2>. QED
    BY <1>b, <1>d, <2>1, <2>2 DEF ReadOnce, Passed
<1>10. CASE Crash
  <2>1. /\ UNCHANGED <<logState, file, written, reported>> /\ log' = logState
        /\ pc' = "idle" /\ chunk' = NoChunk /\ out' = Unknown
    BY <1>10 DEF Crash, load_log_state, env, stored
  <2>2. Found' = {} /\ out'.found = {}
    <3>1. Within(0, 0) = {}
      BY WithinFacts
    <3>. QED
      BY <2>1, <3>1, EmptyFacts DEF Found, Within
  <2>. QED
    BY <1>d, <2>1, <2>2 DEF ReadOnce, Passed
<1>. QED
  BY <1>1, <1>3, <1>4, <1>5, <1>6, <1>7, <1>8, <1>9, <1>10, NextCases

(* What the activity check tells and what it keeps agree after every step.  *)
LEMMA ActivityToldStep ==
  TypeOK /\ ActivityTold /\ [Next]_vars => ActivityTold'
<1>. SUFFICES ASSUME TypeOK, ActivityTold, [Next]_vars PROVE ActivityTold'
  OBVIOUS
<1>. USE DEF ActivityTold, Knows, env, memory, stored, logGhosts, actGhosts, Same
<1>a. /\ act \in [known : BOOLEAN, size : Nat, since : Nat]
      /\ actState \in [known : BOOLEAN, size : Nat, since : Nat]
      /\ kind \in {"log", "activity"} /\ Size \in Nat /\ Size # Never
      /\ act.size # Never
  BY DEF TypeOK, Files, Size, Never
<1>1. CASE Append \/ Truncate \/ Remove \/ Create \/ Tick
  <2>1. UNCHANGED <<kind, pc, act, actState, out, told, missed>>
    BY <1>1 DEF Append, Truncate, Remove, Create, Changed, Tick
  <2>. QED
    BY <2>1
<1>2. CASE Start \/ Identify \/ ReadData \/ SaveLog
  <2>1. /\ UNCHANGED <<kind, act, actState, out, told, missed>>
        /\ pc \notin {"judged", "matched"} /\ pc' \notin {"judged", "matched"}
    BY <1>2 DEF Start, Identify, ReadData, SaveLog
  <2>. QED
    BY <2>1
<1>3. CASE LogFileMissing \/ Measure \/ Match \/ ActivityCancelled \/ ActivityFileMissing
  <2>1. /\ UNCHANGED <<kind, act, actState, told, missed>>
        /\ pc \notin {"judged", "matched"} /\ pc' # "judged" /\ out'.size = Never
    BY <1>3, EmptyFacts DEF LogFileMissing, Measure, Match, ActivityCancelled,
       ActivityFileMissing, Ends, Result
  <2>. QED
    BY <2>1
<1>4. CASE Judge
  <2>1. /\ UNCHANGED <<kind, actState, told, missed>> /\ kind = "activity"
        /\ pc = "started" /\ pc' = "judged"
        /\ act'.known /\ act'.size = Size /\ out'.size = Size
    BY <1>4 DEF Judge, Result
  <2>. QED
    BY <2>1
<1>5. CASE SaveActivity
  <2>1. /\ UNCHANGED <<kind, act, out, told, missed>> /\ actState' = act
        /\ pc = "judged" /\ pc' = "matched"
    BY <1>5 DEF SaveActivity, save_file_state
  <2>2. kind = "activity"
    BY <1>a, <2>1
  <2>. QED
    BY <1>a, <2>1, <2>2
<1>6. CASE Finish
  <2>1. /\ UNCHANGED <<kind, act, actState>> /\ pc = "matched" /\ pc' = "idle"
        /\ out'.size = Never
    BY <1>6, EmptyFacts DEF Finish
  <2>2. CASE Observed
    <3>1. \/ told' = out.size /\ missed' = FALSE
          \/ told' = told /\ missed' = TRUE
      BY <1>6, <2>2 DEF Finish, Deliver, Drop
    <3>. QED
      BY <2>1, <2>2, <3>1 DEF Observed
  <2>3. CASE ~Observed
    <3>1. told' = told /\ (missed' <=> missed)
      BY <1>6, <2>3 DEF Finish, Deliver, Drop
    <3>2. out.size = Never
      BY <1>a, <2>1, <2>3 DEF Observed
    <3>. QED
      BY <2>1, <3>1, <3>2
  <2>. QED
    BY <2>2, <2>3
<1>7. CASE SaveFails
  <2>1. /\ UNCHANGED <<kind, act, actState, told>> /\ pc \in {"read", "judged"}
        /\ pc' = "matched" /\ out'.size = Never
        /\ missed' = (missed \/ pc = "judged")
    BY <1>7, EmptyFacts DEF SaveFails, Ends
  <2>. QED
    BY <2>1
<1>8. CASE GiveUp \/ UNCHANGED vars
  <2>1. UNCHANGED <<kind, pc, act, actState, out, told, missed>>
    BY <1>8 DEF GiveUp, vars
  <2>. QED
    BY <2>1
<1>9. CASE Crash
  <2>1. /\ UNCHANGED <<kind, actState, told>> /\ act' = actState
        /\ pc' = "idle" /\ out'.size = Never
        /\ missed' = (missed \/ Observed)
    BY <1>9, EmptyFacts DEF Crash, load_file_state
  <2>2. ~missed' => Knows(actState)
    BY <1>a, <2>1 DEF Observed
  <2>. QED
    BY <1>a, <2>1, <2>2
<1>. QED
  BY <1>1, <1>2, <1>3, <1>4, <1>5, <1>6, <1>7, <1>8, <1>9, NextCases

(* While nothing changed unseen, the check knows since when.                *)
LEMMA SinceStep ==
  TypeOK /\ ActivityTold /\ SinceIsTrue /\ [Next]_vars => SinceIsTrue'
<1>. SUFFICES ASSUME TypeOK, ActivityTold, SinceIsTrue, [Next]_vars PROVE SinceIsTrue'
  OBVIOUS
<1>. USE DEF SinceIsTrue, env, memory, stored, logGhosts, actGhosts, Same
<1>a. /\ act \in [known : BOOLEAN, size : Nat, since : Nat]
      /\ actState \in [known : BOOLEAN, size : Nat, since : Nat]
      /\ kind \in {"log", "activity"} /\ Size \in Nat
      /\ now \in Nat /\ changedAt \in Nat
      /\ touched \in BOOLEAN /\ fooled \in BOOLEAN
  BY DEF TypeOK, Files, Size
<1>1. CASE Append \/ Truncate \/ Remove \/ Create
  <2>1. /\ UNCHANGED <<now, act, actState, fooled>> /\ changedAt' = now
        /\ touched' = (kind = "activity")
    BY <1>1 DEF Append, Truncate, Remove, Create, Changed
  <2>2. kind = "activity" \/ ~act.known
    BY <1>a DEF ActivityTold
  <2>. QED
    BY <1>a, <2>1, <2>2
<1>2. CASE Tick
  <2>1. UNCHANGED <<act, actState, changedAt, touched, fooled>> /\ now' = now + 1
    BY <1>2 DEF Tick
  <2>. QED
    BY <1>a, <2>1
<1>3. CASE \/ Start \/ LogFileMissing \/ Identify \/ Measure \/ ReadData \/ SaveLog \/ Match
           \/ ActivityCancelled \/ ActivityFileMissing \/ Finish \/ SaveFails \/ GiveUp
           \/ UNCHANGED vars
  <2>1. UNCHANGED <<now, act, actState, changedAt, touched, fooled>>
    BY <1>3 DEF Start, LogFileMissing, Identify, Measure, ReadData, SaveLog, Match,
       ActivityCancelled, ActivityFileMissing, Finish, SaveFails, GiveUp, vars
  <2>. QED
    BY <2>1
<1>4. CASE SaveActivity
  <2>1. UNCHANGED <<now, act, changedAt, touched, fooled>> /\ actState' = act
    BY <1>4 DEF SaveActivity, save_file_state
  <2>. QED
    BY <2>1
<1>5. CASE Judge
  <2>1. /\ UNCHANGED <<now, changedAt, actState>>
        /\ act'.since = Since
        /\ fooled' = (act.known /\ Size = act.size /\ (fooled \/ touched))
    BY <1>5 DEF Judge
  <2>2. Since = now \/ (Since = act.since /\ act.known /\ Size = act.size)
    BY <1>a DEF Since
  <2>. QED
    BY <1>a, <2>1, <2>2
<1>6. CASE Crash
  <2>1. /\ UNCHANGED <<now, changedAt, actState, fooled>> /\ act' = actState
        /\ touched' = (touched \/ act # actState)
    BY <1>6 DEF Crash, load_file_state
  <2>. QED
    BY <1>a, <2>1
<1>. QED
  BY <1>1, <1>2, <1>3, <1>4, <1>5, <1>6, NextCases
-------------------------------------------------------------------------------
(* The invariant holds when the check starts for the first time.            *)
LEMMA WatchingInit == Init => Watching
<1>. SUFFICES ASSUME Init PROVE Watching
  OBVIOUS
<1>1. TypeOK
  BY TypeInit
<1>2. /\ log = NoLog /\ logState = NoLog /\ act = NoAct /\ actState = NoAct
      /\ chunk = NoChunk /\ out = Unknown /\ pc = "idle" /\ told = Never
      /\ now = 0 /\ changedAt = 0 /\ reported = {} /\ overshadowed = {}
      /\ counted.memory = file /\ counted.store = file /\ file.id = 1 /\ file.start = 0
  BY DEF Init
<1>3. /\ NoLog.id = 0 /\ NoLog.offset = 0 /\ ~NoLog.known
      /\ NoAct.since = 0 /\ ~NoAct.known
  BY DEF NoLog, NoAct
<1>4. Found = {} /\ Stored = {}
  BY <1>2, EmptyFacts DEF Stored
<1>5. ChunkIsRead
  BY <1>2, <1>4, EmptyFacts DEF ChunkIsRead
<1>6. Positions
  <2>1. Within(0, 0 + 0) = {}
    BY WithinFacts
  <2>. QED
    BY <1>2, <1>3, <2>1 DEF Positions, CountsIn, Covers
<1>S. Shadows
  BY <1>2 DEF Shadows
<1>7. ReadOnce
  BY <1>2, <1>4, EmptyFacts DEF ReadOnce
<1>8. ActivityTold /\ SinceIsTrue
  BY <1>2, <1>3, EmptyFacts DEF ActivityTold, Knows, SinceIsTrue
<1>. QED
  BY <1>1, <1>5, <1>6, <1>S, <1>7, <1>8 DEF Watching

(* Wherever the file is cut and rotated, executions are given up on, writes *)
(* are refused and the agent restarts, what the checks keep agrees with     *)
(* what was in the file and with what they reported.                        *)
THEOREM SpecWatching == Spec => []Watching
<1>1. Watching /\ [Next]_vars => Watching'
  BY TypeStep, ChunkStep, PositionsStep, ShadowsStep, ReadOnceStep, ActivityToldStep,
     SinceStep DEF Watching
<1>. QED
  BY WatchingInit, <1>1, PTL DEF Spec

(* LogPatternCheck passes no error silently: what it did not report lay     *)
(* across two chunks, was read by an execution whose result was lost, or    *)
(* stood in a chunk for whose group an earlier pattern was reported.        *)
THEOREM SpecErrorsAreReported == Spec => []ErrorsAreReported
<1>1. Watching => ErrorsAreReported
  <2>. SUFFICES ASSUME Watching, kind = "log", pc = "idle", file.present, ~skipped,
                       log.id = file.id, counted.memory = file
                PROVE  Within(file.start, file.start + log.offset)
                         \subseteq reported \cup undelivered \cup borders \cup overshadowed
    BY DEF ErrorsAreReported, Watching, Shadows
  <2>1. Found = {}
    BY EmptyFacts DEF Watching, ChunkIsRead
  <2>. QED
    BY <2>1 DEF Watching, Positions, Covers, Accounted
<1>. QED
  BY SpecWatching, <1>1, PTL

(* An entry of the log raises one alarm, over truncations, rotations,       *)
(* restarts and refused writes of any number.                               *)
THEOREM SpecReportedOnce == Spec => ReportedOnce
<1>1. Watching /\ [Next]_vars
        => [pc = "matched" /\ pc' = "idle" /\ faults' = faults /\ ~swapped
              => out.found \cap reported = {}]_vars
  <2>. SUFFICES ASSUME Watching, ~swapped, NEW e \in out.found, e \in reported
                PROVE  FALSE
    OBVIOUS
  <2>1. e \in Found /\ chunk.from < e
    BY DEF Watching, ChunkIsRead, Found, Within
  <2>2. e + 1 <= chunk.from
    BY <2>1 DEF Watching, ReadOnce
  <2>3. e \in Nat /\ chunk.from \in Nat
    BY CheckAssumption DEF Watching, TypeOK
  <2>. QED
    BY <2>1, <2>2, <2>3
<1>. QED
  BY SpecWatching, <1>1, PTL DEF Spec, ReportedOnce

(* FileActivityCheck calls a file unchanged only when it was, for any ages  *)
(* and over any number of restarts.                                         *)
THEOREM SpecSilenceIsReal == Spec => SilenceIsReal
<1>1. Watching /\ [Next]_vars
        => [Judges /\ out'.status \in {"warning", "critical"} /\ ~out'.shrunk
              => now - changedAt >= WarningAge \/ fooled']_vars
  <2>. SUFFICES ASSUME Watching, [Next]_vars, Judges, out'.status \in {"warning", "critical"},
                       ~out'.shrunk, ~fooled'
                PROVE  now - changedAt >= WarningAge
    OBVIOUS
  <2>1. Judge
    BY NextCases DEF Judges, Append, Truncate, Remove, Create, Changed, Tick, Start,
       LogFileMissing, Identify, Measure, ReadData, SaveLog, Match, ActivityCancelled,
       ActivityFileMissing, SaveActivity, Finish, SaveFails, GiveUp, Crash, Ends, vars
  <2>2. /\ out'.status = Judgement /\ out'.shrunk = Shrunk
        /\ fooled' = (act.known /\ Size = act.size /\ (fooled \/ touched))
    BY <2>1 DEF Judge, Result
  <2>3. /\ now \in Nat /\ changedAt \in Nat /\ act.since \in Nat
        /\ WarningAge \in Nat \ {0} /\ CriticalAge \in Nat /\ WarningAge <= CriticalAge
    BY CheckAssumption DEF Watching, TypeOK
  <2>4. ~Shrunk /\ Judgement \in {"warning", "critical"}
    BY <2>2
  <2>5. Since \in Nat /\ now - Since >= WarningAge
    BY <2>3, <2>4 DEF Judgement, Since
  <2>6. Since = act.since /\ act.known /\ Size = act.size
    BY <2>3, <2>5 DEF Since
  <2>7. changedAt <= act.since
    BY <2>2, <2>6 DEF Watching, SinceIsTrue
  <2>. QED
    BY <2>3, <2>5, <2>6, <2>7
<1>. QED
  BY SpecWatching, <1>1, PTL DEF Spec, SilenceIsReal

(* A file that is smaller than the last result said is reported, over any   *)
(* number of restarts, unless a result was lost.                            *)
THEOREM SpecShrinkIsReported == Spec => ShrinkIsReported
<1>1. Watching /\ [Next]_vars
        => [FailOnShrink /\ Judges /\ ~missed /\ Size < told
              => out'.status = "critical" /\ out'.shrunk]_vars
  <2>. SUFFICES ASSUME Watching, [Next]_vars, FailOnShrink, Judges, ~missed, Size < told
                PROVE  out'.status = "critical" /\ out'.shrunk
    OBVIOUS
  <2>1. Judge
    BY NextCases DEF Judges, Append, Truncate, Remove, Create, Changed, Tick, Start,
       LogFileMissing, Identify, Measure, ReadData, SaveLog, Match, ActivityCancelled,
       ActivityFileMissing, SaveActivity, Finish, SaveFails, GiveUp, Crash, Ends, vars
  <2>2. out'.status = Judgement /\ out'.shrunk = Shrunk /\ pc = "started"
    BY <2>1 DEF Judge, Result
  <2>3. told # Never
    BY DEF Watching, TypeOK, Files, Size, Never
  <2>4. act.known /\ act.size = told
    BY <2>2, <2>3 DEF Watching, ActivityTold, Knows
  <2>5. Shrunk
    BY <2>4 DEF Shrunk
  <2>. QED
    BY <2>2, <2>5 DEF Judgement
<1>. QED
  BY SpecWatching, <1>1, PTL DEF Spec, ShrinkIsReported
===============================================================================
