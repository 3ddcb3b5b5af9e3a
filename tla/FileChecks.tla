------------------------------ MODULE FileChecks ------------------------------
(***************************************************************************)
(* The two health checks that keep state between executions (checks.cpp):  *)
(* LogPatternCheck reads what was appended to a log since the last time    *)
(* and searches it for error patterns; FileActivityCheck reports a file    *)
(* that shrinks or stops changing.  Both keep what they know in memory and *)
(* in LocalStorage.  One file is watched by one check, while the program   *)
(* that owns the file appends, truncates and rotates it between any two    *)
(* steps, the scheduler gives up on executions and the agent restarts.     *)
(*                                                                         *)
(* Bytes are abstracted to serial numbers: the n-th unit ever written to   *)
(* the path is n.  A file holds a contiguous range of them, and an error   *)
(* is the pair of units <<e, e + 1>> for e in Errors, in which one pattern *)
(* of a group is found.  A file has the volume's file index as its id; ids *)
(* are not used again.                                                     *)
(***************************************************************************)
EXTENDS Integers, FiniteSets

CONSTANTS Errors,          \* first units of the errors
          Group, Place,    \* the group of an error's pattern, its place in that
          MaxRead,         \* max_read_bytes
          WarningAge,      \* warning_unchanged_seconds
          CriticalAge,     \* critical_unchanged_seconds
          FailOnShrink,    \* fail_on_shrink
          MaxWritten, MaxFiles, MaxTime, \* bounds of the environment
          MaxFaults                   \* crashes, refused writes and timeouts together

ASSUME CheckAssumption ==
  /\ Errors \subseteq Nat \ {0}
  /\ DOMAIN Group = Errors /\ Place \in [Errors -> Nat]
  /\ MaxRead \in Nat \ {0}
  /\ WarningAge \in Nat \ {0} /\ CriticalAge \in Nat /\ WarningAge <= CriticalAge
  /\ FailOnShrink \in BOOLEAN
  /\ {MaxWritten, MaxFiles, MaxTime, MaxFaults} \subseteq Nat

VARIABLES
  kind,         \* the check that is configured for the file: "log" or "activity"
  file,         \* [present, id, start]: it holds the units start + 1 .. written
  written,      \* units written so far
  now,          \* the wall clock
  pc,           \* where the execution is
  stop,         \* its stop token
  log,          \* LogPatternCheck: [known, id, offset]
  logState,     \* ... in the table log_state
  act,          \* FileActivityCheck: [known, size, since]
  actState,     \* ... in the table file_state
  chunk,        \* the execution's locals: [take, from, upto]
  out,          \* ... and its result: [status, size, shrunk, found]
  faults,       \* bounded by MaxFaults
  (* Observed by the properties only.                                      *)
  reported,     \* errors in a delivered result
  undelivered,  \* errors in a chunk whose result was not delivered
  borders,      \* errors whose first unit ended a chunk
  overshadowed, \* errors in a chunk with an earlier pattern of their group
  counted,      \* [memory, store]: the file the offset was counted in
  skipped,      \* a truncated file grew past the old offset before it was read
  swapped,      \* the file was replaced between two steps of an execution
  changedAt,    \* when the size of the file last changed
  touched,      \* it has changed since the check last looked at it
  fooled,       \* it had changed, and come back to the size the check knew
  told,         \* the size in the last delivered result of FileActivityCheck
  missed        \* an execution since then was not delivered

env == <<file, written, now, changedAt>>
memory == <<log, act>>
stored == <<logState, actState>>
logGhosts == <<reported, undelivered, borders, overshadowed, counted, skipped, swapped>>
actGhosts == <<told, missed, touched, fooled>>
vars == <<kind, env, pc, stop, memory, stored, chunk, out, faults,
          logGhosts, actGhosts>>

Never == -1
NoLog == [known |-> FALSE, id |-> 0, offset |-> 0]
NoAct == [known |-> FALSE, size |-> 0, since |-> 0]
NoChunk == [take |-> 0, from |-> 0, upto |-> 0]
Result(status, size, shrunk, found) ==
  [status |-> status, size |-> size, shrunk |-> shrunk, found |-> found]
Unknown == Result("unknown", Never, FALSE, {})

Size == written - file.start
(* The errors that lie wholly within the units from + 1 .. upto.          *)
Within(from, upto) == {e \in Errors : from < e /\ e + 1 <= upto}

(* The pattern of f is tried before that of e, in the same group.           *)
Before(f, e) == Group[f] = Group[e] /\ Place[f] < Place[e]

Init == /\ kind \in {"log", "activity"}
        /\ file = [present |-> TRUE, id |-> 1, start |-> 0]
        /\ written = 0 /\ now = 0
        /\ pc = "idle" /\ stop = FALSE
        /\ log = NoLog /\ logState = NoLog
        /\ act = NoAct /\ actState = NoAct
        /\ chunk = NoChunk /\ out = Unknown
        /\ faults = 0
        /\ reported = {} /\ undelivered = {} /\ borders = {}
        /\ overshadowed = {}
        /\ counted = [memory |-> file, store |-> file]
        /\ skipped = FALSE /\ swapped = FALSE
        /\ changedAt = 0 /\ touched = FALSE /\ fooled = FALSE
        /\ told = Never /\ missed = FALSE
-------------------------------------------------------------------------------
(* The program that owns the file, and time.                                *)
Changed == /\ changedAt' = now
           /\ touched' = (kind = "activity")
           /\ UNCHANGED <<kind, now, pc, stop, memory, stored, chunk, out,
                          faults, logGhosts, told, missed, fooled>>

Append == /\ file.present /\ written < MaxWritten
          /\ written' = written + 1
          /\ UNCHANGED file
          /\ Changed

Truncate == /\ file.present /\ Size > 0
            /\ file' = [file EXCEPT !.start = written]
            /\ UNCHANGED written
            /\ Changed

(* A rotation renames the file away and creates another one.                *)
Remove == /\ file.present /\ file.id < MaxFiles
          /\ file' = [file EXCEPT !.present = FALSE]
          /\ UNCHANGED written
          /\ Changed

Create == /\ ~file.present
          /\ file' = [present |-> TRUE, id |-> file.id + 1, start |-> written]
          /\ UNCHANGED written
          /\ Changed

Tick == /\ kind = "activity" /\ now < MaxTime
        /\ now' = now + 1
        /\ UNCHANGED <<kind, file, written, changedAt, pc, stop, memory,
                       stored, chunk, out, faults, logGhosts, actGhosts>>
-------------------------------------------------------------------------------
(* An execution.                                                            *)
Same == UNCHANGED <<kind, env, faults>>

Start == /\ pc = "idle"
         /\ pc' = "started"
         /\ UNCHANGED <<stop, memory, stored, chunk, out, logGhosts, actGhosts>>
         /\ Same

Ends(result) == /\ pc' = "matched"
                /\ out' = result

(* LogPatternCheck::execute.  The file is looked up by its path three times:*)
(* for its identity, for its size and for its data.                         *)
LogFileMissing == /\ kind = "log" /\ pc = "started" /\ ~file.present
                  /\ Ends(Result("warning", Never, FALSE, {}))
                  /\ UNCHANGED <<stop, memory, stored, chunk, logGhosts,
                                 actGhosts>>
                  /\ Same

Identified_IgnoresIndex == [known |-> TRUE, id |-> file.id, offset |-> log.offset]

Identified == [known |-> TRUE, id |-> file.id,
               offset |-> IF log.known /\ file.id # log.id THEN 0 ELSE log.offset]

Identify == /\ kind = "log" /\ pc = "started" /\ file.present
            /\ log' = Identified
            /\ pc' = "identified"
            /\ UNCHANGED <<act, stop, stored, chunk, out, logGhosts, actGhosts>>
            /\ Same

Measured_AtEnd == IF Size <= log.offset THEN [log EXCEPT !.offset = 0] ELSE log

Measured == IF Size < log.offset THEN [log EXCEPT !.offset = 0] ELSE log

Least(a, b) == IF a < b THEN a ELSE b

Measure == /\ kind = "log" /\ pc = "identified"
           /\ IF file.present
              THEN /\ log' = Measured
                   /\ chunk' = [NoChunk EXCEPT
                                  !.take = Least(Size - Measured.offset, MaxRead)]
                   /\ pc' = "measured"
                   /\ UNCHANGED out
              ELSE /\ Ends(Unknown)
                   /\ UNCHANGED <<log, chunk>>
           /\ UNCHANGED <<act, stop, stored, logGhosts, actGhosts>>
           /\ Same

(* A file that cannot be opened or ends before the offset gives no data.    *)
Data == LET from == file.start + log.offset
            left == IF file.present /\ Size > log.offset THEN Size - log.offset ELSE 0
        IN [chunk EXCEPT !.from = from, !.upto = from + Least(chunk.take, left)]

ReadData ==
  /\ kind = "log" /\ pc = "measured"
  /\ chunk' = Data
  /\ log' = [log EXCEPT !.offset = @ + (Data.upto - Data.from)]
  /\ pc' = "read"
  /\ swapped' = (swapped \/ (file.present /\ file.id # log.id))
  /\ IF Data.upto > Data.from
     THEN /\ borders' = borders \cup ({Data.upto} \cap Errors)
          /\ counted' = [counted EXCEPT !.memory = file]
          /\ skipped' = (skipped \/ (log.offset > 0 /\ file.id = counted.memory.id
                                      /\ file # counted.memory))
     ELSE UNCHANGED <<borders, counted, skipped>>
  /\ UNCHANGED <<act, stop, stored, out, reported, undelivered, overshadowed,
                 actGhosts>>
  /\ Same

save_log_state == /\ logState' = log
                  /\ counted' = [counted EXCEPT !.store = counted.memory]

(* The offset is stored before the data is searched.                        *)
SaveLog == /\ kind = "log" /\ pc = "read"
           /\ save_log_state
           /\ pc' = "saved"
           /\ UNCHANGED <<actState, memory, stop, chunk, out, reported,
                          undelivered, borders, overshadowed, skipped, swapped,
                          actGhosts>>
           /\ Same

Found == Within(chunk.from, chunk.upto)

(* The search of a group ends with the first of its patterns that is found. *)
Named == {e \in Found : ~ \E f \in Found : Before(f, e)}

Match == /\ kind = "log" /\ pc = "saved"
         /\ Ends(IF stop THEN Unknown
                 ELSE Result(IF Named = {} THEN "ok" ELSE "critical", Never, FALSE, Named))
         /\ UNCHANGED <<stop, memory, stored, chunk, logGhosts, actGhosts>>
         /\ Same
-------------------------------------------------------------------------------
(* FileActivityCheck::execute.                                              *)
ActivityCancelled == /\ kind = "activity" /\ pc = "started" /\ stop
                     /\ Ends(Unknown)
                     /\ UNCHANGED <<stop, memory, stored, chunk, logGhosts,
                                    actGhosts>>
                     /\ Same

ActivityFileMissing == /\ kind = "activity" /\ pc = "started" /\ ~stop
                       /\ ~file.present
                       /\ \/ Ends(Result("critical", Never, FALSE, {}))
                          \/ Ends(Unknown)       \* gone after exists() said yes
                       /\ UNCHANGED <<stop, memory, stored, chunk, logGhosts,
                                      actGhosts>>
                       /\ Same

Shrunk == act.known /\ Size < act.size

Since_GrowthOnly == IF ~act.known \/ Size > act.size THEN now ELSE act.since

Since == IF ~act.known \/ Size # act.size THEN now ELSE act.since

Judgement == IF (Shrunk /\ FailOnShrink) \/ now - Since >= CriticalAge THEN "critical"
             ELSE IF now - Since >= WarningAge THEN "warning" ELSE "ok"

Judge == /\ kind = "activity" /\ pc = "started" /\ ~stop /\ file.present
         /\ act' = [known |-> TRUE, size |-> Size, since |-> Since]
         /\ out' = Result(Judgement, Size, Shrunk, {})
         /\ pc' = "judged"
         /\ touched' = FALSE
         /\ fooled' = (act.known /\ Size = act.size /\ (fooled \/ touched))
         /\ UNCHANGED <<log, stop, stored, chunk, logGhosts, told, missed>>
         /\ Same

save_file_state == actState' = act

SaveActivity == /\ kind = "activity" /\ pc = "judged"
                /\ save_file_state
                /\ pc' = "matched"
                /\ UNCHANGED <<logState, memory, stop, chunk, out, logGhosts,
                               actGhosts>>
                /\ Same

(* SQLite refuses the write: execute throws, and the worker answers with an *)
(* internal error.  What the check has in memory has moved on.              *)
SaveFails == /\ pc \in {"read", "judged"} /\ faults < MaxFaults
             /\ faults' = faults + 1
             /\ Ends(Unknown)
             /\ missed' = (missed \/ pc = "judged")
             /\ UNCHANGED <<kind, env, stop, memory, stored, chunk,
                            logGhosts, told, touched, fooled>>
-------------------------------------------------------------------------------
(* The execution is through: its result is delivered, or dropped because    *)
(* run_once gave up on it (a later run_once that waits for the same         *)
(* execution may still get it).                                             *)
Observed == kind = "activity" /\ pc = "matched" /\ out.size # Never

Deliver == /\ reported' = reported \cup out.found
           /\ IF Observed THEN told' = out.size /\ missed' = FALSE
              ELSE UNCHANGED <<told, missed>>

Drop == /\ missed' = (missed \/ Observed)
        /\ UNCHANGED <<reported, told>>

Finish == /\ pc = "matched"
          /\ \/ Deliver
             \/ stop /\ Drop
          /\ undelivered' = undelivered \cup (Named \ reported')
          /\ overshadowed' = overshadowed \cup (Found \ Named)
          /\ pc' = "idle" /\ stop' = FALSE
          /\ chunk' = NoChunk /\ out' = Unknown
          /\ UNCHANGED <<memory, stored, borders, counted, skipped, swapped, touched,
                         fooled>>
          /\ Same

GiveUp == /\ pc # "idle" /\ ~stop /\ faults < MaxFaults
          /\ stop' = TRUE
          /\ faults' = faults + 1
          /\ UNCHANGED <<kind, env, pc, memory, stored, chunk, out,
                         logGhosts, actGhosts>>

(* The agent ends and starts again: the constructors load what is stored.   *)
load_log_state_Blank == NoLog

load_log_state == logState

load_file_state_Blank == NoAct

load_file_state == actState

Crash == /\ faults < MaxFaults
         /\ faults' = faults + 1
         /\ pc' = "idle" /\ stop' = FALSE
         /\ log' = load_log_state /\ act' = load_file_state
         /\ counted' = [counted EXCEPT !.memory = counted.store]
         /\ chunk' = NoChunk /\ out' = Unknown
         /\ undelivered' = undelivered
                            \cup (IF pc \in {"saved", "matched"} THEN Found ELSE {})
         /\ missed' = (missed \/ Observed)
         /\ touched' = (touched \/ act # actState)
         /\ UNCHANGED <<kind, env, stored, reported, borders, overshadowed, skipped,
                        swapped, told, fooled>>
-------------------------------------------------------------------------------
Environment == Append \/ Truncate \/ Remove \/ Create \/ Tick

LogStep == LogFileMissing \/ Identify \/ Measure \/ ReadData \/ SaveLog \/ Match

ActivityStep == ActivityCancelled \/ ActivityFileMissing \/ Judge \/ SaveActivity

Step == Start \/ LogStep \/ ActivityStep \/ Finish

Next == Environment \/ Step \/ SaveFails \/ GiveUp \/ Crash

Spec == Init /\ [][Next]_vars

(* The scheduler runs the check in every cycle of the application.          *)
FairSpec == Spec /\ WF_vars(Step)
-------------------------------------------------------------------------------
Files == [present : BOOLEAN, id : Nat, start : Nat]

(* Types of every variable; the unsigned subtraction size - offset stays    *)
(* a natural number whatever happens to the file.                           *)
TypeOK ==
  /\ kind \in {"log", "activity"}
  /\ file \in Files
  /\ written \in Nat /\ now \in Nat /\ file.start <= written
  /\ pc \in {"idle", "started", "identified", "measured", "read", "saved", "judged",
             "matched"}
  /\ stop \in BOOLEAN
  /\ {log, logState} \subseteq [known : BOOLEAN, id : Nat, offset : Nat]
  /\ {act, actState} \subseteq [known : BOOLEAN, size : Nat, since : Nat]
  /\ chunk \in [take : Nat, from : Nat, upto : Nat]
  /\ out \in [status : {"ok", "warning", "critical", "unknown"},
             size : Nat \cup {Never}, shrunk : BOOLEAN, found : SUBSET Errors]
  /\ faults \in Nat
  /\ reported \subseteq Errors /\ undelivered \subseteq Errors
  /\ borders \subseteq Errors /\ overshadowed \subseteq Errors
  /\ counted \in [memory : Files, store : Files]
  /\ {skipped, swapped, missed, touched, fooled} \subseteq BOOLEAN
  /\ changedAt \in Nat /\ told \in Nat \cup {Never}

(* Every variable has its type, and the reader's position never passes an   *)
(* error silently: one before it was reported, unless a chunk ended in its  *)
(* middle, its execution was given up on after it had stored the offset,    *)
(* the file was truncated and grew past the old offset unobserved, or an    *)
(* earlier pattern of its group was found in the same chunk, which is then  *)
(* reported in its place (or lost like any other result).                   *)
ErrorsAreReported ==
  /\ TypeOK
  /\ (/\ kind = "log" /\ pc = "idle" /\ file.present /\ ~skipped
      /\ log.id = file.id /\ counted.memory = file)
     => Within(file.start, file.start + log.offset)
          \subseteq reported \cup undelivered \cup borders \cup overshadowed
  /\ \A e \in overshadowed : \E f \in reported \cup undelivered : Before(f, e)

(* A log entry raises one alarm: no truncation, rotation, restart or failed *)
(* write makes the check report an error again, because the offset is      *)
(* stored before the result leaves; only a file that is replaced between    *)
(* two steps of one execution is read twice.                                *)
ReportedOnce ==
  [][pc = "matched" /\ pc' = "idle" /\ faults' = faults /\ ~swapped
       => out.found \cap reported = {}]_vars

(* However the log was truncated and rotated, once it is left alone the     *)
(* check reads to its end.                                                  *)
CatchesUp ==
  kind = "log" => <>[](file.present => log.id = file.id /\ log.offset = Size)

Judges == pc = "started" /\ pc' = "judged"

(* A file is called unchanged only when its size has been the same for that *)
(* long, also across restarts and for what happened while the agent was     *)
(* down; last_write_time is not compared, so that a file which came back to *)
(* the size the check knew is the exception.                                *)
SilenceIsReal ==
  [][Judges /\ out'.status \in {"warning", "critical"} /\ ~out'.shrunk
       => now - changedAt >= WarningAge \/ fooled']_vars

(* A file that is smaller than in the last result that was delivered is     *)
(* reported, also when the agent restarted in between, unless the result of *)
(* an execution that saw it was lost.                                       *)
ShrinkIsReported ==
  [][FailOnShrink /\ Judges /\ ~missed /\ Size < told
       => out'.status = "critical" /\ out'.shrunk]_vars
===============================================================================
