---------------------------- MODULE SignalQuality ----------------------------
(***************************************************************************)
(* The online signals of a site: the part of Application::cycle that reads *)
(* the current samples, stores them one by one in signal_history, has      *)
(* DataQualityAnalyzer compare them with what it remembers of each signal  *)
(* and with the archive, and starts from the stored samples after a        *)
(* restart.                                                                *)
(*                                                                         *)
(* Problems that a single sample shows by itself (bad_quality,             *)
(* out_of_range, invalid_sentinel) and the rate of change are left out.    *)
(* A signal has at most one sample for each source timestamp, and every    *)
(* signal has an enabled rule.                                             *)
(***************************************************************************)
EXTENDS Integers, FiniteSets

CONSTANTS NumSignals,      \* signals are read in the order of their names
          ValuesOf(_),     \* the values a signal takes
          Epsilon,         \* frozen_epsilon
          FrozenAfter,     \* frozen_after_seconds
          Period,          \* expected_period_seconds * missing_period_multiplier
          MaxAge,          \* max_age_seconds
          Delay,           \* archive_delay_seconds
          Window,          \* archive_match_window_seconds
          Tolerance,       \* archive_absolute_tolerance
          Lookback,        \* the 60 seconds of Application::cycle
          BatchLimit,      \* maximum_batch_size of the archive
          MaxSamples(_), MaxTime, MaxFaults          \* bounds

ASSUME QualityAssumption ==
  /\ NumSignals \in Nat \ {0}
  /\ \A s \in 1..NumSignals : ValuesOf(s) \subseteq Nat /\ ValuesOf(s) # {}
  /\ {Epsilon, Period, MaxAge, Delay, Window, Tolerance, Lookback,
      MaxTime, MaxFaults} \subseteq Nat
  /\ FrozenAfter \in Nat \ {0}        \* validated: positive
  /\ BatchLimit \in Nat \ {0}
  /\ \A s \in 1..NumSignals : MaxSamples(s) \in Nat

Signals == 1..NumSignals

(* As format_utc writes them; as another text; as a number.                 *)
Formats == {"utc", "text", "number"}

Samples == [known : BOOLEAN, value : Nat, at : Nat]
NoSample == [known |-> FALSE, value |-> 0, at |-> 0]
Sample(v, t) == [known |-> TRUE, value |-> v, at |-> t]
NoHistory == [previous |-> NoSample, since |-> 0]

VARIABLES
  now,       \* the wall clock
  source,    \* what the data source holds as the current sample of a signal
  made,      \* the samples there have been
  pc,        \* where the cycle is
  online,    \* the samples this cycle has read
  next,      \* the next signal to store
  history,   \* DataQualityAnalyzer::history_
  table,     \* signal_history in LocalStorage
  format,    \* how the archive writes its timestamps
  archive,   \* what the archive holds when this cycle asks it
  whole,     \* the archive was read to the end of the range
  results,   \* the issues of this cycle
  faults,    \* bounded by MaxFaults
  (* Observed by the properties only.                                      *)
  seen,      \* the samples analysed since the agent started, and the restored one
  newest,    \* the newest source timestamp ever analysed, 0 if none
  late,      \* a sample was analysed after a newer one
  lost       \* a sample was stored, and the agent ended before the analysis

world == <<now, source, made, format>>
cycle == <<pc, online, next, archive, whole, results>>
ghosts == <<seen, newest, late, lost>>
vars == <<world, cycle, history, table, faults, ghosts>>

Present == {s \in Signals : online[s].known}
Older(x, y) == x.at < y.at
Distance(a, b) == IF a > b THEN a - b ELSE b - a
Jump(x, y) == Distance(x.value, y.value) > Epsilon

EmptyCycle == /\ pc' = "idle"
              /\ online' = [s \in Signals |-> NoSample]
              /\ next' = 1
              /\ archive' = {} /\ whole' = TRUE /\ results' = {}

Init == /\ now = 1
        /\ source = [s \in Signals |-> NoSample]
        /\ made = [s \in Signals |-> {}]
        /\ format \in Formats
        /\ pc = "idle" /\ online = [s \in Signals |-> NoSample] /\ next = 1
        /\ archive = {} /\ whole = TRUE /\ results = {}
        /\ history = [s \in Signals |-> NoHistory]
        /\ table = [s \in Signals |-> NoSample]
        /\ faults = 0
        /\ seen = [s \in Signals |-> {}]
        /\ newest = [s \in Signals |-> 0]
        /\ late = [s \in Signals |-> FALSE]
        /\ lost = [s \in Signals |-> FALSE]
-------------------------------------------------------------------------------
(* The site: time passes, and a signal has a new sample, now or belated.    *)
Tick == /\ now < MaxTime
        /\ now' = now + 1
        /\ UNCHANGED <<source, made, format, cycle, history, table, faults, ghosts>>

Produce(s) == \E v \in ValuesOf(s), t \in 1..now :
                /\ Cardinality(made[s]) < MaxSamples(s)
                /\ \A x \in made[s] : x.at # t
                /\ source' = [source EXCEPT ![s] = Sample(v, t)]
                /\ made' = [made EXCEPT ![s] = @ \cup {Sample(v, t)}]
                /\ UNCHANGED <<now, format, cycle, history, table, faults, ghosts>>
-------------------------------------------------------------------------------
(* The cycle.                                                               *)
ReadCurrent == /\ pc = "idle"
               /\ online' = source
               /\ pc' = "saving" /\ next' = 1
               /\ UNCHANGED <<world, archive, whole, results, history, table, faults,
                              ghosts>>

SaveSample == /\ pc = "saving" /\ next \in Signals
              /\ table' = IF online[next].known THEN [table EXCEPT ![next] = online[next]]
                          ELSE table
              /\ next' = next + 1
              /\ UNCHANGED <<world, pc, online, archive, whole, results, history, faults,
                             ghosts>>

(* An exception of the data source or of SQLite ends the cycle's look at    *)
(* the signals; what was found before it is kept.                           *)
Fails == /\ pc \in {"idle", "saving", "analysed"} /\ faults < MaxFaults
         /\ faults' = faults + 1
         /\ EmptyCycle
         /\ UNCHANGED <<world, history, table, ghosts>>

(* DataQualityAnalyzer::analyze for one sample x and the history h.         *)
Delta(x, h) == x.at - h.previous.at

Since_KeepsOnJump(x, h) == IF h.previous.known THEN h.since ELSE x.at

Since(x, h) == IF ~h.previous.known \/ Jump(x, h.previous) THEN x.at ELSE h.since

IssuesOf(x, h) ==
  {p \in {"stale", "non_monotonic_timestamp", "missing_samples", "frozen"} :
     \/ p = "stale" /\ now - x.at > MaxAge
     \/ p = "non_monotonic_timestamp" /\ h.previous.known /\ Delta(x, h) < 0
     \/ p = "missing_samples" /\ h.previous.known /\ Delta(x, h) > Period
     \/ p = "frozen" /\ h.previous.known /\ x.at - Since(x, h) >= FrozenAfter}

Remembered_Latest(x, h) == [previous |-> x, since |-> Since(x, h)]

Remembered(x, h) ==
  [previous |-> IF h.previous.known /\ Older(x, h.previous) THEN h.previous ELSE x,
   since |-> Since(x, h)]

Superseded(s) == \/ online[s].at < newest[s]
                 \/ \E x \in seen[s] : Older(online[s], x)

Analyze ==
  /\ pc = "saving" /\ next \notin Signals
  /\ results' = UNION {{<<s, p>> : p \in IssuesOf(online[s], history[s])} : s \in Present}
  /\ history' = [s \in Signals |-> IF s \in Present THEN Remembered(online[s], history[s])
                                   ELSE history[s]]
  /\ seen' = [s \in Signals |-> IF s \in Present THEN seen[s] \cup {online[s]} ELSE seen[s]]
  /\ newest' = [s \in Signals |-> IF online[s].at > newest[s] THEN online[s].at
                                  ELSE newest[s]]
  /\ late' = [s \in Signals |-> late[s] \/ (s \in Present /\ Superseded(s))]
  /\ lost' = [s \in Signals |-> lost[s] /\ s \notin Present]
  /\ pc' = "analysed"
  /\ UNCHANGED <<world, online, next, archive, whole, table, faults>>

(* What read_archive returns of the archive: the samples of the last while  *)
(* before the first online sample, the oldest first, up to the batch size,  *)
(* and fewer of them when the deadline or the byte limit ends the loop.     *)
(* The query compares the column with texts of format_utc: all numbers sort *)
(* before them, and of other texts those that seem to lie within the range  *)
(* cannot be parsed, and end the cycle's look at the signals.               *)
First == CHOOSE s \in Present : \A r \in Present : s <= r
From == online[First].at - Lookback
InRange(a) ==
  IF format = "utc" THEN {x \in a : x.at >= From /\ x.at <= now} ELSE {}
Read(a, most) == {x \in InRange(a) :
                    Cardinality({y \in InRange(a) : y.at < x.at
                                      \/ (y.at = x.at /\ y.signal < x.signal)}) < most}

(* DataQualityAnalyzer::compare_archive with the samples a.                 *)
Nearest(s, a) == {x \in a : /\ x.signal = s
                            /\ \A y \in a : y.signal = s =>
                                 Distance(x.at, online[s].at) <= Distance(y.at, online[s].at)}

Due(s) == now - online[s].at >= Delay

Missing_OutsideOnly(s, a) == \A x \in Nearest(s, a) : Distance(x.at, online[s].at) >= Window

Missing(s, a) == \A x \in Nearest(s, a) : Distance(x.at, online[s].at) > Window

(* Of two samples equally far away the earlier one was read first.          *)
Best(s, a) == CHOOSE x \in Nearest(s, a) : \A y \in Nearest(s, a) : x.at <= y.at

Compared(a) ==
  {<<s, "archive_missing">> : s \in {r \in Present : Due(r) /\ Missing(r, a)}}
    \cup {<<s, "archive_mismatch">> : s \in {r \in Present :
            /\ Due(r) /\ ~Missing(r, a)
            /\ Distance(Best(r, a).value, online[r].value) > Tolerance}}

Archivable == UNION {{[signal |-> s, value |-> x.value, at |-> x.at] : x \in made[s]} :
                       s \in Signals}

Compare == /\ pc = "analysed"
           /\ IF Present = {}
              THEN UNCHANGED <<archive, whole, results>>
              ELSE \E a \in SUBSET Archivable, most \in 0..BatchLimit :
                     /\ archive' = a
                     /\ whole' = (Read(a, most) = InRange(a))
                     /\ results' = results \cup Compared(Read(a, most))
           /\ pc' = "compared"
           /\ UNCHANGED <<world, online, next, history, table, faults, ghosts>>

NotParsed == /\ pc = "analysed" /\ Present # {}
             /\ format = "text"
             /\ EmptyCycle
             /\ UNCHANGED <<world, history, table, faults, ghosts>>

Finish == /\ pc = "compared"
          /\ EmptyCycle
          /\ UNCHANGED <<world, history, table, faults, ghosts>>

(* restore_history: a stored sample is the previous one, and stable since   *)
(* its own time.                                                            *)
Restored_Blank(x) == NoHistory

Restored(x) == IF x.known THEN [previous |-> x, since |-> x.at] ELSE NoHistory

Crash == /\ faults < MaxFaults
         /\ faults' = faults + 1
         /\ history' = [s \in Signals |-> Restored(table[s])]
         /\ seen' = [s \in Signals |-> {table[s]} \ {NoSample}]
         /\ lost' = [s \in Signals |-> lost[s] \/ table[s].at > newest[s]]
         /\ late' = [s \in Signals |-> late[s] \/ (table[s].known /\ table[s].at < newest[s])]
         /\ EmptyCycle
         /\ UNCHANGED <<world, table, newest>>
-------------------------------------------------------------------------------
Site == Tick \/ \E s \in Signals : Produce(s)

Cycle == ReadCurrent \/ SaveSample \/ Analyze \/ Compare \/ NotParsed \/ Finish

Next == Site \/ Cycle \/ Fails \/ Crash

Spec == Init /\ [][Next]_vars
-------------------------------------------------------------------------------
(* Types of every variable.                                                 *)
TypeOK == /\ now \in Nat /\ faults \in Nat
          /\ format \in Formats
          /\ {source, online, table} \subseteq [Signals -> Samples]
          /\ made \in [Signals -> SUBSET Samples] /\ seen \in [Signals -> SUBSET Samples]
          /\ pc \in {"idle", "saving", "analysed", "compared"}
          /\ next \in 1..(NumSignals + 1)
          /\ history \in [Signals -> [previous : Samples, since : Nat]]
          /\ archive \subseteq [signal : Signals, value : Nat, at : Nat]
          /\ whole \in BOOLEAN
          /\ results \subseteq Signals \X {"stale", "non_monotonic_timestamp",
               "missing_samples", "frozen", "archive_missing", "archive_mismatch"}
          /\ newest \in [Signals -> Nat]
          /\ late \in [Signals -> BOOLEAN] /\ lost \in [Signals -> BOOLEAN]

(* Every variable has its type, and the one sample the analyzer remembers   *)
(* of a signal is the newest of all it was given since the agent started,   *)
(* the restored one included, whatever the order they came in.              *)
RemembersNewest ==
  /\ TypeOK
  /\ \A s \in Signals :
       IF seen[s] = {} THEN ~history[s].previous.known
       ELSE /\ history[s].previous \in seen[s]
            /\ \A x \in seen[s] : x.at <= history[s].previous.at

Analyzes == pc = "saving" /\ pc' = "analysed"
Compares == pc = "analysed" /\ pc' = "compared"

(* x and y come one after the other in what was analysed, y later.          *)
Adjacent(x, y, S) == Older(x, y) /\ ~ \E z \in S : Older(x, z) /\ Older(z, y)

(* The samples S hold still from the time t on.                             *)
Still(S, t) == \A x, y \in S : Adjacent(x, y, S) /\ t < y.at => ~Jump(x, y)

(* "frozen" is reported exactly when no sample jumped for FrozenAfter in    *)
(* all that was analysed since the agent started; the analyzer keeps one    *)
(* sample and one time instead.  Samples that come late are the exception.  *)
FrozenIsRight ==
  [][Analyzes => \A s \in Present : ~late'[s] =>
       (<<s, "frozen">> \in results' <=>
          \E x \in seen[s] : /\ online[s].at - x.at >= FrozenAfter
                             /\ Still(seen'[s], x.at))]_vars

(* A gap between two samples of a signal is reported, also when the agent   *)
(* was down in between, unless it ended after it had stored the sample      *)
(* after the gap and before it analysed it.                                 *)
GapIsReported ==
  [][Analyzes => \A s \in Present :
       ~late'[s] /\ ~lost[s] /\ newest[s] > 0 =>
         (<<s, "missing_samples">> \in results' <=> online[s].at - newest[s] > Period)]_vars

(* "No archive sample exists in the configured match window" is true of an  *)
(* archive that writes its times as the agent does, for a signal whose      *)
(* window lies within what was asked for and read to the end.  Of any other *)
(* archive it is said of every sample that is due, whatever it holds.       *)
MissingIsReal ==
  [][Compares => \A s \in Present :
       /\ <<s, "archive_missing">> \in results'
       /\ format = "utc"
       /\ online[s].at - Window >= From
       /\ whole'
       => \A x \in archive' : x.signal = s /\ x.at <= now =>
            Distance(x.at, online[s].at) > Window]_vars
===============================================================================
