-------------------------- MODULE SignalQualityProofs --------------------------
(***************************************************************************)
(* Theorems about SignalQuality for any number of signals, any values and  *)
(* any configuration of the rules.                                         *)
(***************************************************************************)
EXTENDS SignalQuality, WellFoundedInduction, TLAPS

(* Every next-state step is one of these; the case split of the proofs.     *)
LEMMA NextCases ==
  ASSUME [Next]_vars
  PROVE  \/ Tick \/ (\E s \in Signals : Produce(s)) \/ ReadCurrent \/ SaveSample
         \/ Analyze \/ Compare \/ NotParsed \/ Finish \/ Fails \/ Crash \/ UNCHANGED vars
BY DEF Next, Site, Cycle

LEMMA SampleTypes ==
  /\ NoSample \in Samples /\ NoSample.at = 0 /\ ~NoSample.known
  /\ NoHistory \in [previous : Samples, since : Nat] /\ ~NoHistory.previous.known
  /\ \A x \in Samples : x.at \in Nat /\ x.value \in Nat /\ x.known \in BOOLEAN
  /\ NumSignals \in Nat /\ NumSignals > 0 /\ Signals = 1..NumSignals
BY QualityAssumption DEF NoSample, NoHistory, Samples, Signals

(* What the analyzer remembers of a signal has its type.                    *)
LEMMA RememberedTypes ==
  ASSUME NEW x \in Samples, NEW h \in [previous : Samples, since : Nat]
  PROVE  Remembered(x, h) \in [previous : Samples, since : Nat]
BY SampleTypes DEF Remembered, Since
-----------------------------------------------------------------------------
(* The inductive invariant, in parts.                                       *)

(* A variable holds samples there were, or none; no two of a signal have    *)
(* the same source timestamp.                                               *)
OneSampleAtATime ==
  \A s \in Signals :
    /\ seen[s] \subseteq made[s]
    /\ {source[s], online[s], table[s]} \subseteq made[s] \cup {NoSample}
    /\ \A x, y \in made[s] : x.known /\ (x.at = y.at => x = y)

(* What was analysed had been stored before.                                *)
StoredFirst ==
  \A s \in Signals :
    /\ newest[s] > 0 => table[s].known
    /\ pc = "saving" /\ s < next /\ online[s].known => table[s].known

(* While nothing comes late and nothing is lost, the remembered sample is   *)
(* the newest ever analysed, over restarts too.                             *)
RemembersOverRestarts ==
  \A s \in Signals :
    ~late[s] /\ ~lost[s] /\ newest[s] > 0
      => history[s].previous.known /\ history[s].previous.at = newest[s]

(* The archive has not been judged before it is compared.                   *)
NotYetCompared ==
  pc \in {"idle", "saving", "analysed"} => \A s \in Signals : <<s, "archive_missing">> \notin results

(* While nothing comes late, the time that is kept is the earliest from     *)
(* which on the samples hold still.                                         *)
SinceIsEarliest ==
  \A s \in Signals :
    ~late[s] /\ seen[s] # {} =>
      /\ \E x \in seen[s] : x.at = history[s].since
      /\ Still(seen[s], history[s].since)
      /\ \A x \in seen[s] : Still(seen[s], x.at) => history[s].since <= x.at

Remembering == /\ RemembersNewest /\ OneSampleAtATime /\ StoredFirst
               /\ RemembersOverRestarts /\ NotYetCompared /\ SinceIsEarliest

-----------------------------------------------------------------------------
(* The invariant holds when the agent starts for the first time.            *)
LEMMA RememberingInit == Init => Remembering
<1>. SUFFICES ASSUME Init PROVE Remembering
  OBVIOUS
<1>. USE SampleTypes DEF Init
<1>1. RemembersNewest
  BY DEF RemembersNewest, TypeOK
<1>2. OneSampleAtATime /\ StoredFirst /\ RemembersOverRestarts /\ NotYetCompared
  BY DEF OneSampleAtATime, StoredFirst, RemembersOverRestarts, NotYetCompared
<1>3. SinceIsEarliest
  BY DEF SinceIsEarliest
<1>. QED
  BY <1>1, <1>2, <1>3 DEF Remembering

(* What every cycle begins with has its type.                               *)
LEMMA EmptyCycleTypes ==
  ASSUME EmptyCycle
  PROVE  /\ pc' = "idle" /\ online' \in [Signals -> Samples]
         /\ next' \in 1..(NumSignals + 1)
         /\ archive' = {} /\ whole' \in BOOLEAN /\ results' = {}
BY SampleTypes DEF EmptyCycle

(* The types hold after every step.                                         *)
LEMMA TypeStep == TypeOK /\ [Next]_vars => TypeOK'
<1>. SUFFICES ASSUME TypeOK, [Next]_vars PROVE TypeOK'
  OBVIOUS
<1>. USE SampleTypes DEF TypeOK, world, cycle, ghosts
<1>1. CASE Tick
  BY <1>1 DEF Tick
<1>2. ASSUME NEW s \in Signals, Produce(s) PROVE TypeOK'
  <2>1. PICK v \in ValuesOf(s), t \in 1..now :
          /\ source' = [source EXCEPT ![s] = Sample(v, t)]
          /\ made' = [made EXCEPT ![s] = @ \cup {Sample(v, t)}]
    BY <1>2 DEF Produce
  <2>2. ValuesOf(s) \subseteq Nat
    BY QualityAssumption
  <2>3. Sample(v, t) \in Samples
    BY <2>2 DEF Sample, Samples
  <2>. QED
    BY <1>2, <2>1, <2>3 DEF Produce
<1>3. CASE ReadCurrent
  BY <1>3 DEF ReadCurrent
<1>4. CASE SaveSample
  <2>1. next \in Signals /\ online[next] \in Samples
    BY <1>4 DEF SaveSample
  <2>2. table' \in [Signals -> Samples]
    BY <1>4, <2>1 DEF SaveSample
  <2>3. next' \in 1..(NumSignals + 1)
    BY <1>4, <2>1 DEF SaveSample
  <2>. QED
    BY <1>4, <2>2, <2>3 DEF SaveSample
<1>5. CASE Analyze
  <2>1. history' \in [Signals -> [previous : Samples, since : Nat]]
    BY <1>5, RememberedTypes DEF Analyze
  <2>2. results' \subseteq Signals \X {"stale", "non_monotonic_timestamp", "missing_samples", "frozen"}
    BY <1>5 DEF Analyze, IssuesOf, Present
  <2>3. /\ seen' \in [Signals -> SUBSET Samples] /\ newest' \in [Signals -> Nat]
        /\ late' \in [Signals -> BOOLEAN] /\ lost' \in [Signals -> BOOLEAN]
    BY <1>5 DEF Analyze, Present, Superseded
  <2>. QED
    BY <1>5, <2>1, <2>2, <2>3 DEF Analyze
<1>6. CASE Compare
  <2>1. archive' \subseteq [signal : Signals, value : Nat, at : Nat] /\ whole' \in BOOLEAN
    <3>1. Archivable \subseteq [signal : Signals, value : Nat, at : Nat]
      BY DEF Archivable
    <3>. QED
      BY <1>6, <3>1 DEF Compare
  <2>2. \A a : Compared(a) \subseteq Signals \X {"archive_missing", "archive_mismatch"}
    BY DEF Compared, Present
  <2>3. results' \subseteq Signals \X {"stale", "non_monotonic_timestamp",
          "missing_samples", "frozen", "archive_missing", "archive_mismatch"}
    BY <1>6, <2>2 DEF Compare
  <2>. QED
    BY <1>6, <2>1, <2>3 DEF Compare
<1>7. CASE Finish \/ NotParsed
  BY <1>7, EmptyCycleTypes DEF Finish, NotParsed
<1>8. CASE Fails
  <2>1. /\ pc' = "idle" /\ online' \in [Signals -> Samples]
        /\ next' \in 1..(NumSignals + 1)
        /\ archive' = {} /\ whole' \in BOOLEAN /\ results' = {}
    BY <1>8, EmptyCycleTypes DEF Fails
  <2>2. faults' \in Nat /\ UNCHANGED <<now, source, made, format, history, table, seen, newest, late, lost>>
    BY <1>8 DEF Fails
  <2>. QED
    BY <2>1, <2>2
<1>9. CASE Crash
  <2>1. history' \in [Signals -> [previous : Samples, since : Nat]]
    BY <1>9 DEF Crash, Restored
  <2>2. /\ seen' \in [Signals -> SUBSET Samples]
        /\ late' \in [Signals -> BOOLEAN] /\ lost' \in [Signals -> BOOLEAN]
    BY <1>9 DEF Crash
  <2>3. /\ pc' = "idle" /\ online' \in [Signals -> Samples]
        /\ next' \in 1..(NumSignals + 1)
        /\ archive' = {} /\ whole' \in BOOLEAN /\ results' = {}
    BY <1>9, EmptyCycleTypes DEF Crash
  <2>4. faults' \in Nat /\ UNCHANGED <<now, source, made, format, table, newest>>
    BY <1>9 DEF Crash
  <2>. QED
    BY <2>1, <2>2, <2>3, <2>4
<1>10. CASE UNCHANGED vars
  BY <1>10 DEF vars
<1>. QED
  BY <1>1, <1>2, <1>3, <1>4, <1>5, <1>6, <1>7, <1>8, <1>9, <1>10, NextCases
-----------------------------------------------------------------------------
(* A cycle ends as it began: nothing is read, nothing is found.             *)
LEMMA EmptyCycleFacts ==
  ASSUME EmptyCycle
  PROVE  pc' = "idle" /\ results' = {} /\ \A s \in Signals : online'[s] = NoSample
BY DEF EmptyCycle

(* Only the analysis and a restart change what is remembered.               *)
LEMMA HistoryKept ==
  ASSUME [Next]_vars, ~Analyze, ~Crash
  PROVE  UNCHANGED <<history, seen, newest, late, lost>>
<1>1. CASE Tick
  BY <1>1 DEF Tick, ghosts
<1>2. ASSUME NEW s \in Signals, Produce(s)
      PROVE  UNCHANGED <<history, seen, newest, late, lost>>
  BY <1>2 DEF Produce, ghosts
<1>3. CASE ReadCurrent
  BY <1>3 DEF ReadCurrent, ghosts
<1>4. CASE SaveSample
  BY <1>4 DEF SaveSample, ghosts
<1>5. CASE Compare
  BY <1>5 DEF Compare, ghosts
<1>6. CASE Finish \/ NotParsed
  BY <1>6 DEF Finish, NotParsed, ghosts
<1>7. CASE Fails
  BY <1>7 DEF Fails, ghosts
<1>8. CASE UNCHANGED vars
  BY <1>8 DEF vars, ghosts
<1>. QED
  BY <1>1, <1>2, <1>3, <1>4, <1>5, <1>6, <1>7, <1>8, NextCases

(* What the analysis does to one signal.                                    *)
LEMMA AnalyzeOne ==
  ASSUME TypeOK, Analyze, NEW s \in Signals
  PROVE  /\ s \in Present =>
              /\ history'[s] = Remembered(online[s], history[s])
              /\ seen'[s] = seen[s] \cup {online[s]}
              /\ lost'[s] = FALSE
              /\ late'[s] = (late[s] \/ Superseded(s))
         /\ s \notin Present =>
              /\ history'[s] = history[s] /\ seen'[s] = seen[s]
              /\ late'[s] = late[s] /\ lost'[s] = lost[s]
         /\ newest'[s] = IF online[s].at > newest[s] THEN online[s].at ELSE newest[s]
         /\ s \in Present <=> online[s].known
         /\ online' = online /\ table' = table /\ made' = made /\ source' = source
         /\ pc = "saving" /\ pc' = "analysed" /\ next = NumSignals + 1
<1>. USE SampleTypes DEF Analyze, TypeOK
<1>1. /\ s \in Present => history'[s] = Remembered(online[s], history[s])
                           /\ seen'[s] = seen[s] \cup {online[s]}
      /\ s \notin Present => history'[s] = history[s] /\ seen'[s] = seen[s]
  OBVIOUS
<1>2. s \in Present => lost'[s] = FALSE /\ late'[s] = (late[s] \/ Superseded(s))
  OBVIOUS
<1>3. s \notin Present => late'[s] = late[s] /\ lost'[s] = lost[s]
  OBVIOUS
<1>4. s \in Present <=> online[s].known
  BY DEF Present
<1>5. /\ newest'[s] = IF online[s].at > newest[s] THEN online[s].at ELSE newest[s]
      /\ online' = online /\ table' = table /\ made' = made /\ source' = source
      /\ pc = "saving" /\ pc' = "analysed" /\ next = NumSignals + 1
  BY DEF world
<1>. QED
  BY <1>1, <1>2, <1>3, <1>4, <1>5

(* What a restart makes of one signal.                                      *)
LEMMA CrashOne ==
  ASSUME TypeOK, Crash, NEW s \in Signals
  PROVE  /\ history'[s] = Restored(table[s])
         /\ seen'[s] = {table[s]} \ {NoSample}
         /\ lost'[s] = (lost[s] \/ table[s].at > newest[s])
         /\ late'[s] = (late[s] \/ (table[s].known /\ table[s].at < newest[s]))
         /\ newest' = newest /\ table' = table /\ made' = made /\ source' = source
         /\ pc' = "idle" /\ results' = {} /\ online'[s] = NoSample
<1>. USE DEF Crash, TypeOK
<1>1. /\ history'[s] = Restored(table[s])
      /\ seen'[s] = {table[s]} \ {NoSample}
  OBVIOUS
<1>2. lost'[s] = (lost[s] \/ table[s].at > newest[s])
  OBVIOUS
<1>3. late'[s] = (late[s] \/ (table[s].known /\ table[s].at < newest[s]))
  OBVIOUS
<1>4. /\ newest' = newest /\ table' = table /\ made' = made /\ source' = source
      /\ pc' = "idle" /\ results' = {} /\ online'[s] = NoSample
  BY EmptyCycleFacts DEF world
<1>. QED
  BY <1>1, <1>2, <1>3, <1>4
-----------------------------------------------------------------------------
(* Each part of the invariant is kept by every step.                        *)
LEMMA OneSampleStep ==
  ASSUME TypeOK, OneSampleAtATime, [Next]_vars
  PROVE  OneSampleAtATime'
<1>. SUFFICES ASSUME NEW r \in Signals
              PROVE  /\ seen'[r] \subseteq made'[r]
                     /\ {source'[r], online'[r], table'[r]} \subseteq made'[r] \cup {NoSample}
                     /\ \A x, y \in made'[r] : x.known /\ (x.at = y.at => x = y)
  BY DEF OneSampleAtATime
<1>. USE SampleTypes DEF OneSampleAtATime, TypeOK
<1>1. CASE Tick
  BY <1>1 DEF Tick, cycle, ghosts
<1>2. ASSUME NEW s \in Signals, Produce(s)
      PROVE  /\ seen'[r] \subseteq made'[r]
             /\ {source'[r], online'[r], table'[r]} \subseteq made'[r] \cup {NoSample}
             /\ \A x, y \in made'[r] : x.known /\ (x.at = y.at => x = y)
  <2>. HIDE DEF TypeOK, OneSampleAtATime
  <2>1. PICK v \in ValuesOf(s), t \in 1..now :
          /\ \A x \in made[s] : x.at # t
          /\ source' = [source EXCEPT ![s] = Sample(v, t)]
          /\ made' = [made EXCEPT ![s] = @ \cup {Sample(v, t)}]
    BY <1>2 DEF Produce
  <2>. USE DEF TypeOK, OneSampleAtATime
  <2>2. UNCHANGED <<online, table, seen>>
    BY <1>2 DEF Produce, cycle, ghosts
  <2>3. Sample(v, t).known /\ Sample(v, t).at = t
    BY DEF Sample
  <2>4. CASE r = s
    <3>1. made'[r] = made[r] \cup {Sample(v, t)} /\ source'[r] = Sample(v, t)
      BY <2>1, <2>4
    <3>. QED
      BY <2>1, <2>2, <2>3, <2>4, <3>1
  <2>5. CASE r # s
    <3>1. made'[r] = made[r] /\ source'[r] = source[r]
      BY <2>1, <2>5
    <3>. QED
      BY <2>2, <3>1
  <2>. QED
    BY <2>4, <2>5
<1>3. CASE ReadCurrent
  BY <1>3 DEF ReadCurrent, world, ghosts
<1>4. CASE SaveSample
  <2>1. table'[r] \in {table[r], online[r]} /\ UNCHANGED <<source, made, online, seen>>
    BY <1>4 DEF SaveSample, world, ghosts
  <2>. QED
    BY <2>1
<1>5. CASE Analyze
  <2>1. online[r].known => online[r] \in made[r]
    OBVIOUS
  <2>2. seen'[r] = seen[r] \/ (seen'[r] = seen[r] \cup {online[r]} /\ online[r].known)
    <3>. HIDE DEF TypeOK, OneSampleAtATime
    <3>. QED
      BY <1>5, AnalyzeOne
  <2>3. online' = online /\ table' = table /\ made' = made /\ source' = source
    BY <1>5, AnalyzeOne
  <2>. QED
    BY <2>1, <2>2, <2>3
<1>6. CASE Compare
  BY <1>6 DEF Compare, world, ghosts
<1>7. CASE Finish \/ NotParsed
  BY <1>7, EmptyCycleFacts DEF Finish, NotParsed, world, ghosts
<1>8. CASE Fails
  BY <1>8, EmptyCycleFacts DEF Fails, world, ghosts
<1>9. CASE Crash
  <2>1. /\ seen'[r] = {table[r]} \ {NoSample} /\ online'[r] = NoSample
        /\ table' = table /\ made' = made /\ source' = source
    BY <1>9, CrashOne
  <2>. QED
    BY <2>1
<1>10. CASE UNCHANGED vars
  BY <1>10 DEF vars, world, cycle, ghosts
<1>. QED
  BY <1>1, <1>2, <1>3, <1>4, <1>5, <1>6, <1>7, <1>8, <1>9, <1>10, NextCases

LEMMA StoredFirstStep ==
  ASSUME TypeOK, OneSampleAtATime, StoredFirst, [Next]_vars
  PROVE  StoredFirst'
<1>. SUFFICES ASSUME NEW r \in Signals
              PROVE  /\ newest'[r] > 0 => table'[r].known
                     /\ pc' = "saving" /\ r < next' /\ online'[r].known => table'[r].known
  BY DEF StoredFirst
<1>. USE SampleTypes DEF StoredFirst, TypeOK
<1>1. CASE Tick
  BY <1>1 DEF Tick, cycle, ghosts
<1>2. ASSUME NEW s \in Signals, Produce(s)
      PROVE  /\ newest'[r] > 0 => table'[r].known
             /\ pc' = "saving" /\ r < next' /\ online'[r].known => table'[r].known
  BY <1>2 DEF Produce, cycle, ghosts
<1>3. CASE ReadCurrent
  BY <1>3 DEF ReadCurrent, world, ghosts
<1>4. CASE SaveSample
  <2>1. /\ UNCHANGED <<pc, online, newest>> /\ pc = "saving"
        /\ next \in Signals /\ next' = next + 1
    BY <1>4 DEF SaveSample, ghosts
  <2>2. r = next => table'[r] = IF online[r].known THEN online[r] ELSE table[r]
    BY <1>4 DEF SaveSample
  <2>3. r # next => table'[r] = table[r]
    BY <1>4 DEF SaveSample
  <2>4. CASE r = next
    <3>1. table'[r].known <=> online[r].known \/ table[r].known
      BY <2>2, <2>4
    <3>2. newest[r] > 0 => table[r].known
      OBVIOUS
    <3>. QED
      BY <2>1, <3>1, <3>2
  <2>5. CASE r # next
    <3>1. /\ newest[r] > 0 => table[r].known
          /\ r < next /\ online[r].known => table[r].known
      BY <2>1
    <3>2. r < next' => r < next
      BY <2>1, <2>5
    <3>. QED
      BY <2>1, <2>3, <2>5, <3>1, <3>2
  <2>. QED
    BY <2>4, <2>5
<1>5. CASE Analyze
  <2>1. /\ newest'[r] = IF online[r].at > newest[r] THEN online[r].at ELSE newest[r]
        /\ table' = table /\ pc = "saving" /\ pc' = "analysed" /\ next = NumSignals + 1
    BY <1>5, AnalyzeOne
  <2>2. online[r].at > 0 => online[r].known
    BY DEF OneSampleAtATime
  <2>. QED
    BY <2>1, <2>2
<1>6. CASE Compare
  BY <1>6 DEF Compare, world, ghosts
<1>7. CASE Finish \/ NotParsed
  BY <1>7, EmptyCycleFacts DEF Finish, NotParsed, world, ghosts
<1>8. CASE Fails
  BY <1>8, EmptyCycleFacts DEF Fails, world, ghosts
<1>9. CASE Crash
  BY <1>9, CrashOne
<1>10. CASE UNCHANGED vars
  BY <1>10 DEF vars, world, cycle, ghosts
<1>. QED
  BY <1>1, <1>2, <1>3, <1>4, <1>5, <1>6, <1>7, <1>8, <1>9, <1>10, NextCases

LEMMA NotYetComparedStep ==
  ASSUME TypeOK, NotYetCompared, [Next]_vars
  PROVE  NotYetCompared'
<1>. USE DEF NotYetCompared
<1>1. CASE Tick
  BY <1>1 DEF Tick, cycle
<1>2. ASSUME NEW s \in Signals, Produce(s) PROVE NotYetCompared'
  BY <1>2 DEF Produce, cycle
<1>3. CASE ReadCurrent
  BY <1>3 DEF ReadCurrent
<1>4. CASE SaveSample
  BY <1>4 DEF SaveSample
<1>5. CASE Analyze
  <2>1. results' = UNION {{<<s, p>> : p \in IssuesOf(online[s], history[s])} : s \in Present}
    BY <1>5 DEF Analyze
  <2>. QED
    BY <2>1 DEF IssuesOf
<1>6. CASE Compare
  BY <1>6 DEF Compare
<1>7. CASE Finish \/ NotParsed
  BY <1>7, EmptyCycleFacts DEF Finish, NotParsed
<1>8. CASE Fails
  BY <1>8, EmptyCycleFacts DEF Fails
<1>9. CASE Crash
  BY <1>9, EmptyCycleFacts DEF Crash
<1>10. CASE UNCHANGED vars
  BY <1>10 DEF vars, cycle
<1>. QED
  BY <1>1, <1>2, <1>3, <1>4, <1>5, <1>6, <1>7, <1>8, <1>9, <1>10, NextCases
-----------------------------------------------------------------------------
(* A sample that does not come late is the one that is remembered.          *)
LEMMA InOrder ==
  ASSUME TypeOK, RemembersNewest, OneSampleAtATime, Analyze,
         NEW s \in Signals, s \in Present, ~late'[s]
  PROVE  /\ online[s] \in made[s] /\ online[s] \in Samples /\ ~late[s]
         /\ \A y \in seen[s] : y.at <= online[s].at
         /\ newest'[s] = online[s].at
         /\ history'[s].previous = online[s]
         /\ history'[s].since = Since(online[s], history[s])
         /\ seen[s] = {} <=> ~history[s].previous.known
<1>1. /\ late'[s] = (late[s] \/ Superseded(s))
      /\ history'[s] = Remembered(online[s], history[s])
      /\ newest'[s] = IF online[s].at > newest[s] THEN online[s].at ELSE newest[s]
      /\ online[s].known
  BY AnalyzeOne
<1>2. /\ online[s] \in Samples /\ history[s].previous \in Samples
      /\ newest[s] \in Nat /\ seen[s] \subseteq Samples /\ late[s] \in BOOLEAN
      /\ online[s].at \in Nat /\ history[s].previous.at \in Nat
      /\ \A y \in seen[s] : y.at \in Nat
  BY SampleTypes DEF TypeOK
<1>3. /\ seen[s] \subseteq made[s] /\ \A y \in made[s] : y.known
      /\ online[s] \in made[s] \cup {NoSample}
  BY DEF OneSampleAtATime
<1>4. ~Superseded(s) /\ ~late[s]
  BY <1>1
<1>5. online[s].at >= newest[s] /\ \A y \in seen[s] : y.at <= online[s].at
  BY <1>2, <1>4 DEF Superseded, Older
<1>6. /\ seen[s] = {} => ~history[s].previous.known
      /\ seen[s] # {} => history[s].previous \in seen[s]
  BY DEF RemembersNewest
<1>7. ~(history[s].previous.known /\ Older(online[s], history[s].previous))
  BY <1>2, <1>5, <1>6 DEF Older
<1>8. history'[s].previous = online[s] /\ history'[s].since = Since(online[s], history[s])
  BY <1>1, <1>7 DEF Remembered
<1>9. newest'[s] = online[s].at
  BY <1>1, <1>2, <1>5
<1>10. online[s] \in made[s]
  BY <1>1, <1>3, SampleTypes
<1>. QED
  BY <1>2, <1>3, <1>4, <1>5, <1>6, <1>8, <1>9, <1>10

LEMMA RemembersNewestStep ==
  ASSUME RemembersNewest, OneSampleAtATime, [Next]_vars
  PROVE  RemembersNewest'
<1>1. TypeOK /\ TypeOK'
  BY TypeStep DEF RemembersNewest
<1>2. SUFFICES ASSUME NEW s \in Signals
               PROVE  IF seen'[s] = {} THEN ~history'[s].previous.known
                      ELSE /\ history'[s].previous \in seen'[s]
                           /\ \A x \in seen'[s] : x.at <= history'[s].previous.at
  BY <1>1 DEF RemembersNewest
<1>3. IF seen[s] = {} THEN ~history[s].previous.known
      ELSE /\ history[s].previous \in seen[s]
           /\ \A x \in seen[s] : x.at <= history[s].previous.at
  BY DEF RemembersNewest
<1>4. /\ seen[s] \subseteq made[s] /\ \A y \in made[s] : y.known
      /\ table[s] \in made[s] \cup {NoSample}
  BY DEF OneSampleAtATime
<1>5. /\ seen[s] \subseteq Samples /\ online[s] \in Samples /\ history[s].previous \in Samples
      /\ \A y \in Samples : y.at \in Nat
      /\ table[s] \in Samples
  BY <1>1, SampleTypes DEF TypeOK
<1>6. CASE Analyze
  <2>1. CASE s \notin Present
    <3>1. history'[s] = history[s] /\ seen'[s] = seen[s]
      BY <1>1, <1>6, <2>1, AnalyzeOne
    <3>. QED
      BY <1>3, <3>1
  <2>2. CASE s \in Present
    <3>1. /\ history'[s] = Remembered(online[s], history[s])
          /\ seen'[s] = seen[s] \cup {online[s]}
      BY <1>1, <1>6, <2>2, AnalyzeOne
    <3>2. CASE history[s].previous.known /\ Older(online[s], history[s].previous)
      <4>1. history'[s].previous = history[s].previous
        BY <3>1, <3>2 DEF Remembered
      <4>2. seen[s] # {}
        BY <1>3, <3>2
      <4>3. history[s].previous \in seen'[s] /\ online[s].at <= history[s].previous.at
        BY <1>3, <1>5, <3>1, <3>2, <4>2 DEF Older
      <4>. QED
        BY <1>3, <3>1, <4>1, <4>2, <4>3
    <3>3. CASE ~(history[s].previous.known /\ Older(online[s], history[s].previous))
      <4>1. history'[s].previous = online[s]
        BY <3>1, <3>3 DEF Remembered
      <4>2. \A x \in seen[s] : x.at <= online[s].at
        <5>1. SUFFICES ASSUME NEW x \in seen[s] PROVE x.at <= online[s].at
          OBVIOUS
        <5>2. history[s].previous \in seen[s] /\ x.at <= history[s].previous.at
          BY <1>3
        <5>3. history[s].previous.at <= online[s].at
          BY <1>4, <1>5, <3>3, <5>2 DEF Older
        <5>. QED
          BY <1>5, <5>2, <5>3
      <4>. QED
        BY <1>5, <3>1, <4>1, <4>2
    <3>. QED
      BY <3>2, <3>3
  <2>. QED
    BY <2>1, <2>2
<1>7. CASE Crash
  <2>1. history'[s] = Restored(table[s]) /\ seen'[s] = {table[s]} \ {NoSample}
    BY <1>1, <1>7, CrashOne
  <2>2. CASE table[s] = NoSample
    BY <2>1, <2>2, SampleTypes DEF Restored
  <2>3. CASE table[s] # NoSample
    <3>1. history'[s].previous = table[s] /\ seen'[s] = {table[s]}
      BY <1>4, <2>1, <2>3 DEF Restored
    <3>. QED
      BY <1>5, <3>1
  <2>. QED
    BY <2>2, <2>3
<1>8. CASE ~Analyze /\ ~Crash
  <2>1. history' = history /\ seen' = seen
    BY <1>8, HistoryKept
  <2>. QED
    BY <1>3, <2>1
<1>. QED
  BY <1>6, <1>7, <1>8

LEMMA RemembersOverRestartsStep ==
  ASSUME RemembersNewest, OneSampleAtATime, StoredFirst, RemembersOverRestarts, [Next]_vars
  PROVE  RemembersOverRestarts'
<1>1. TypeOK
  BY DEF RemembersNewest
<1>2. SUFFICES ASSUME NEW s \in Signals, ~late'[s], ~lost'[s], newest'[s] > 0
               PROVE  history'[s].previous.known /\ history'[s].previous.at = newest'[s]
  BY DEF RemembersOverRestarts
<1>3. ~late[s] /\ ~lost[s] /\ newest[s] > 0
        => history[s].previous.known /\ history[s].previous.at = newest[s]
  BY DEF RemembersOverRestarts
<1>4. /\ online[s] \in Samples /\ table[s] \in Samples /\ newest[s] \in Nat
      /\ online[s].at \in Nat /\ table[s].at \in Nat
      /\ online[s] \in made[s] \cup {NoSample}
  BY <1>1, SampleTypes DEF TypeOK, OneSampleAtATime
<1>5. CASE Analyze
  <2>1. CASE s \in Present
    <3>1. history'[s].previous = online[s] /\ newest'[s] = online[s].at
      BY <1>1, <1>2, <1>5, <2>1, InOrder
    <3>2. online[s].known
      BY <1>1, <1>5, <2>1, AnalyzeOne
    <3>. QED
      BY <3>1, <3>2
  <2>2. CASE s \notin Present
    <3>1. /\ history'[s] = history[s] /\ late'[s] = late[s] /\ lost'[s] = lost[s]
          /\ newest'[s] = IF online[s].at > newest[s] THEN online[s].at ELSE newest[s]
          /\ ~online[s].known
      BY <1>1, <1>5, <2>2, AnalyzeOne
    <3>2. online[s].at = 0
      BY <1>4, <3>1, SampleTypes DEF OneSampleAtATime
    <3>. QED
      BY <1>2, <1>3, <1>4, <3>1, <3>2
  <2>. QED
    BY <2>1, <2>2
<1>6. CASE Crash
  <2>1. /\ history'[s] = Restored(table[s]) /\ newest'[s] = newest[s]
        /\ lost'[s] = (lost[s] \/ table[s].at > newest[s])
        /\ late'[s] = (late[s] \/ (table[s].known /\ table[s].at < newest[s]))
    BY <1>1, <1>6, CrashOne
  <2>2. table[s].known
    BY <1>2, <2>1 DEF StoredFirst
  <2>3. table[s].at = newest[s]
    <3>1. ~(table[s].at > newest[s]) /\ ~(table[s].at < newest[s])
      BY <1>2, <2>1, <2>2, Zenon
    <3>. QED
      BY <1>4, <3>1
  <2>. QED
    BY <2>1, <2>2, <2>3 DEF Restored
<1>7. CASE ~Analyze /\ ~Crash
  <2>1. UNCHANGED <<history, newest, late, lost>>
    BY <1>7, HistoryKept
  <2>. QED
    BY <1>2, <1>3, <2>1
<1>. QED
  BY <1>5, <1>6, <1>7
-----------------------------------------------------------------------------
(* Samples that hold still.                                                 *)
LEMMA SamplesApart ==
  ASSUME TypeOK, OneSampleAtATime, NEW s \in Signals
  PROVE  \A x, y \in made[s] : /\ x.at \in Nat /\ y.at \in Nat /\ x.known
                               /\ (x.at = y.at => x = y)
                               /\ ~Jump(x, x) /\ (Jump(x, y) <=> Jump(y, x))
<1>1. /\ made[s] \subseteq Samples /\ \A x \in Samples : x.at \in Nat /\ x.value \in Nat
      /\ \A x, y \in made[s] : x.known /\ (x.at = y.at => x = y)
      /\ Epsilon \in Nat
  BY SampleTypes, QualityAssumption DEF TypeOK, OneSampleAtATime
<1>2. \A x, y \in made[s] : ~Jump(x, x) /\ (Jump(x, y) <=> Jump(y, x))
  BY <1>1 DEF Jump, Distance
<1>. QED
  BY <1>1, <1>2

(* A sample x newer than all of S: only the newest p of S comes before it.  *)
LEMMA StillWithOneMore ==
  ASSUME NEW S, NEW x, NEW p \in S, NEW t \in Nat,
         x.at \in Nat, \A y \in S : y.at \in Nat /\ y.at < x.at /\ y.at <= p.at,
         \A y \in S : y.at = p.at => y = p,
         t < x.at
  PROVE  Still(S \cup {x}, t) <=> Still(S, t) /\ ~Jump(p, x)
<1>1. \A y, z \in S : Adjacent(y, z, S \cup {x}) <=> Adjacent(y, z, S)
  BY DEF Adjacent, Older
<1>2. Adjacent(p, x, S \cup {x})
  BY DEF Adjacent, Older
<1>3. \A y \in S \cup {x} : Adjacent(y, x, S \cup {x}) => y = p
  BY DEF Adjacent, Older
<1>4. \A y \in S : ~Adjacent(x, y, S \cup {x})
  BY DEF Adjacent, Older
<1>5. Still(S \cup {x}, t) => Still(S, t) /\ ~Jump(p, x)
  BY <1>1, <1>2 DEF Still
<1>6. Still(S, t) /\ ~Jump(p, x) => Still(S \cup {x}, t)
  BY <1>1, <1>3, <1>4 DEF Still
<1>. QED
  BY <1>5, <1>6

(* The part of SinceIsEarliest about one signal.                            *)
EarliestOf(S, t) == /\ \E x \in S : x.at = t
                    /\ Still(S, t)
                    /\ \A x \in S : Still(S, x.at) => t <= x.at

LEMMA SinceOfAnalyzed ==
  ASSUME TypeOK, RemembersNewest, OneSampleAtATime, SinceIsEarliest, Analyze,
         NEW s \in Signals, s \in Present, ~late'[s]
  PROVE  EarliestOf(seen'[s], history'[s].since)
<1>. DEFINE x == online[s]
            p == history[s].previous
            S == seen[s]
<1>1. /\ x \in made[s] /\ ~late[s] /\ \A y \in S : y.at <= x.at
      /\ history'[s].since = Since(x, history[s])
      /\ S = {} <=> ~p.known
  BY InOrder
<1>2. seen'[s] = S \cup {x}
  BY AnalyzeOne
<1>3. S \subseteq made[s] /\ x.at \in Nat
  BY <1>1, SamplesApart DEF OneSampleAtATime
<1>4. CASE S = {}
  <2>1. history'[s].since = x.at /\ seen'[s] = {x}
    BY <1>1, <1>2, <1>4 DEF Since
  <2>. QED
    BY <1>3, <2>1 DEF EarliestOf, Still, Adjacent, Older
<1>5. CASE S # {}
  <2>1. p \in S /\ p \in made[s] /\ p.known /\ \A y \in S : y.at <= p.at
    BY <1>1, <1>3, <1>5 DEF RemembersNewest
  <2>2. EarliestOf(S, history[s].since)
    BY <1>1, <1>5 DEF SinceIsEarliest, EarliestOf
  <2>3. history[s].since \in Nat
    BY <1>3, <2>2, SamplesApart DEF EarliestOf
  <2>4. CASE x \in S
    <3>1. x = p
      BY <1>1, <1>3, <2>1, <2>4, SamplesApart
    <3>2. history'[s].since = history[s].since
      BY <1>1, <2>1, <3>1, SamplesApart DEF Since
    <3>3. seen'[s] = S
      BY <1>2, <2>4
    <3>. QED
      BY <2>2, <3>2, <3>3
  <2>5. CASE x \notin S
    <3>1. \A y \in S : y.at \in Nat /\ y.at < x.at /\ y.at <= p.at /\ (y.at = p.at => y = p)
      BY <1>1, <1>3, <2>1, <2>5, SamplesApart
    <3>2. \A t \in Nat : t < x.at => (Still(S \cup {x}, t) <=> Still(S, t) /\ ~Jump(p, x))
      BY <1>3, <2>1, <3>1, StillWithOneMore
    <3>3. Jump(x, p) <=> Jump(p, x)
      BY <1>1, <2>1, SamplesApart
    <3>4. CASE Jump(x, p)
      <4>1. history'[s].since = x.at
        BY <1>1, <3>4 DEF Since
      <4>2. Still(S \cup {x}, x.at)
        BY <1>3, <3>1 DEF Still
      <4>3. \A y \in S \cup {x} : Still(S \cup {x}, y.at) => x.at <= y.at
        BY <1>3, <3>1, <3>2, <3>3, <3>4
      <4>. QED
        BY <1>2, <4>1, <4>2, <4>3 DEF EarliestOf
    <3>5. CASE ~Jump(x, p)
      <4>1. history'[s].since = history[s].since
        BY <1>1, <2>1, <3>5 DEF Since
      <4>2. history[s].since < x.at
        BY <2>2, <3>1 DEF EarliestOf
      <4>3. Still(S \cup {x}, history[s].since)
        BY <2>2, <2>3, <3>2, <3>3, <3>5, <4>2 DEF EarliestOf
      <4>4. \A y \in S \cup {x} : Still(S \cup {x}, y.at) => history[s].since <= y.at
        BY <1>3, <2>2, <2>3, <3>1, <3>2, <4>2 DEF EarliestOf
      <4>5. \E y \in S \cup {x} : y.at = history[s].since
        BY <2>2 DEF EarliestOf
      <4>. QED
        BY <1>2, <4>1, <4>3, <4>4, <4>5 DEF EarliestOf
    <3>. QED
      BY <3>4, <3>5
  <2>. QED
    BY <2>4, <2>5
<1>. QED
  BY <1>4, <1>5

LEMMA SinceIsEarliestStep ==
  ASSUME RemembersNewest, OneSampleAtATime, SinceIsEarliest, [Next]_vars
  PROVE  SinceIsEarliest'
<1>1. TypeOK
  BY DEF RemembersNewest
<1>2. SUFFICES ASSUME NEW s \in Signals, ~late'[s], seen'[s] # {}
               PROVE  EarliestOf(seen'[s], history'[s].since)
  BY DEF SinceIsEarliest, EarliestOf
<1>3. ~late[s] /\ seen[s] # {} => EarliestOf(seen[s], history[s].since)
  BY DEF SinceIsEarliest, EarliestOf
<1>4. CASE Analyze
  <2>1. CASE s \in Present
    BY <1>1, <1>2, <1>4, <2>1, SinceOfAnalyzed
  <2>2. CASE s \notin Present
    <3>1. history'[s] = history[s] /\ late'[s] = late[s] /\ seen'[s] = seen[s]
      BY <1>1, <1>4, <2>2, AnalyzeOne
    <3>. QED
      BY <1>2, <1>3, <3>1
  <2>. QED
    BY <2>1, <2>2
<1>5. CASE Crash
  <2>1. history'[s] = Restored(table[s]) /\ seen'[s] = {table[s]} \ {NoSample}
    BY <1>1, <1>5, CrashOne
  <2>2. table[s] \in made[s] /\ seen'[s] = {table[s]}
    BY <1>2, <2>1 DEF OneSampleAtATime
  <2>3. table[s].known /\ table[s].at \in Nat
    BY <1>1, <2>2, SamplesApart
  <2>4. history'[s].since = table[s].at
    BY <2>1, <2>3 DEF Restored
  <2>. QED
    BY <2>2, <2>3, <2>4 DEF EarliestOf, Still, Adjacent, Older
<1>6. CASE ~Analyze /\ ~Crash
  <2>1. UNCHANGED <<history, seen, late>>
    BY <1>6, HistoryKept
  <2>. QED
    BY <1>2, <1>3, <2>1
<1>. QED
  BY <1>4, <1>5, <1>6
-----------------------------------------------------------------------------
(* The invariant holds in every state, for any constants.                   *)
LEMMA RememberingStep == Remembering /\ [Next]_vars => Remembering'
<1>. SUFFICES ASSUME Remembering, [Next]_vars PROVE Remembering'
  OBVIOUS
<1>1. TypeOK
  BY DEF Remembering, RemembersNewest
<1>. QED
  BY <1>1, RemembersNewestStep, OneSampleStep, StoredFirstStep, RemembersOverRestartsStep,
     NotYetComparedStep, SinceIsEarliestStep DEF Remembering

(* Through any cycles, failures and restarts the analyzer's one sample and  *)
(* one time stand for all the samples that were analysed.                   *)
THEOREM SpecRemembering == Spec => []Remembering
  BY RememberingInit, RememberingStep, PTL DEF Spec

(* The analyzer remembers the newest sample it was given, and every         *)
(* variable has its type.                                                   *)
THEOREM SpecRemembersNewest == Spec => []RemembersNewest
<1>1. Remembering => RemembersNewest
  BY DEF Remembering
<1>. QED
  BY <1>1, SpecRemembering, PTL
-----------------------------------------------------------------------------
(* The properties of a step.                                                *)
LEMMA AnalysisIsAnalyze ==
  ASSUME TypeOK, [Next]_vars
  PROVE  (Analyzes => Analyze) /\ (Compares => Compare)
<1>1. CASE Tick
  BY <1>1 DEF Tick, cycle, Analyzes, Compares
<1>2. ASSUME NEW s \in Signals, Produce(s) PROVE ~Analyzes /\ ~Compares
  BY <1>2 DEF Produce, cycle, Analyzes, Compares
<1>3. CASE ReadCurrent \/ SaveSample
  BY <1>3 DEF ReadCurrent, SaveSample, Analyzes, Compares
<1>4. CASE Analyze \/ Compare
  BY <1>4 DEF Analyze, Compare, Analyzes, Compares
<1>5. CASE Finish \/ NotParsed \/ Fails \/ Crash
  BY <1>5, EmptyCycleFacts DEF Finish, NotParsed, Fails, Crash, Analyzes, Compares
<1>6. CASE UNCHANGED vars
  BY <1>6 DEF vars, cycle, Analyzes, Compares
<1>. QED
  BY <1>1, <1>2, <1>3, <1>4, <1>5, <1>6, NextCases

(* What an analysis reports of a signal it has a sample of.                 *)
LEMMA ReportOf ==
  ASSUME Analyze, NEW s \in Signals, s \in Present, NEW p
  PROVE  <<s, p>> \in results' <=> p \in IssuesOf(online[s], history[s])
BY DEF Analyze

(* "frozen" is right: nothing has jumped for FrozenAfter in all the samples *)
(* analysed since the start, however many there were, and although the      *)
(* analyzer keeps one sample and one time.                                  *)
THEOREM SpecFrozenIsRight == Spec => FrozenIsRight
<1>. DEFINE Right == Analyzes => \A s \in Present : ~late'[s] =>
       (<<s, "frozen">> \in results' <=>
          \E x \in seen[s] : /\ online[s].at - x.at >= FrozenAfter
                             /\ Still(seen'[s], x.at))
<1>1. Remembering /\ [Next]_vars => [Right]_vars
  <2>1. SUFFICES ASSUME Remembering, [Next]_vars, Analyzes, NEW s \in Present, ~late'[s]
                 PROVE  <<s, "frozen">> \in results' <=>
                          \E x \in seen[s] : /\ online[s].at - x.at >= FrozenAfter
                                             /\ Still(seen'[s], x.at)
    OBVIOUS
  <2>2. /\ TypeOK /\ Analyze /\ s \in Signals
        /\ RemembersNewest /\ OneSampleAtATime /\ SinceIsEarliest
    BY <2>1, AnalysisIsAnalyze DEF Remembering, RemembersNewest, Present
  <2>. DEFINE x == online[s]
              t == history'[s].since
  <2>3. /\ x \in made[s] /\ x.at \in Nat /\ ~late[s]
        /\ t = Since(x, history[s])
        /\ seen[s] = {} <=> ~history[s].previous.known
        /\ seen[s] \subseteq made[s] /\ \A y \in seen[s] : y.at \in Nat
    <3>1. x \in made[s] /\ ~late[s] /\ t = Since(x, history[s])
          /\ (seen[s] = {} <=> ~history[s].previous.known)
      BY <2>1, <2>2, InOrder
    <3>2. seen[s] \subseteq made[s]
      BY <2>2 DEF OneSampleAtATime
    <3>. QED
      BY <2>2, <3>1, <3>2, SamplesApart
  <2>4. EarliestOf(seen'[s], t)
    BY <2>1, <2>2, SinceOfAnalyzed
  <2>5. seen'[s] = seen[s] \cup {x}
    BY <2>1, <2>2, AnalyzeOne
  <2>6. t \in Nat
    BY <2>3, <2>4, <2>5 DEF EarliestOf
  <2>7. FrozenAfter \in Nat /\ FrozenAfter > 0
    BY QualityAssumption
  <2>8. <<s, "frozen">> \in results' <=> history[s].previous.known /\ x.at - t >= FrozenAfter
    BY <2>1, <2>2, <2>3, ReportOf DEF IssuesOf
  <2>9. ASSUME history[s].previous.known, x.at - t >= FrozenAfter
        PROVE  \E y \in seen[s] : x.at - y.at >= FrozenAfter /\ Still(seen'[s], y.at)
    <3>1. PICK y \in seen'[s] : y.at = t
      BY <2>4 DEF EarliestOf
    <3>2. y # x
      BY <2>3, <2>7, <2>9, <3>1
    <3>3. Still(seen'[s], y.at)
      BY <2>4, <3>1 DEF EarliestOf
    <3>. QED
      BY <2>5, <2>9, <3>1, <3>2, <3>3
  <2>10. ASSUME NEW y \in seen[s], x.at - y.at >= FrozenAfter, Still(seen'[s], y.at)
         PROVE  history[s].previous.known /\ x.at - t >= FrozenAfter
    <3>1. t <= y.at
      BY <2>4, <2>5, <2>10 DEF EarliestOf
    <3>. QED
      BY <2>3, <2>6, <2>7, <2>10, <3>1
  <2>. QED
    BY <2>8, <2>9, <2>10
<1>. QED
  BY <1>1, SpecRemembering, PTL DEF Spec, FrozenIsRight

(* A gap is reported across restarts: what is restored from signal_history  *)
(* is the newest sample that was analysed, unless one was stored and lost.  *)
THEOREM SpecGapIsReported == Spec => GapIsReported
<1>. DEFINE Reported == Analyzes => \A s \in Present :
       ~late'[s] /\ ~lost[s] /\ newest[s] > 0 =>
         (<<s, "missing_samples">> \in results' <=> online[s].at - newest[s] > Period)
<1>1. Remembering /\ [Next]_vars => [Reported]_vars
  <2>1. SUFFICES ASSUME Remembering, [Next]_vars, Analyzes, NEW s \in Present,
                        ~late'[s], ~lost[s], newest[s] > 0
                 PROVE  <<s, "missing_samples">> \in results' <=> online[s].at - newest[s] > Period
    OBVIOUS
  <2>2. /\ TypeOK /\ Analyze /\ s \in Signals
        /\ RemembersNewest /\ OneSampleAtATime /\ RemembersOverRestarts
    BY <2>1, AnalysisIsAnalyze DEF Remembering, RemembersNewest, Present
  <2>3. ~late[s]
    BY <2>1, <2>2, InOrder
  <2>4. history[s].previous.known /\ history[s].previous.at = newest[s]
    BY <2>1, <2>2, <2>3 DEF RemembersOverRestarts
  <2>. QED
    BY <2>1, <2>2, <2>4, ReportOf DEF IssuesOf, Delta
<1>. QED
  BY <1>1, SpecRemembering, PTL DEF Spec, GapIsReported

(* A set of natural numbers that is not empty has a least member.           *)
LEMMA LeastOf ==
  ASSUME NEW T, T \subseteq Nat, T # {}
  PROVE  \E m \in T : \A k \in T : m <= k
<1>1. PICK m \in T : \A k \in T : ~(<<k, m>> \in OpToRel(<, Nat))
  BY WFMin, NatLessThanWellFounded, Zenon
<1>2. \A k \in T : ~(k < m)
  BY <1>1, Zenon DEF OpToRel
<1>. QED
  BY <1>2

(* Of samples of a signal in a there is one that is nearest.                *)
LEMMA NearestExists ==
  ASSUME TypeOK, NEW s \in Signals, NEW a, a \subseteq [signal : Signals, value : Nat, at : Nat],
         NEW x \in a, x.signal = s
  PROVE  \E n \in Nearest(s, a) : Distance(n.at, online[s].at) <= Distance(x.at, online[s].at)
<1>. DEFINE d(y) == Distance(y.at, online[s].at)
            D == {d(y) : y \in {z \in a : z.signal = s}}
<1>1. online[s].at \in Nat
  BY SampleTypes DEF TypeOK
<1>2. \A y \in a : y.at \in Nat
  OBVIOUS
<1>3. \A y \in a : d(y) \in Nat
  BY <1>1, <1>2 DEF Distance
<1>4. D \subseteq Nat /\ D # {}
  BY <1>3
<1>5. PICK m \in D : \A k \in D : m <= k
  <2>. HIDE DEF D
  <2>. QED
    BY <1>4, LeastOf
<1>6. PICK n \in {z \in a : z.signal = s} : d(n) = m
  OBVIOUS
<1>7. n \in Nearest(s, a)
  BY <1>5, <1>6 DEF Nearest
<1>. QED
  BY <1>5, <1>6, <1>7

(* The first signal with a sample is one of those with a sample.            *)
LEMMA FirstIsPresent ==
  ASSUME Present # {}
  PROVE  First \in Present
<1>1. Present \subseteq Nat
  BY SampleTypes DEF Present
<1>2. \E s \in Present : \A r \in Present : s <= r
  BY <1>1, LeastOf
<1>. QED
  BY <1>2 DEF First

(* "No archive sample exists in the configured match window" is true of the *)
(* whole archive where the read reached, for any archive that writes its    *)
(* times as the agent does and any batch size.                              *)
THEOREM SpecMissingIsReal == Spec => MissingIsReal
<1>. DEFINE Real == Compares => \A s \in Present :
       /\ <<s, "archive_missing">> \in results'
       /\ format = "utc"
       /\ online[s].at - Window >= From
       /\ whole'
       => \A x \in archive' : x.signal = s /\ x.at <= now =>
            Distance(x.at, online[s].at) > Window
<1>1. Remembering /\ [Next]_vars => [Real]_vars
  <2>1. SUFFICES ASSUME Remembering, [Next]_vars, Compares, NEW s \in Present,
                        <<s, "archive_missing">> \in results', format = "utc",
                        online[s].at - Window >= From, whole',
                        NEW x \in archive', x.signal = s, x.at <= now
                 PROVE  Distance(x.at, online[s].at) > Window
    OBVIOUS
  <2>2. TypeOK /\ Compare /\ s \in Signals /\ <<s, "archive_missing">> \notin results
    BY <2>1, AnalysisIsAnalyze DEF Remembering, RemembersNewest, NotYetCompared, Present, Compare
  <2>3. PICK a \in SUBSET Archivable, most \in 0..BatchLimit :
          /\ archive' = a
          /\ whole' = (Read(a, most) = InRange(a))
          /\ results' = results \cup Compared(Read(a, most))
    BY <2>2 DEF Compare
  <2>4. Read(a, most) = InRange(a)
    BY <2>1, <2>3
  <2>5. Missing(s, InRange(a))
    BY <2>1, <2>2, <2>3, <2>4 DEF Compared
  <2>6. a \subseteq [signal : Signals, value : Nat, at : Nat]
    <3>1. Archivable \subseteq [signal : Signals, value : Nat, at : Nat]
      BY <2>2, SampleTypes DEF TypeOK, Archivable
    <3>. QED
      BY <3>1
  <2>7. /\ online[s].at \in Nat /\ x.at \in Nat /\ now \in Nat /\ Window \in Nat
        /\ From \in Int
    <3>1. First \in Signals
      BY <2>1, FirstIsPresent DEF Present
    <3>2. \A r \in Signals : online[r].at \in Nat
      BY <2>2, SampleTypes DEF TypeOK
    <3>3. Window \in Nat /\ Lookback \in Nat /\ now \in Nat
      BY <2>2, QualityAssumption DEF TypeOK
    <3>4. x.at \in Nat
      BY <2>1, <2>3, <2>6
    <3>. QED
      BY <2>2, <3>1, <3>2, <3>3, <3>4 DEF From
  <2>8. SUFFICES ASSUME ~(Distance(x.at, online[s].at) > Window) PROVE FALSE
    OBVIOUS
  <2>9. x \in InRange(a)
    BY <2>1, <2>3, <2>7, <2>8 DEF InRange, Distance
  <2>10. PICK n \in Nearest(s, InRange(a)) :
           Distance(n.at, online[s].at) <= Distance(x.at, online[s].at)
    <3>1. InRange(a) \subseteq [signal : Signals, value : Nat, at : Nat]
      BY <2>6 DEF InRange
    <3>. QED
      BY <2>1, <2>2, <2>9, <3>1, NearestExists
  <2>11. Distance(n.at, online[s].at) > Window
    BY <2>5 DEF Missing
  <2>12. n.at \in Nat
    BY <2>6 DEF Nearest, InRange
  <2>. QED
    BY <2>7, <2>8, <2>10, <2>11, <2>12 DEF Distance
<1>. QED
  BY <1>1, SpecRemembering, PTL DEF Spec, MissingIsReal
================================================================================
