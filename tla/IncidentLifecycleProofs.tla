------------------------ MODULE IncidentLifecycleProofs ------------------------
(***************************************************************************)
(* Theorems about IncidentLifecycle for any number of checks, any delays   *)
(* and any number of crashes.                                              *)
(***************************************************************************)
EXTENDS IncidentLifecycle, SequenceTheorems, TLAPS

(* The inductive invariant, in parts.                                       *)

(* The key of the result that is worked on.                                 *)
Current == KeyOf(idx, last[idx])

(* The table: ids are handed out once, the row saved last is there, and     *)
(* only that row of a key may be active.                                    *)
TableKeyed ==
  /\ \A r, s \in db : r.id = s.id => r = s
  /\ \A r \in db : r.id <= opened
  /\ \A k \in Keys : newest[k] # 0 => \E r \in db : r.id = newest[k] /\ r.key = k
  /\ \A r \in db : r.active => newest[r.key] = r.id

(* Memory and table agree, apart from the key whose event is not saved yet. *)
Agrees(k) == /\ tracked[k].id = newest[k]
             /\ \A r \in db : r.id = newest[k] => (r.active <=> tracked[k].active)

MemoryFollows ==
  /\ \A k \in Keys : tracked[k].active => tracked[k].id # 0
  /\ \A k \in Keys : (pc = "save" => k # Current) => Agrees(k)

(* What is not saved yet: a new incident of a key that had none open, or a  *)
(* change of the one that is.                                               *)
OneUnsaved ==
  pc = "save" =>
    /\ idx \in Checks /\ unsaved \in EventsOf /\ unsaved.id = tracked[Current].id
    /\ tracked[Current].active <=> unsaved.type # "recovered"
    /\ IF unsaved.type = "opened"
       THEN /\ unsaved.id = opened
            /\ \A r \in db : r.id < opened /\ (r.active => r.key # Current)
       ELSE /\ unsaved.id = newest[Current]
            /\ \A r \in db : r.id = newest[Current] => r.active

Lifecycle == TypeOK /\ TableKeyed /\ MemoryFollows /\ OneUnsaved
-----------------------------------------------------------------------------
(* Every next-state step is one of these; the case split of the proofs.     *)
LEMMA NextCases ==
  ASSUME [Next]_vars
  PROVE  \/ StartCycle \/ Process \/ Save \/ Send \/ (\E n \in 1..MaxTransit : Deliver(n))
         \/ Crash \/ UNCHANGED vars
BY DEF Next, CycleStep

(* Ages are capped at the longest delay.                                    *)
LEMMA AgeTypes ==
  /\ Longest \in Nat /\ 0 \in Ages /\ Now \in Ages
  /\ \A a \in Ages : Older(a) \in Ages
<1>1. {OpenDelay, CloseDelay, Cooldown} \subseteq Nat
  BY LifecycleAssumption
<1>2. \E d \in {OpenDelay, CloseDelay, Cooldown} :
        \A e \in {OpenDelay, CloseDelay, Cooldown} : e <= d
  BY <1>1
<1>3. Longest \in Nat
  BY <1>1, <1>2 DEF Longest
<1>. QED
  BY <1>3 DEF Ages, Older, Now

LEMMA KeyTypes ==
  /\ \A c \in Checks, o \in Outcomes : KeyOf(c, o) \in Keys
  /\ Fresh \in Entries /\ Fresh.id = 0 /\ ~Fresh.active
  /\ NumChecks \in Nat /\ NumChecks > 0 /\ MaxIncidents \in Nat
  /\ Nothing.id = 0 /\ Nothing.type = "none" /\ Nothing \notin EventsOf
BY LifecycleAssumption, AgeTypes DEF KeyOf, Keys, Fresh, Entries, Nothing, EventsOf

(* What process() does with the key of the outcome o: the entry it leaves,  *)
(* the event it returns.                                                    *)
Processed(o, entry, type) ==
  LET k == KeyOf(idx, o)
      e == tracked[k]
  IN /\ idx \in Checks /\ k \in Keys /\ e \in Entries
     /\ pc = "process"
     /\ last' = [last EXCEPT ![idx] = o]
     /\ Return(k, entry, type)
     /\ entry.active = IF type = "recovered" THEN FALSE
                      ELSE IF type = "opened" THEN TRUE ELSE e.active
     /\ IF type = "opened"
        THEN /\ ~e.active /\ opened' = opened + 1 /\ entry.id = opened + 1
             /\ opened < MaxIncidents
        ELSE opened' = opened /\ entry.id = e.id
     /\ type \in {"reminder", "recovered"} => e.active
     /\ entry.active => entry.notified = IF type \in {"opened", "reminder"} THEN Now ELSE e.notified
     /\ type = "reminder" => e.notified - Now >= Cooldown

Types == {"none", "opened", "reminder", "recovered"}

LEMMA ProcessCases ==
  ASSUME TypeOK, Process
  PROVE  \E o \in Outcomes, entry \in Entries, type \in Types : Processed(o, entry, type)
<1>. USE DEF Processed, Types
<1>1. PICK o \in Outcomes :
        /\ last' = [last EXCEPT ![idx] = o]
        /\ IF o = "ok" THEN Good(KeyOf(idx, o)) ELSE Problem(KeyOf(idx, o))
  BY DEF Process
<1>. DEFINE k == KeyOf(idx, o)
            e == tracked[k]
<1>2. idx \in Checks /\ k \in Keys /\ e \in Entries /\ pc = "process"
  BY KeyTypes DEF Process, TypeOK
<1>3. /\ e.id \in 0..MaxIncidents /\ e.active \in BOOLEAN /\ e.first \in Ages
      /\ e.notified \in Ages /\ e.since \in Ages /\ opened \in Nat
  BY <1>2 DEF Entries, TypeOK
<1>4. FirstProblem(e) \in Ages /\ RecoverySince(e) \in Ages
  BY <1>3, AgeTypes DEF FirstProblem, RecoverySince
<1>5. CASE o = "ok"
  <2>1. Good(k)
    BY <1>1, <1>5
  <2>2. CASE Closes(e) /\ Return(k, [e EXCEPT !.active = FALSE, !.first = 0,
                                             !.since = RecoverySince(e)], "recovered")
    <3>. DEFINE entry == [e EXCEPT !.active = FALSE, !.first = 0, !.since = RecoverySince(e)]
    <3>1. entry \in Entries /\ entry.id = e.id /\ entry.active = FALSE
      BY <1>2, <1>4, AgeTypes DEF Entries
    <3>2. e.active /\ opened' = opened
      BY <2>1, <2>2 DEF Good, Closes
    <3>. QED
      BY <1>1, <1>2, <2>2, <3>1, <3>2
  <2>3. CASE e.active /\ Return(k, [e EXCEPT !.since = RecoverySince(e)], "none")
    <3>. DEFINE entry == [e EXCEPT !.since = RecoverySince(e)]
    <3>1. /\ entry \in Entries /\ entry.id = e.id /\ entry.active = e.active
          /\ entry.notified = e.notified
      BY <1>2, <1>4, AgeTypes DEF Entries
    <3>2. opened' = opened
      BY <2>1 DEF Good
    <3>. QED
      BY <1>1, <1>2, <2>3, <3>1, <3>2
  <2>4. CASE ~e.active /\ Return(k, IF e.id = 0 THEN Fresh ELSE e, "none")
    <3>. DEFINE entry == IF e.id = 0 THEN Fresh ELSE e
    <3>1. entry \in Entries /\ entry.id = e.id /\ entry.active = e.active
      BY <1>2, <1>3, <2>4, KeyTypes DEF Fresh
    <3>2. opened' = opened
      BY <2>1 DEF Good
    <3>. QED
      BY <1>1, <1>2, <2>4, <3>1, <3>2
  <2>. QED
    BY <2>1, <2>2, <2>3, <2>4 DEF Good
<1>6. CASE o # "ok"
  <2>1. Problem(k)
    BY <1>1, <1>6
  <2>. DEFINE noted == [e EXCEPT !.first = FirstProblem(e), !.since = 0]
  <2>2. /\ noted \in Entries /\ noted.id = e.id /\ noted.active = e.active
        /\ noted.notified = e.notified
    BY <1>2, <1>4, AgeTypes DEF Entries
  <2>3. CASE /\ Opens(e) /\ opened < MaxIncidents /\ opened' = opened + 1
             /\ Return(k, [noted EXCEPT !.id = opened + 1, !.active = TRUE,
                                        !.notified = Now], "opened")
    <3>. DEFINE entry == [noted EXCEPT !.id = opened + 1, !.active = TRUE, !.notified = Now]
    <3>3. opened + 1 \in 0..MaxIncidents /\ Now \in Ages
      BY <1>3, <2>3, AgeTypes, KeyTypes
    <3>1. /\ entry \in Entries /\ entry.id = opened + 1 /\ entry.active = TRUE
          /\ entry.notified = Now
      <4>. HIDE <2>3
      <4>. QED
        BY <2>2, <3>3 DEF Entries
    <3>2. ~e.active
      BY <2>3 DEF Opens
    <3>. QED
      BY <1>1, <1>2, <2>3, <3>1, <3>2
  <2>4. CASE Reminds(e) /\ opened' = opened
             /\ Return(k, [noted EXCEPT !.notified = Now], "reminder")
    <3>. DEFINE entry == [noted EXCEPT !.notified = Now]
    <3>1. /\ entry \in Entries /\ entry.id = e.id /\ entry.active = e.active
          /\ entry.notified = Now
      BY <2>2, AgeTypes DEF Entries
    <3>2. e.active /\ e.notified - Now >= Cooldown
      BY <2>4 DEF Reminds
    <3>. QED
      BY <1>1, <1>2, <2>4, <3>1, <3>2
  <2>5. CASE opened' = opened /\ Return(k, noted, "none")
    BY <1>1, <1>2, <2>2, <2>5
  <2>. QED
    BY <2>1, <2>3, <2>4, <2>5 DEF Problem
<1>. QED
  BY <1>5, <1>6

(* The row that is saved.                                                   *)
LEMMA SavedTypes ==
  ASSUME TypeOK, OneUnsaved, pc = "save"
  PROVE  Saved(Current, unsaved.type) \subseteq Incidents
<1>. DEFINE k == Current
            row == [id |-> tracked[k].id, key |-> k, active |-> TRUE,
                    opened |-> tracked[k].first, seen |-> Now]
<1>1. k \in Keys /\ tracked[k] \in Entries /\ unsaved \in EventsOf /\ unsaved.id = tracked[k].id
  BY KeyTypes DEF OneUnsaved, Current, TypeOK
<1>2. row \in Incidents
  BY <1>1, AgeTypes DEF Entries, EventsOf, Incidents
<1>3. tracked[k].active \in BOOLEAN
  BY <1>1 DEF Entries
<1>4. \A r \in db : (IF r.id = tracked[k].id THEN [r EXCEPT !.active = tracked[k].active] ELSE r)
                    \in Incidents
  BY <1>3 DEF TypeOK, Incidents
<1>. QED
  BY <1>2, <1>4 DEF Saved, TypeOK

(* What a restart makes of a key.                                           *)
LEMMA RestoredTypes ==
  ASSUME TypeOK, TableKeyed, NEW k \in Keys
  PROVE  /\ Restored(k) \in Entries /\ Restored(k).id = newest[k]
         /\ \A r \in db : r.id = newest[k] => (r.active <=> Restored(k).active)
         /\ Restored(k).active => newest[k] # 0
<1>1. CASE newest[k] = 0
  <2>1. Restored(k) = Fresh
    BY <1>1 DEF Restored
  <2>2. \A r \in db : r.id # 0
    BY KeyTypes DEF TypeOK, Incidents
  <2>. QED
    BY <1>1, <2>1, <2>2, KeyTypes
<1>2. CASE newest[k] # 0
  <2>. DEFINE r == CHOOSE r \in db : r.id = newest[k]
  <2>1. r \in db /\ r.id = newest[k]
    BY <1>2 DEF TableKeyed
  <2>2. Restored(k) = [id |-> r.id, active |-> r.active,
                       first |-> IF r.active THEN r.opened ELSE 0,
                       notified |-> r.seen, since |-> 0]
    BY <1>2 DEF Restored
  <2>3. r \in Incidents /\ r.id \in 0..MaxIncidents
    BY <2>1, KeyTypes DEF TypeOK, Incidents
  <2>4. Restored(k) \in Entries
    <3>. HIDE DEF r
    <3>. QED
      BY <2>2, <2>3, AgeTypes DEF Incidents, Entries
  <2>5. \A q \in db : q.id = newest[k] => q = r
    BY <2>1 DEF TableKeyed
  <2>6. Restored(k).id = r.id /\ Restored(k).active = r.active
    BY <2>2
  <2>. QED
    BY <1>2, <2>1, <2>4, <2>5, <2>6
<1>. QED
  BY <1>1, <1>2

(* The rows of the table a cycle later.                                     *)
LEMMA AgedRows ==
  ASSUME TypeOK, StartCycle
  PROVE  /\ db' \subseteq Incidents
         /\ \A r, q \in db' : r.id = q.id => \E t, u \in db : t.id = r.id /\ u.id = q.id
                                /\ (t = u => r = q)
         /\ \A q \in db' : \E r \in db : r.id = q.id /\ r.key = q.key /\ r.active = q.active
         /\ \A r \in db : \E q \in db' : r.id = q.id /\ r.key = q.key /\ r.active = q.active
<1>. DEFINE A(r) == [r EXCEPT !.opened = Older(@), !.seen = Older(@)]
<1>1. db' = {A(r) : r \in db}
  BY DEF StartCycle
<1>2. \A r \in db : A(r) \in Incidents /\ A(r).id = r.id /\ A(r).key = r.key /\ A(r).active = r.active
  <2>1. SUFFICES ASSUME NEW r \in db
                 PROVE  A(r) \in Incidents /\ A(r).id = r.id /\ A(r).key = r.key
                        /\ A(r).active = r.active
    OBVIOUS
  <2>2. r \in Incidents
    BY DEF TypeOK
  <2>3. Older(r.opened) \in Ages /\ Older(r.seen) \in Ages
    BY <2>2, AgeTypes DEF Incidents
  <2>. QED
    BY <2>2, <2>3 DEF Incidents
<1>. HIDE DEF A
<1>. QED
  BY <1>1, <1>2

(* The entries and notifications a cycle later.                             *)
LEMMA AgedEntries ==
  ASSUME TypeOK, StartCycle
  PROVE  /\ tracked' \in [Keys -> Entries] /\ told' \in [1..MaxIncidents -> Ages]
         /\ \A k \in Keys : tracked'[k].id = tracked[k].id /\ tracked'[k].active = tracked[k].active
BY AgeTypes DEF StartCycle, Entries, TypeOK

(* The types hold after every step.                                         *)
LEMMA TypeStep ==
  ASSUME Lifecycle, [Next]_vars
  PROVE  TypeOK'
<1>. USE KeyTypes DEF TypeOK, Lifecycle, serverVars
<1>1. CASE StartCycle
  <2>1. tracked' \in [Keys -> Entries] /\ told' \in [1..MaxIncidents -> Ages]
    BY <1>1, AgedEntries
  <2>2. db' \subseteq Incidents
    BY <1>1, AgedRows
  <2>3. /\ pc' = "process" /\ idx' = 1
        /\ UNCHANGED <<newest, opened, unsaved, events, transit, serverVars, last, crashes>>
    BY <1>1 DEF StartCycle
  <2>. QED
    BY <2>1, <2>2, <2>3
<1>2. CASE Process
  <2>1. PICK o \in Outcomes, entry \in Entries, type \in Types : Processed(o, entry, type)
    BY <1>2, ProcessCases
  <2>. DEFINE k == KeyOf(idx, o)
  <2>2. UNCHANGED <<db, newest, events, transit, serverVars, told, crashes>>
    BY <1>2 DEF Process
  <2>3. k \in Keys /\ last' \in [Checks -> Outcomes] /\ idx \in Checks
    BY <2>1 DEF Processed
  <2>4. tracked' \in [Keys -> Entries]
    BY <2>1, <2>3 DEF Processed, Return
  <2>5. opened' \in 0..MaxIncidents
    BY <2>1 DEF Processed
  <2>6. CASE type = "none"
    <3>1. pc' = "process" /\ idx' = idx + 1 /\ unsaved' = Nothing
      BY <2>1, <2>6 DEF Processed, Return, NextResult
    <3>2. idx' \in 1..(NumChecks + 1)
      BY <2>3, <3>1 DEF Checks
    <3>. QED
      BY <2>2, <2>3, <2>4, <2>5, <3>1, <3>2
  <2>7. CASE type # "none"
    <3>1. pc' = "save" /\ idx' = idx /\ unsaved' = [type |-> type, id |-> entry.id]
      BY <2>1, <2>7 DEF Processed, Return
    <3>2. entry.id \in 1..MaxIncidents
      <4>1. entry.id \in 0..MaxIncidents
        BY DEF Entries
      <4>2. CASE type = "opened"
        BY <2>1, <4>2 DEF Processed
      <4>3. CASE type \in {"reminder", "recovered"}
        <5>1. tracked[k].active /\ entry.id = tracked[k].id
          BY <2>1, <4>3 DEF Processed
        <5>. QED
          BY <2>3, <4>1, <5>1 DEF MemoryFollows
      <4>. QED
        BY <2>7, <4>2, <4>3 DEF Types
    <3>3. unsaved' \in EventsOf
      BY <2>7, <3>1, <3>2 DEF EventsOf, Types
    <3>. QED
      BY <2>2, <2>3, <2>4, <2>5, <3>1, <3>3
  <2>. QED
    BY <2>6, <2>7
<1>3. CASE Save
  <2>1. db' \subseteq Incidents
    BY <1>3, SavedTypes DEF Save, Current
  <2>2. Current \in Keys /\ unsaved \in EventsOf /\ idx \in Checks
    BY <1>3 DEF Save, OneUnsaved, Current
  <2>3. newest' \in [Keys -> 0..MaxIncidents]
    BY <1>3, <2>2 DEF Save, EventsOf, Current
  <2>4. events' \in Seq(EventsOf)
    BY <1>3, <2>2 DEF Save
  <2>5. /\ idx' \in 1..(NumChecks + 1) /\ pc' = "process" /\ unsaved' = Nothing
        /\ UNCHANGED <<tracked, opened, transit, serverVars, told, last, crashes>>
    BY <1>3, <2>2 DEF Save, NextResult, Checks
  <2>. QED
    BY <2>1, <2>3, <2>4, <2>5
<1>4. CASE Send
  <2>1. transit' \in Seq(Seq(EventsOf)) /\ events' \in Seq(EventsOf)
    BY <1>4 DEF Send
  <2>2. told' \in [1..MaxIncidents -> Ages]
    BY <1>4, AgeTypes DEF Send
  <2>3. /\ pc' = "idle" /\ idx' = 1
        /\ UNCHANGED <<tracked, db, newest, opened, unsaved, serverVars, last, crashes>>
    BY <1>4 DEF Send
  <2>. QED
    BY <2>1, <2>2, <2>3
<1>5. ASSUME NEW n \in 1..MaxTransit, Deliver(n) PROVE TypeOK'
  <2>1. n \in 1..Len(transit)
    BY <1>5 DEF Deliver
  <2>2. transit' \in Seq(Seq(EventsOf))
    <3>. HIDE DEF EventsOf
    <3>1. SubSeq(transit, 1, n - 1) \in Seq(Seq(EventsOf))
      BY <2>1
    <3>2. SubSeq(transit, n + 1, Len(transit)) \in Seq(Seq(EventsOf))
      BY <2>1
    <3>. QED
      BY <1>5, <3>1, <3>2 DEF Deliver
  <2>3. server' \in [1..MaxIncidents -> {"unknown", "open", "closed"}]
    BY <1>5 DEF Deliver, Shown
  <2>4. overtaken' \subseteq 1..MaxIncidents
    BY <1>5 DEF Deliver
  <2>5. UNCHANGED <<tracked, db, newest, opened, cycleVars, told, last, crashes>>
    BY <1>5 DEF Deliver
  <2>. QED
    BY <2>2, <2>3, <2>4, <2>5 DEF cycleVars
<1>6. CASE Crash
  <2>1. tracked' \in [Keys -> Entries]
    BY <1>6, RestoredTypes DEF Crash
  <2>2. crashes' \in 0..MaxCrashes
    BY <1>6, LifecycleAssumption DEF Crash
  <2>3. /\ pc' = "idle" /\ idx' = 1 /\ unsaved' = Nothing /\ events' = <<>>
        /\ UNCHANGED <<db, newest, opened, transit, serverVars, told, last>>
    BY <1>6 DEF Crash
  <2>. QED
    BY <2>1, <2>2, <2>3
<1>7. CASE UNCHANGED vars
  BY <1>7 DEF vars, cycleVars
<1>. QED
  BY <1>1, <1>2, <1>3, <1>4, <1>5, <1>6, <1>7, NextCases
-----------------------------------------------------------------------------
(* What Save does to the table.                                             *)
LEMMA SavedRows ==
  ASSUME Lifecycle, Save
  PROVE  /\ Current \in Keys /\ idx \in Checks /\ unsaved.id # 0 /\ unsaved.id = tracked[Current].id
         /\ newest' = [newest EXCEPT ![Current] = unsaved.id]
         /\ UNCHANGED <<tracked, opened>> /\ pc' = "process" /\ pc = "save"
         /\ \A q \in db' :
              \/ /\ unsaved.type = "opened" /\ q.id = unsaved.id /\ q.key = Current
                 /\ q.active = TRUE /\ \A r \in db : r.id # q.id
              \/ \E r \in db : /\ q.id = r.id /\ q.key = r.key
                               /\ q.active = IF r.id = unsaved.id
                                              THEN tracked[Current].active ELSE r.active
         /\ \A r, q \in db' : r.id = q.id => r = q
         /\ \A r \in db : \E q \in db' : q.id = r.id /\ q.key = r.key
         /\ unsaved.type = "opened" => \E q \in db' : q.id = unsaved.id /\ q.key = Current
<1>. DEFINE row == [id |-> tracked[Current].id, key |-> Current, active |-> TRUE,
                    opened |-> tracked[Current].first, seen |-> Now]
            S(r) == IF r.id = tracked[Current].id THEN [r EXCEPT !.active = tracked[Current].active]
                    ELSE r
<1>1. /\ pc = "save" /\ idx \in Checks /\ unsaved \in EventsOf /\ unsaved.id = tracked[Current].id
      /\ Current \in Keys /\ unsaved.id # 0 /\ opened \in Nat
      /\ newest' = [newest EXCEPT ![Current] = unsaved.id]
      /\ UNCHANGED <<tracked, opened>> /\ pc' = "process"
      /\ db' = Saved(Current, unsaved.type)
  BY KeyTypes DEF Save, Lifecycle, OneUnsaved, TypeOK, Current, EventsOf
<1>2. /\ \A r \in db : r \in Incidents /\ r.id \in Nat
      /\ \A r, q \in db : r.id = q.id => r = q
  BY DEF Lifecycle, TypeOK, Incidents, TableKeyed
<1>3. CASE unsaved.type = "opened"
  <2>1. db' = db \cup {row}
    BY <1>1, <1>3 DEF Saved
  <2>2. \A r \in db : r.id < opened
    BY <1>1, <1>3 DEF Lifecycle, OneUnsaved
  <2>3. unsaved.id = opened
    BY <1>1, <1>3 DEF Lifecycle, OneUnsaved
  <2>4. \A r \in db : r.id # unsaved.id
    BY <1>1, <1>2, <2>2, <2>3
  <2>5. row.id = unsaved.id /\ row.key = Current /\ row.active = TRUE
    BY <1>1
  <2>. HIDE DEF row
  <2>6. \A r, q \in db' : r.id = q.id => r = q
    BY <1>2, <2>1, <2>4, <2>5
  <2>7. \A r \in db : \E q \in db' : q.id = r.id /\ q.key = r.key
    BY <2>1
  <2>8. \E q \in db' : q.id = unsaved.id /\ q.key = Current
    BY <2>1, <2>5
  <2>9. ASSUME NEW q \in db'
        PROVE  \/ /\ unsaved.type = "opened" /\ q.id = unsaved.id /\ q.key = Current
                  /\ q.active = TRUE /\ \A r \in db : r.id # q.id
               \/ \E r \in db : /\ q.id = r.id /\ q.key = r.key
                                /\ q.active = IF r.id = unsaved.id
                                               THEN tracked[Current].active ELSE r.active
    BY <1>3, <2>1, <2>4, <2>5
  <2>. QED
    BY <1>1, <2>6, <2>7, <2>8, <2>9
<1>4. CASE unsaved.type # "opened"
  <2>1. db' = {S(r) : r \in db}
    BY <1>1, <1>4 DEF Saved
  <2>2. \A r \in db : /\ S(r).id = r.id /\ S(r).key = r.key
                      /\ S(r).active = IF r.id = unsaved.id THEN tracked[Current].active ELSE r.active
    BY <1>1, <1>2 DEF Incidents
  <2>. HIDE DEF S
  <2>3. \A r, q \in db' : r.id = q.id => r = q
    BY <1>2, <2>1, <2>2
  <2>4. \A r \in db : \E q \in db' : q.id = r.id /\ q.key = r.key
    BY <2>1, <2>2
  <2>5. \A q \in db' : \E r \in db : /\ q.id = r.id /\ q.key = r.key
                                   /\ q.active = IF r.id = unsaved.id
                                                  THEN tracked[Current].active ELSE r.active
    BY <2>1, <2>2
  <2>. QED
    BY <1>1, <1>4, <2>3, <2>4, <2>5
<1>. QED
  BY <1>3, <1>4

LEMMA TableKeyedStep ==
  ASSUME Lifecycle, [Next]_vars
  PROVE  TableKeyed'
<1>1. CASE StartCycle
  <2>1. /\ newest' = newest /\ opened' = opened
    BY <1>1 DEF StartCycle
  <2>2. \A q \in db' : \E r \in db : r.id = q.id /\ r.key = q.key /\ r.active = q.active
    BY <1>1, AgedRows DEF Lifecycle
  <2>3. \A r \in db : \E q \in db' : r.id = q.id /\ r.key = q.key /\ r.active = q.active
    BY <1>1, AgedRows DEF Lifecycle
  <2>4. \A r, q \in db' : r.id = q.id => r = q
    BY <1>1, AgedRows DEF Lifecycle, TableKeyed
  <2>5. \A r \in db' : r.id <= opened'
    BY <2>1, <2>2 DEF Lifecycle, TableKeyed
  <2>6. \A r \in db' : r.active => newest'[r.key] = r.id
    BY <2>1, <2>2 DEF Lifecycle, TableKeyed
  <2>7. \A k \in Keys : newest'[k] # 0 => \E r \in db' : r.id = newest'[k] /\ r.key = k
    BY <2>1, <2>3 DEF Lifecycle, TableKeyed
  <2>. QED
    BY <2>4, <2>5, <2>6, <2>7 DEF TableKeyed
<1>2. CASE Process
  <2>1. PICK o \in Outcomes, entry \in Entries, type \in Types : Processed(o, entry, type)
    BY <1>2, ProcessCases DEF Lifecycle
  <2>2. UNCHANGED <<db, newest>> /\ opened \in Nat /\ (opened' = opened \/ opened' = opened + 1)
    BY <1>2, <2>1, KeyTypes DEF Process, Processed, Lifecycle, TypeOK
  <2>3. \A r \in db : r.id \in Nat
    BY DEF Lifecycle, TypeOK, Incidents
  <2>4. \A r \in db : r.id <= opened'
    BY <2>2, <2>3 DEF Lifecycle, TableKeyed
  <2>. QED
    BY <2>2, <2>4 DEF Lifecycle, TableKeyed
<1>3. CASE Save
  <2>. DEFINE u == unsaved
  <2>1. /\ Current \in Keys /\ u.id # 0 /\ u.id = tracked[Current].id
        /\ newest' = [newest EXCEPT ![Current] = u.id] /\ opened' = opened
    BY <1>3, SavedRows
  <2>2. /\ newest \in [Keys -> 0..MaxIncidents] /\ opened \in Nat
        /\ \A r \in db : r.id \in Nat /\ r.key \in Keys
    BY KeyTypes DEF Lifecycle, TypeOK, Incidents
  <2>3. \A q \in db' : \/ /\ u.type = "opened" /\ q.id = u.id /\ q.key = Current
                         /\ q.active = TRUE /\ \A r \in db : r.id # q.id
                      \/ \E r \in db : /\ q.id = r.id /\ q.key = r.key
                                       /\ q.active = IF r.id = u.id
                                                      THEN tracked[Current].active ELSE r.active
    BY <1>3, SavedRows
  <2>4. /\ \A r \in db : \E q \in db' : q.id = r.id /\ q.key = r.key
        /\ u.type = "opened" => \E q \in db' : q.id = u.id /\ q.key = Current
        /\ \A r, q \in db' : r.id = q.id => r = q
    BY <1>3, SavedRows
  <2>5. /\ \A r \in db : r.id <= opened
        /\ \A k \in Keys : newest[k] # 0 => \E r \in db : r.id = newest[k] /\ r.key = k
        /\ \A r \in db : r.active => newest[r.key] = r.id
        /\ \A r, s \in db : r.id = s.id => r = s
    BY DEF Lifecycle, TableKeyed
  <2>6. /\ u.type = "opened" => u.id = opened /\ \A r \in db : r.active => r.key # Current
        /\ u.type # "opened" => u.id = newest[Current]
    BY <1>3, SavedRows DEF Lifecycle, OneUnsaved
  <2>7. \A q \in db' : q.id <= opened'
    BY <2>1, <2>2, <2>3, <2>5, <2>6
  <2>8. ASSUME NEW k \in Keys, newest'[k] # 0
        PROVE  \E q \in db' : q.id = newest'[k] /\ q.key = k
    <3>1. CASE k = Current
      <4>1. newest'[k] = u.id
        BY <2>1, <2>2, <3>1
      <4>2. CASE u.type = "opened"
        BY <2>4, <3>1, <4>1, <4>2
      <4>3. CASE u.type # "opened"
        BY <2>1, <2>4, <2>5, <2>6, <3>1, <4>1, <4>3
      <4>. QED
        BY <4>2, <4>3
    <3>2. CASE k # Current
      <4>1. newest'[k] = newest[k]
        BY <2>1, <2>2, <3>2
      <4>. QED
        BY <2>4, <2>5, <2>8, <4>1
    <3>. QED
      BY <3>1, <3>2
  <2>9. ASSUME NEW q \in db', q.active
        PROVE  newest'[q.key] = q.id
    <3>1. CASE u.type = "opened" /\ q.id = u.id /\ q.key = Current
      BY <2>1, <2>2, <3>1
    <3>2. CASE \E r \in db : /\ q.id = r.id /\ q.key = r.key
                            /\ q.active = IF r.id = u.id
                                           THEN tracked[Current].active ELSE r.active
      <4>1. PICK r \in db : /\ q.id = r.id /\ q.key = r.key
                            /\ q.active = IF r.id = u.id
                                           THEN tracked[Current].active ELSE r.active
        BY <3>2
      <4>2. CASE r.id = u.id
        <5>1. u.type # "opened"
          BY <1>3, <4>2 DEF Lifecycle, OneUnsaved, Save, TypeOK, Incidents, EventsOf
        <5>2. r.active
          BY <1>3, <2>6, <4>2, <5>1 DEF Lifecycle, OneUnsaved, Save
        <5>3. newest[r.key] = u.id /\ newest[Current] = u.id
          BY <2>5, <2>6, <4>2, <5>1, <5>2
        <5>4. r.key = Current
          BY <2>1, <2>5, <4>2, <5>3
        <5>. QED
          BY <2>1, <2>2, <4>1, <4>2, <5>4
      <4>3. CASE r.id # u.id
        <5>1. r.active /\ newest[r.key] = r.id
          BY <2>5, <2>9, <4>1, <4>3
        <5>2. r.key # Current
          BY <2>6, <4>3, <5>1
        <5>. QED
          BY <2>1, <2>2, <4>1, <5>1, <5>2
      <4>. QED
        BY <4>2, <4>3
    <3>. QED
      BY <2>3, <3>1, <3>2
  <2>. QED
    BY <2>4, <2>7, <2>8, <2>9 DEF TableKeyed
<1>4. CASE Send
  BY <1>4 DEF Send, Lifecycle, TableKeyed
<1>5. ASSUME NEW n \in 1..MaxTransit, Deliver(n) PROVE TableKeyed'
  BY <1>5 DEF Deliver, Lifecycle, TableKeyed
<1>6. CASE Crash
  BY <1>6 DEF Crash, Lifecycle, TableKeyed
<1>7. CASE UNCHANGED vars
  BY <1>7 DEF vars, Lifecycle, TableKeyed
<1>. QED
  BY <1>1, <1>2, <1>3, <1>4, <1>5, <1>6, <1>7, NextCases

(* The step of process() in the terms of the invariant.                     *)
LEMMA ProcessedFacts ==
  ASSUME Lifecycle, Process
  PROVE  \E o \in Outcomes, entry \in Entries, type \in Types :
           LET k == KeyOf(idx, o)
           IN /\ Processed(o, entry, type) /\ k \in Keys /\ idx \in Checks
              /\ tracked' = [tracked EXCEPT ![k] = entry]
              /\ UNCHANGED <<db, newest>>
              /\ type = "none" => pc' = "process"
              /\ type # "none" => /\ pc' = "save" /\ idx' = idx
                                  /\ KeyOf(idx', last'[idx']) = k
                                  /\ unsaved' = [type |-> type, id |-> entry.id]
<1>1. PICK o \in Outcomes, entry \in Entries, type \in Types : Processed(o, entry, type)
  BY ProcessCases DEF Lifecycle
<1>2. KeyOf(idx, o) \in Keys /\ idx \in Checks /\ last' = [last EXCEPT ![idx] = o]
      /\ last \in [Checks -> Outcomes]
  BY <1>1 DEF Processed, Lifecycle, TypeOK
<1>3. last'[idx] = o
  BY <1>2
<1>4. UNCHANGED <<db, newest>>
  BY DEF Process
<1>. QED
  BY <1>1, <1>2, <1>3, <1>4 DEF Processed, Return

LEMMA MemoryFollowsStep ==
  ASSUME Lifecycle, [Next]_vars
  PROVE  MemoryFollows'
<1>1. CASE StartCycle
  <2>1. pc = "idle" /\ pc' = "process" /\ newest' = newest
    BY <1>1 DEF StartCycle
  <2>2. \A k \in Keys : tracked'[k].id = tracked[k].id /\ tracked'[k].active = tracked[k].active
    BY <1>1, AgedEntries DEF Lifecycle
  <2>3. \A q \in db' : \E r \in db : r.id = q.id /\ r.key = q.key /\ r.active = q.active
    BY <1>1, AgedRows DEF Lifecycle
  <2>4. \A k \in Keys : Agrees(k) /\ (tracked[k].active => tracked[k].id # 0)
    BY <2>1 DEF Lifecycle, MemoryFollows
  <2>5. \A k \in Keys : Agrees(k)'
    BY <2>1, <2>2, <2>3, <2>4 DEF Agrees
  <2>. QED
    BY <2>2, <2>4, <2>5 DEF MemoryFollows
<1>2. CASE Process
  <2>1. PICK o \in Outcomes, entry \in Entries, type \in Types :
          LET k == KeyOf(idx, o)
          IN /\ Processed(o, entry, type) /\ k \in Keys /\ idx \in Checks
             /\ tracked' = [tracked EXCEPT ![k] = entry]
             /\ UNCHANGED <<db, newest>>
             /\ type = "none" => pc' = "process"
             /\ type # "none" => /\ pc' = "save" /\ idx' = idx
                                 /\ KeyOf(idx', last'[idx']) = k
                                 /\ unsaved' = [type |-> type, id |-> entry.id]
    BY <1>2, ProcessedFacts
  <2>. DEFINE k == KeyOf(idx, o)
              e == tracked[k]
  <2>2. /\ pc = "process" /\ opened \in Nat
        /\ entry.active = IF type = "recovered" THEN FALSE
                         ELSE IF type = "opened" THEN TRUE ELSE e.active
        /\ IF type = "opened" THEN entry.id = opened + 1 ELSE entry.id = e.id
        /\ type \in {"reminder", "recovered"} => e.active
    BY <2>1, KeyTypes DEF Processed, Lifecycle, TypeOK
  <2>3. \A j \in Keys : Agrees(j) /\ (tracked[j].active => tracked[j].id # 0)
    BY <2>2 DEF Lifecycle, MemoryFollows
  <2>4. tracked \in [Keys -> Entries] /\ k \in Keys /\ tracked' = [tracked EXCEPT ![k] = entry]
        /\ db' = db /\ newest' = newest
    BY <2>1 DEF Lifecycle, TypeOK
  <2>5. tracked'[k] = entry /\ \A j \in Keys : j # k => tracked'[j] = tracked[j]
    BY <2>4
  <2>6. entry.active => entry.id # 0
    <3>1. CASE type = "opened"
      BY <2>2, <3>1
    <3>2. CASE type = "recovered"
      BY <2>2, <3>2
    <3>3. CASE type \notin {"opened", "recovered"}
      <4>1. entry.active = e.active /\ entry.id = e.id
        BY <2>2, <3>3
      <4>. QED
        BY <2>3, <2>4, <4>1
    <3>. QED
      BY <3>1, <3>2, <3>3
  <2>7. \A j \in Keys : tracked'[j].active => tracked'[j].id # 0
    BY <2>3, <2>5, <2>6
  <2>8. \A j \in Keys : j # k => Agrees(j)'
    BY <2>3, <2>4, <2>5 DEF Agrees
  <2>9. CASE type = "none"
    <3>1. entry.active = e.active /\ entry.id = e.id
      BY <2>2, <2>9
    <3>2. \A j \in Keys : j = k => Agrees(j)'
      BY <2>3, <2>4, <2>5, <3>1 DEF Agrees
    <3>. QED
      BY <2>7, <2>8, <3>2 DEF MemoryFollows
  <2>10. CASE type # "none"
    BY <2>1, <2>7, <2>8, <2>10 DEF MemoryFollows, Current
  <2>. QED
    BY <2>9, <2>10
<1>3. CASE Save
  <2>. DEFINE u == unsaved
  <2>1. /\ Current \in Keys /\ u.id # 0 /\ u.id = tracked[Current].id
        /\ newest' = [newest EXCEPT ![Current] = u.id] /\ tracked' = tracked
        /\ pc' = "process" /\ pc = "save"
    BY <1>3, SavedRows
  <2>2. \A q \in db' : \/ /\ u.type = "opened" /\ q.id = u.id /\ q.key = Current
                         /\ q.active = TRUE /\ \A r \in db : r.id # q.id
                      \/ \E r \in db : /\ q.id = r.id /\ q.key = r.key
                                       /\ q.active = IF r.id = u.id
                                                      THEN tracked[Current].active ELSE r.active
    BY <1>3, SavedRows
  <2>3. newest \in [Keys -> 0..MaxIncidents] /\ newest'[Current] = u.id
        /\ \A j \in Keys : j # Current => newest'[j] = newest[j]
    BY <2>1 DEF Lifecycle, TypeOK
  <2>4. tracked[Current].active <=> u.type # "recovered"
    BY <2>1 DEF Lifecycle, OneUnsaved
  <2>5. /\ \A k \in Keys : newest[k] # 0 => \E r \in db : r.id = newest[k] /\ r.key = k
        /\ \A r, s \in db : r.id = s.id => r = s
    BY DEF Lifecycle, TableKeyed
  <2>6. \A j \in Keys : /\ tracked[j].active => tracked[j].id # 0
                        /\ j # Current => Agrees(j)
    BY <2>1 DEF Lifecycle, MemoryFollows
  <2>7. ASSUME NEW j \in Keys, j = Current
        PROVE  Agrees(j)'
    <3>1. SUFFICES ASSUME NEW q \in db', q.id = u.id
                   PROVE  q.active <=> tracked[Current].active
      BY <2>1, <2>3, <2>7 DEF Agrees
    <3>2. CASE u.type = "opened" /\ q.active = TRUE
      BY <2>4, <3>2
    <3>. QED
      BY <2>2, <3>1, <3>2
  <2>8. ASSUME NEW j \in Keys, j # Current
        PROVE  Agrees(j)'
    <3>1. newest'[j] = newest[j] /\ tracked[j].id = newest[j]
      BY <2>3, <2>6, <2>8 DEF Agrees
    <3>2. SUFFICES ASSUME NEW q \in db', q.id = newest[j]
                   PROVE  q.active <=> tracked[j].active
      BY <2>1, <3>1 DEF Agrees
    <3>3. \A r \in db : r.id = newest[j] => newest[j] # 0
      BY KeyTypes DEF Lifecycle, TypeOK, Incidents
    <3>4. CASE \A r \in db : r.id # q.id
      <4>1. q.id = u.id
        BY <2>2, <3>4
      <4>2. newest[j] # 0
        BY <2>1, <3>2, <4>1
      <4>. QED
        BY <2>5, <3>2, <3>4, <4>2
    <3>5. ASSUME NEW r \in db, q.id = r.id
                 , q.active = IF r.id = u.id THEN tracked[Current].active ELSE r.active
          PROVE  q.active <=> tracked[j].active
      <4>1. r.id # u.id
        <5>1. CASE u.type = "opened"
          BY <2>1, <5>1 DEF Lifecycle, OneUnsaved, TypeOK, Incidents
        <5>2. CASE u.type # "opened"
          <6>1. u.id = newest[Current]
            BY <2>1, <5>2 DEF Lifecycle, OneUnsaved
          <6>2. PICK a \in db : a.id = newest[Current] /\ a.key = Current
            BY <2>1, <2>5, <6>1
          <6>3. PICK b \in db : b.id = newest[j] /\ b.key = j
            BY <2>5, <3>2, <3>3, <3>5
          <6>. QED
            BY <2>5, <2>8, <3>2, <3>5, <6>1, <6>2, <6>3
        <5>. QED
          BY <5>1, <5>2
      <4>2. q.active = r.active
        BY <3>5, <4>1
      <4>. QED
        BY <2>6, <2>8, <3>2, <3>5, <4>2 DEF Agrees
    <3>. QED
      BY <2>2, <3>4, <3>5
  <2>. QED
    BY <2>1, <2>6, <2>7, <2>8 DEF MemoryFollows
<1>4. CASE Send
  BY <1>4 DEF Send, Lifecycle, MemoryFollows, Agrees
<1>5. ASSUME NEW n \in 1..MaxTransit, Deliver(n) PROVE MemoryFollows'
  BY <1>5 DEF Deliver, cycleVars, Lifecycle, MemoryFollows, Agrees, Current
<1>6. CASE Crash
  <2>1. /\ tracked' = [k \in Keys |-> Restored(k)] /\ db' = db /\ newest' = newest
    BY <1>6 DEF Crash
  <2>2. \A k \in Keys : /\ tracked'[k].id = newest[k]
                        /\ \A r \in db : r.id = newest[k] => (r.active <=> tracked'[k].active)
                        /\ tracked'[k].active => newest[k] # 0
    BY <2>1, RestoredTypes DEF Lifecycle
  <2>. QED
    BY <2>1, <2>2 DEF MemoryFollows, Agrees
<1>7. CASE UNCHANGED vars
  BY <1>7 DEF vars, cycleVars, Lifecycle, MemoryFollows, Agrees, Current
<1>. QED
  BY <1>1, <1>2, <1>3, <1>4, <1>5, <1>6, <1>7, NextCases

LEMMA OneUnsavedStep ==
  ASSUME Lifecycle, [Next]_vars
  PROVE  OneUnsaved'
<1>1. CASE StartCycle \/ Save \/ Send \/ Crash
  BY <1>1 DEF StartCycle, Save, Send, Crash, OneUnsaved
<1>2. CASE Process
  <2>1. PICK o \in Outcomes, entry \in Entries, type \in Types :
          LET k == KeyOf(idx, o)
          IN /\ Processed(o, entry, type) /\ k \in Keys /\ idx \in Checks
             /\ tracked' = [tracked EXCEPT ![k] = entry]
             /\ UNCHANGED <<db, newest>>
             /\ type = "none" => pc' = "process"
             /\ type # "none" => /\ pc' = "save" /\ idx' = idx
                                 /\ KeyOf(idx', last'[idx']) = k
                                 /\ unsaved' = [type |-> type, id |-> entry.id]
    BY <1>2, ProcessedFacts
  <2>. DEFINE k == KeyOf(idx, o)
              e == tracked[k]
  <2>2. /\ pc = "process" /\ opened \in Nat
        /\ entry.active = IF type = "recovered" THEN FALSE
                         ELSE IF type = "opened" THEN TRUE ELSE e.active
        /\ IF type = "opened" THEN ~e.active /\ entry.id = opened + 1 /\ opened' = opened + 1
           ELSE entry.id = e.id
        /\ type \in {"reminder", "recovered"} => e.active
    BY <2>1, KeyTypes DEF Processed, Lifecycle, TypeOK
  <2>3. tracked \in [Keys -> Entries] /\ k \in Keys /\ Agrees(k)
    BY <2>1, <2>2 DEF Lifecycle, TypeOK, MemoryFollows
  <2>4. SUFFICES ASSUME type # "none" PROVE OneUnsaved'
    BY <2>1 DEF OneUnsaved
  <2>5. /\ pc' = "save" /\ idx' = idx /\ Current' = k /\ db' = db /\ newest' = newest
        /\ unsaved'.type = type /\ unsaved'.id = entry.id /\ tracked'[k] = entry
    BY <2>1, <2>3, <2>4 DEF Current
  <2>6. unsaved' \in EventsOf
    <3>1. unsaved' \in EventsOf \cup {Nothing}
      BY TypeStep DEF TypeOK
    <3>. QED
      BY <2>4, <2>5, <3>1, KeyTypes
  <2>7. tracked'[k].active <=> type # "recovered"
    BY <2>2, <2>4, <2>5 DEF Types
  <2>8. ASSUME type = "opened"
        PROVE  /\ unsaved'.id = opened'
               /\ \A r \in db : r.id < opened' /\ (r.active => r.key # k)
    <3>1. \A r \in db : r.id \in Nat /\ r.id <= opened /\ (r.active => newest[r.key] = r.id)
      BY KeyTypes DEF Lifecycle, TypeOK, Incidents, TableKeyed
    <3>2. \A r \in db : r.active => r.key # k
      BY <2>2, <2>3, <2>8, <3>1 DEF Agrees
    <3>. QED
      BY <2>2, <2>5, <2>8, <3>1, <3>2
  <2>9. ASSUME type # "opened"
        PROVE  unsaved'.id = newest[k] /\ \A r \in db : r.id = newest[k] => r.active
    BY <2>2, <2>3, <2>4, <2>5, <2>9 DEF Agrees, Types
  <2>. QED
    BY <2>1, <2>5, <2>6, <2>7, <2>8, <2>9 DEF OneUnsaved
<1>3. ASSUME NEW n \in 1..MaxTransit, Deliver(n) PROVE OneUnsaved'
  BY <1>3 DEF Deliver, cycleVars, Lifecycle, OneUnsaved, Current
<1>4. CASE UNCHANGED vars
  BY <1>4 DEF vars, cycleVars, Lifecycle, OneUnsaved, Current
<1>. QED
  BY <1>1, <1>2, <1>3, <1>4, NextCases
-----------------------------------------------------------------------------
(* The invariant holds in every state, for any constants.                   *)
LEMMA LifecycleInit == Init => Lifecycle
<1>. SUFFICES ASSUME Init PROVE Lifecycle
  OBVIOUS
<1>. USE KeyTypes, AgeTypes DEF Init
<1>1. TypeOK
  BY LifecycleAssumption DEF TypeOK, Outcomes
<1>2. TableKeyed /\ MemoryFollows /\ OneUnsaved
  BY DEF TableKeyed, MemoryFollows, Agrees, OneUnsaved
<1>. QED
  BY <1>1, <1>2 DEF Lifecycle

(* Wherever the agent crashes, the manager follows the table, which has one *)
(* active incident per key at most, and at most one event is unsaved.       *)
THEOREM SpecLifecycle == Spec => []Lifecycle
<1>1. Lifecycle /\ [Next]_vars => Lifecycle'
  BY TypeStep, TableKeyedStep, MemoryFollowsStep, OneUnsavedStep DEF Lifecycle
<1>. QED
  BY LifecycleInit, <1>1, PTL DEF Spec

(* Every variable has its type, and no key has two active incidents in the  *)
(* table, wherever the agent crashes and however often.                     *)
THEOREM SpecOneActivePerKey == Spec => []OneActivePerKey
<1>1. Lifecycle => OneActivePerKey
  <2>1. SUFFICES ASSUME Lifecycle PROVE OneActivePerKey
    OBVIOUS
  <2>. QED
    BY <2>1 DEF Lifecycle, TableKeyed, OneActivePerKey
<1>. QED
  BY <1>1, SpecLifecycle, PTL

(* Between cycles the manager and the table agree about what is open.       *)
THEOREM SpecMemoryMatchesTable == Spec => []MemoryMatchesTable
<1>1. Lifecycle => MemoryMatchesTable
  <2>1. SUFFICES ASSUME Lifecycle, pc = "idle", NEW k \in Keys
                 PROVE  tracked[k].active <=>
                          \E r \in db : r.key = k /\ r.active /\ r.id = tracked[k].id
    BY DEF MemoryMatchesTable
  <2>2. Agrees(k) /\ (tracked[k].active => tracked[k].id # 0)
    BY <2>1 DEF Lifecycle, MemoryFollows
  <2>3. newest[k] # 0 => \E r \in db : r.id = newest[k] /\ r.key = k
    BY <2>1 DEF Lifecycle, TableKeyed
  <2>. QED
    BY <2>2, <2>3 DEF Agrees
<1>. QED
  BY <1>1, SpecLifecycle, PTL
-----------------------------------------------------------------------------
(* What the server will have been told of an incident.                      *)
Says(msg, i, active) == \A m \in 1..Len(msg) : msg[m].id = i => (active <=> msg[m].type # "recovered")
Underway(i) == \E n \in 1..Len(transit) : Carries(transit[n], i)

(* The events of a cycle are about the keys of the results before idx, one  *)
(* for each.                                                                *)
OnePerResult ==
  /\ pc = "idle" => events = <<>>
  /\ \A m \in 1..Len(events) : \E c \in Checks : c < idx /\ events[m].id = tracked[KeyOf(c, last[c])].id

(* Messages and the server's history are about incidents of the table.      *)
AboutRows ==
  \A i \in 1..MaxIncidents :
    Carries(events, i) \/ Underway(i) \/ i \in overtaken => \E r \in db : r.id = i

(* Message n is the one that closes the incident, and the last about it.    *)
LastWord(n, i, active) ==
  /\ ~active /\ ~Carries(events, i) /\ i \notin overtaken
  /\ Says(transit[n], i, FALSE)
  /\ \A j \in 1..Len(transit) : j > n => ~Carries(transit[j], i)

(* What is under way about an incident says that it is open, except the     *)
(* message that closes it, which no other message about it follows.  When   *)
(* nothing is under way the server shows what the row says, or was told of  *)
(* the recovery too early.                                                  *)
Told(i, active) ==
  /\ Carries(events, i) => Says(events, i, active)
  /\ \A n \in 1..Len(transit) : Says(transit[n], i, TRUE) \/ LastWord(n, i, active)
  /\ i \in overtaken => /\ ~active /\ ~Carries(events, i)
                        /\ Underway(i) \/ server[i] = "open"
  /\ i \notin overtaken /\ ~Carries(events, i) /\ ~Underway(i)
       => server[i] = IF active THEN "open" ELSE "closed"
  /\ i \notin overtaken /\ ~active /\ ~Carries(events, i) /\ Underway(i)
       => \E n \in 1..Len(transit) : Carries(transit[n], i) /\ LastWord(n, i, active)

Informed == crashes = 0 => \A r \in db : Told(r.id, r.active)

(* Two checks have no key in common.                                        *)
LEMMA KeysApart ==
  \A c, d \in Checks, o, p \in Outcomes : c # d => KeyOf(c, o) # KeyOf(d, p)
BY DEF KeyOf

LEMMA OnePerResultStep ==
  ASSUME Lifecycle, OnePerResult, [Next]_vars
  PROVE  OnePerResult'
<1>1. CASE StartCycle
  <2>1. events = <<>> /\ events' = <<>> /\ pc' = "process"
    BY <1>1 DEF StartCycle, OnePerResult
  <2>. QED
    BY <2>1 DEF OnePerResult
<1>2. CASE Process
  <2>1. PICK o \in Outcomes, entry \in Entries, type \in Types :
          LET k == KeyOf(idx, o)
          IN /\ Processed(o, entry, type) /\ k \in Keys /\ idx \in Checks
             /\ tracked' = [tracked EXCEPT ![k] = entry]
             /\ UNCHANGED <<db, newest>>
             /\ type = "none" => pc' = "process"
             /\ type # "none" => /\ pc' = "save" /\ idx' = idx
                                 /\ KeyOf(idx', last'[idx']) = k
                                 /\ unsaved' = [type |-> type, id |-> entry.id]
    BY <1>2, ProcessedFacts
  <2>2. /\ idx \in Nat /\ idx \in Checks /\ idx' \in {idx, idx + 1}
        /\ last' = [last EXCEPT ![idx] = o] /\ last \in [Checks -> Outcomes]
        /\ tracked' = [tracked EXCEPT ![KeyOf(idx, o)] = entry]
        /\ tracked \in [Keys -> Entries] /\ pc' # "idle"
    BY <2>1 DEF Processed, Return, NextResult, Checks, Lifecycle, TypeOK
  <2>3. events' = events
    BY <1>2 DEF Process
  <2>4. ASSUME NEW c \in Checks, c < idx
        PROVE  c < idx' /\ tracked'[KeyOf(c, last'[c])] = tracked[KeyOf(c, last[c])]
    <3>1. c \in Nat /\ c # idx /\ last'[c] = last[c] /\ last[c] \in Outcomes
      BY <2>2, <2>4 DEF Checks
    <3>2. KeyOf(c, last[c]) # KeyOf(idx, o) /\ KeyOf(c, last[c]) \in Keys
      BY <2>2, <3>1, KeysApart, KeyTypes
    <3>. QED
      BY <2>2, <2>4, <3>1, <3>2
  <2>. QED
    BY <2>2, <2>3, <2>4 DEF OnePerResult
<1>3. CASE Save
  <2>1. /\ events' = Append(events, unsaved) /\ tracked' = tracked /\ last' = last
        /\ idx' = idx + 1 /\ pc' = "process"
    BY <1>3 DEF Save, NextResult
  <2>2. /\ idx \in Checks /\ unsaved \in EventsOf /\ unsaved.id = tracked[Current].id
        /\ events \in Seq(EventsOf) /\ idx \in Nat
    BY <1>3 DEF Save, Lifecycle, OneUnsaved, TypeOK, Checks
  <2>3. SUFFICES ASSUME NEW m \in 1..Len(events')
                 PROVE  \E c \in Checks : c < idx + 1 /\ events'[m].id = tracked[KeyOf(c, last[c])].id
    BY <2>1 DEF OnePerResult
  <2>4. CASE m \in 1..Len(events)
    <3>1. events'[m] = events[m]
      BY <2>1, <2>2, <2>4
    <3>2. PICK c \in Checks : c < idx /\ events[m].id = tracked[KeyOf(c, last[c])].id
      BY <2>4 DEF OnePerResult
    <3>3. c < idx + 1
      BY <2>2, <3>2 DEF Checks
    <3>. QED
      BY <3>1, <3>2, <3>3
  <2>5. CASE m = Len(events) + 1
    <3>1. events'[m] = unsaved
      BY <2>1, <2>2, <2>5
    <3>. QED
      BY <2>2, <3>1 DEF Current
  <2>. QED
    BY <2>1, <2>2, <2>4, <2>5
<1>4. CASE Send \/ Crash
  <2>1. events' = <<>>
    BY <1>4 DEF Send, Crash
  <2>. QED
    BY <2>1 DEF OnePerResult
<1>5. ASSUME NEW n \in 1..MaxTransit, Deliver(n) PROVE OnePerResult'
  BY <1>5 DEF Deliver, cycleVars, OnePerResult
<1>6. CASE UNCHANGED vars
  BY <1>6 DEF vars, cycleVars, OnePerResult
<1>. QED
  BY <1>1, <1>2, <1>3, <1>4, <1>5, <1>6, NextCases

(* An incident has at most one event in a cycle.                            *)
LEMMA UnsavedIsNew ==
  ASSUME Lifecycle, OnePerResult, pc = "save"
  PROVE  ~Carries(events, unsaved.id)
<1>1. SUFFICES ASSUME NEW m \in 1..Len(events), events[m].id = unsaved.id PROVE FALSE
  BY DEF Carries
<1>2. PICK c \in Checks : c < idx /\ events[m].id = tracked[KeyOf(c, last[c])].id
  BY DEF OnePerResult
<1>. DEFINE j == KeyOf(c, last[c])
<1>3. idx \in Checks /\ unsaved \in EventsOf /\ Current \in Keys /\ j \in Keys /\ j # Current
  BY <1>2, KeysApart, KeyTypes DEF Lifecycle, OneUnsaved, TypeOK, Current, Checks
<1>4. newest[j] = unsaved.id /\ unsaved.id # 0
  <2>1. Agrees(j)
    BY <1>3 DEF Lifecycle, MemoryFollows
  <2>2. unsaved.id # 0
    BY <1>3, KeyTypes DEF EventsOf
  <2>. QED
    BY <1>1, <1>2, <2>1, <2>2 DEF Agrees
<1>5. PICK b \in db : b.id = unsaved.id /\ b.key = j
  BY <1>3, <1>4 DEF Lifecycle, TableKeyed
<1>6. CASE unsaved.type = "opened"
  BY <1>5, <1>6 DEF Lifecycle, OneUnsaved, TypeOK, Incidents
<1>7. CASE unsaved.type # "opened"
  <2>1. newest[Current] = unsaved.id
    BY <1>7 DEF Lifecycle, OneUnsaved
  <2>2. PICK a \in db : a.id = unsaved.id /\ a.key = Current
    BY <1>3, <1>4, <2>1 DEF Lifecycle, TableKeyed
  <2>. QED
    BY <1>3, <1>5, <2>2 DEF Lifecycle, TableKeyed
<1>. QED
  BY <1>6, <1>7

(* A delivery takes one message out of those under way.                     *)
LEMMA Removed ==
  ASSUME Lifecycle, NEW n \in 1..MaxTransit, Deliver(n)
  PROVE  /\ Len(transit) \in Nat /\ n \in 1..Len(transit) /\ Len(transit') = Len(transit) - 1
         /\ \A j \in 1..Len(transit') : transit'[j] = IF j < n THEN transit[j] ELSE transit[j + 1]
<1>. DEFINE S == Seq(EventsOf)
            one == SubSeq(transit, 1, n - 1)
            two == SubSeq(transit, n + 1, Len(transit))
<1>1. /\ transit \in Seq(S) /\ n \in 1..Len(transit) /\ transit' = one \o two
  BY DEF Deliver, Lifecycle, TypeOK
<1>. HIDE DEF S
<1>2. Len(transit) \in Nat /\ \A k \in 1..Len(transit) : transit[k] \in S
  BY <1>1
<1>3. /\ one \in Seq(S) /\ Len(one) = n - 1 /\ \A k \in 1..(n - 1) : one[k] = transit[k]
  <2>1. \A k \in 1..(n - 1) : transit[k] \in S
    BY <1>1, <1>2
  <2>2. /\ one \in Seq(S)
        /\ Len(one) = IF 1 <= n - 1 THEN (n - 1) - 1 + 1 ELSE 0
        /\ \A k \in 1..((n - 1) - 1 + 1) : one[k] = transit[1 + k - 1]
    BY <1>1, <2>1, SubSeqProperties
  <2>3. \A k \in 1..(n - 1) : 1 + k - 1 = k
    OBVIOUS
  <2>. QED
    BY <1>1, <1>2, <2>2, <2>3
<1>4. /\ two \in Seq(S) /\ Len(two) = Len(transit) - n
      /\ \A k \in 1..(Len(transit) - n) : two[k] = transit[n + k]
  <2>1. \A k \in (n + 1)..Len(transit) : transit[k] \in S
    BY <1>1, <1>2
  <2>2. /\ two \in Seq(S)
        /\ Len(two) = IF n + 1 <= Len(transit) THEN Len(transit) - (n + 1) + 1 ELSE 0
        /\ \A k \in 1..(Len(transit) - (n + 1) + 1) : two[k] = transit[(n + 1) + k - 1]
    BY <1>1, <1>2, <2>1, SubSeqProperties
  <2>3. /\ Len(transit) - (n + 1) + 1 = Len(transit) - n
        /\ Len(transit) - n = IF n + 1 <= Len(transit) THEN Len(transit) - (n + 1) + 1 ELSE 0
        /\ \A k \in 1..(Len(transit) - n) : (n + 1) + k - 1 = n + k
    BY <1>1, <1>2
  <2>. QED
    BY <1>1, <1>2, <2>2, <2>3
<1>. HIDE DEF one, two
<1>5. /\ Len(transit') = Len(one) + Len(two)
      /\ \A k \in 1..(Len(one) + Len(two)) :
           transit'[k] = IF k <= Len(one) THEN one[k] ELSE two[k - Len(one)]
  BY <1>1, <1>3, <1>4, ConcatProperties
<1>6. Len(one) + Len(two) = Len(transit) - 1
  BY <1>1, <1>2, <1>3, <1>4
<1>7. ASSUME NEW j \in 1..Len(transit')
      PROVE  transit'[j] = IF j < n THEN transit[j] ELSE transit[j + 1]
  <2>1. j \in 1..(Len(transit) - 1) /\ j \in Nat
    BY <1>2, <1>5, <1>6
  <2>2. CASE j < n
    <3>1. j \in 1..(n - 1)
      BY <1>1, <2>1, <2>2
    <3>. QED
      BY <1>3, <1>5, <1>6, <2>1, <2>2, <3>1
  <2>3. CASE ~(j < n)
    <3>1. j - (n - 1) \in 1..(Len(transit) - n) /\ n + (j - (n - 1)) = j + 1
          /\ ~(j <= n - 1)
      BY <1>1, <1>2, <2>1, <2>3
    <3>2. transit'[j] = two[j - (n - 1)]
      BY <1>3, <1>5, <1>6, <2>1, <3>1
    <3>. QED
      BY <1>4, <2>3, <3>1, <3>2
  <2>. QED
    BY <2>2, <2>3
<1>. QED
  BY <1>1, <1>2, <1>5, <1>6, <1>7

(* The others keep their order.                                             *)
LEMMA OrderKept ==
  ASSUME Lifecycle, NEW n \in 1..MaxTransit, Deliver(n)
  PROVE  /\ \A j \in 1..Len(transit') :
              \E k \in 1..Len(transit) :
                /\ k # n /\ transit'[j] = transit[k]
                /\ \A l \in 1..Len(transit') : l > j =>
                     \E h \in 1..Len(transit) : h > k /\ transit'[l] = transit[h]
         /\ \A k \in 1..Len(transit) : k # n =>
              \E j \in 1..Len(transit') :
                /\ transit'[j] = transit[k]
                /\ \A l \in 1..Len(transit') : l > j =>
                     \E h \in 1..Len(transit) : h > k /\ transit'[l] = transit[h]
<1>. DEFINE Old(j) == IF j < n THEN j ELSE j + 1
<1>1. /\ Len(transit) \in Nat /\ n \in 1..Len(transit) /\ Len(transit') = Len(transit) - 1
      /\ \A j \in 1..Len(transit') : transit'[j] = transit[Old(j)]
  BY Removed
<1>2. \A j \in 1..Len(transit') : Old(j) \in 1..Len(transit) /\ Old(j) # n
  BY <1>1
<1>3. \A j, l \in 1..Len(transit') : l > j => Old(l) > Old(j)
  BY <1>1
<1>4. \A k \in 1..Len(transit) : k # n => \E j \in 1..Len(transit') : Old(j) = k
  <2>1. SUFFICES ASSUME NEW k \in 1..Len(transit), k # n
                 PROVE  \E j \in 1..Len(transit') : Old(j) = k
    OBVIOUS
  <2>2. CASE k < n
    <3>1. k \in 1..Len(transit') /\ Old(k) = k
      BY <1>1, <2>2
    <3>. QED
      BY <3>1
  <2>3. CASE k > n
    <3>1. k - 1 \in 1..Len(transit') /\ Old(k - 1) = k
      BY <1>1, <2>3
    <3>. QED
      BY <3>1
  <2>4. k < n \/ k > n
    BY <1>1, <2>1
  <2>. QED
    BY <2>2, <2>3, <2>4
<1>. HIDE DEF Old
<1>5. ASSUME NEW j \in 1..Len(transit')
      PROVE  \A l \in 1..Len(transit') : l > j =>
               \E h \in 1..Len(transit) : h > Old(j) /\ transit'[l] = transit[h]
  BY <1>1, <1>2, <1>3
<1>6. ASSUME NEW j \in 1..Len(transit')
      PROVE  \E k \in 1..Len(transit) :
                /\ k # n /\ transit'[j] = transit[k]
                /\ \A l \in 1..Len(transit') : l > j =>
                     \E h \in 1..Len(transit) : h > k /\ transit'[l] = transit[h]
  BY <1>1, <1>2, <1>5
<1>7. ASSUME NEW k \in 1..Len(transit), k # n
      PROVE  \E j \in 1..Len(transit') :
                /\ transit'[j] = transit[k]
                /\ \A l \in 1..Len(transit') : l > j =>
                     \E h \in 1..Len(transit) : h > k /\ transit'[l] = transit[h]
  <2>1. PICK j \in 1..Len(transit') : Old(j) = k
    BY <1>4, <1>7
  <2>. QED
    BY <1>1, <1>5, <2>1
<1>. QED
  BY <1>6, <1>7

(* A message does not say both of an incident.                              *)
LEMMA SaysOne ==
  ASSUME NEW msg, NEW i, Carries(msg, i)
  PROVE  ~(Says(msg, i, TRUE) /\ Says(msg, i, FALSE))
BY DEF Carries, Says

(* What a delivery shows of one incident.                                   *)
LEMMA Shows ==
  ASSUME Lifecycle, NEW n \in 1..MaxTransit, Deliver(n), NEW i \in 1..MaxIncidents
  PROVE  /\ ~Carries(transit[n], i) =>
              server'[i] = server[i] /\ (i \in overtaken' <=> i \in overtaken)
         /\ Carries(transit[n], i) /\ Says(transit[n], i, TRUE) =>
              server'[i] = "open" /\ (i \in overtaken' <=> i \in overtaken)
         /\ Carries(transit[n], i) /\ Says(transit[n], i, FALSE) =>
              /\ server'[i] = "closed"
              /\ i \in overtaken' <=> \/ i \in overtaken
                                     \/ \E j \in 1..(n - 1) : Carries(transit[j], i)
<1>. DEFINE msg == transit[n]
            Of(h) == {m \in 1..Len(msg) : msg[m].id = h}
            pick == CHOOSE m \in Of(i) : TRUE
<1>1. /\ server'[i] = IF Of(i) = {} THEN server[i] ELSE Shown(i, msg[pick].type)
      /\ i \in overtaken' <=> \/ i \in overtaken
                             \/ /\ \E m \in Of(i) : msg[m].type = "recovered"
                                /\ \E j \in 1..(n - 1) : Carries(transit[j], i)
  BY DEF Deliver
<1>2. Carries(msg, i) <=> Of(i) # {}
  BY DEF Carries
<1>3. Of(i) # {} => pick \in Of(i)
  OBVIOUS
<1>4. \A active \in BOOLEAN : Says(msg, i, active) =>
        \A m \in Of(i) : active <=> msg[m].type # "recovered"
  BY DEF Says
<1>. HIDE DEF Of, pick, msg
<1>5. CASE ~Carries(msg, i)
  BY <1>1, <1>2, <1>5 DEF msg
<1>6. CASE Carries(msg, i) /\ Says(msg, i, TRUE)
  <2>1. \A m \in Of(i) : msg[m].type # "recovered"
    BY <1>4, <1>6
  <2>. QED
    BY <1>1, <1>2, <1>3, <1>6, <2>1, SaysOne DEF msg, Shown
<1>7. CASE Carries(msg, i) /\ Says(msg, i, FALSE)
  <2>1. \A m \in Of(i) : msg[m].type = "recovered"
    BY <1>4, <1>7
  <2>. QED
    BY <1>1, <1>2, <1>3, <1>7, <2>1, SaysOne DEF msg, Shown
<1>. QED
  BY <1>5, <1>6, <1>7 DEF msg

LEMMA AboutRowsStep ==
  ASSUME Lifecycle, AboutRows, [Next]_vars
  PROVE  AboutRows'
<1>1. CASE StartCycle
  <2>1. UNCHANGED <<events, transit, overtaken>>
    BY <1>1 DEF StartCycle, serverVars
  <2>2. \A r \in db : \E q \in db' : q.id = r.id
    BY <1>1, AgedRows DEF Lifecycle
  <2>. QED
    BY <2>1, <2>2 DEF AboutRows, Carries, Underway
<1>2. CASE Process
  BY <1>2 DEF Process, serverVars, AboutRows, Carries, Underway
<1>3. CASE Save
  <2>1. /\ transit' = transit /\ overtaken' = overtaken
        /\ events' = Append(events, unsaved) /\ events \in Seq(EventsOf) /\ unsaved \in EventsOf
    BY <1>3 DEF Save, serverVars, Lifecycle, OneUnsaved, TypeOK
  <2>2. /\ \A r \in db : \E q \in db' : q.id = r.id
        /\ \E q \in db' : q.id = unsaved.id
    <3>1. CASE unsaved.type = "opened"
      BY <1>3, <3>1, SavedRows
    <3>2. CASE unsaved.type # "opened"
      <4>1. unsaved.id = newest[Current] /\ Current \in Keys /\ unsaved.id # 0
        BY <1>3, <3>2, SavedRows DEF Lifecycle, OneUnsaved
      <4>2. PICK r \in db : r.id = unsaved.id
        BY <4>1 DEF Lifecycle, TableKeyed
      <4>. QED
        BY <1>3, <4>2, SavedRows
    <3>. QED
      BY <3>1, <3>2
  <2>3. \A i : Carries(events', i) => Carries(events, i) \/ i = unsaved.id
    <3>. HIDE DEF EventsOf
    <3>. QED
      BY <2>1 DEF Carries
  <2>. QED
    BY <2>1, <2>2, <2>3 DEF AboutRows, Underway, Carries
<1>4. CASE Send
  <2>1. /\ db' = db /\ overtaken' = overtaken /\ events' = <<>>
        /\ events \in Seq(EventsOf) /\ transit \in Seq(Seq(EventsOf))
        /\ transit' = transit \/ transit' = Append(transit, events)
    BY <1>4 DEF Send, serverVars, Lifecycle, TypeOK
  <2>2. \A i : ~Carries(events', i)
    BY <2>1 DEF Carries
  <2>3. \A n \in 1..Len(transit') : transit'[n] = events
                                    \/ \E k \in 1..Len(transit) : transit'[n] = transit[k]
    <3>. HIDE DEF EventsOf
    <3>. QED
      BY <2>1
  <2>4. \A i : Underway(i)' => Underway(i) \/ Carries(events, i)
    BY <2>3 DEF Underway, Carries
  <2>. QED
    BY <2>1, <2>2, <2>4 DEF AboutRows
<1>5. ASSUME NEW n \in 1..MaxTransit, Deliver(n) PROVE AboutRows'
  <2>1. db' = db /\ events' = events
    BY <1>5 DEF Deliver, cycleVars
  <2>2. \A i : Underway(i)' => Underway(i)
    BY <1>5, OrderKept DEF Underway, Carries
  <2>3. \A i \in overtaken' : i \in overtaken \/ Underway(i)
    <3>1. \A i \in overtaken' : i \in overtaken \/ \E j \in 1..(n - 1) : Carries(transit[j], i)
      BY <1>5 DEF Deliver
    <3>2. 1..(n - 1) \subseteq 1..Len(transit)
      BY <1>5, Removed
    <3>. QED
      BY <3>1, <3>2 DEF Underway
  <2>. QED
    BY <2>1, <2>2, <2>3 DEF AboutRows, Carries
<1>6. CASE Crash
  <2>1. /\ UNCHANGED <<db, transit, overtaken>> /\ events' = <<>>
    BY <1>6 DEF Crash, serverVars
  <2>2. \A i : ~Carries(events', i)
    BY <2>1 DEF Carries
  <2>. QED
    BY <2>1, <2>2 DEF AboutRows, Underway
<1>7. CASE UNCHANGED vars
  BY <1>7 DEF vars, cycleVars, serverVars, AboutRows, Carries, Underway
<1>. QED
  BY <1>1, <1>2, <1>3, <1>4, <1>5, <1>6, <1>7, NextCases

(* A delivery keeps what is told of an incident in order.                   *)
LEMMA ToldDelivered ==
  ASSUME Lifecycle, NEW n \in 1..MaxTransit, Deliver(n), NEW i \in 1..MaxIncidents,
         NEW active \in BOOLEAN, Told(i, active)
  PROVE  Told(i, active)'
<1>1. /\ events' = events /\ (Carries(events', i) <=> Carries(events, i))
      /\ (Says(events', i, active) <=> Says(events, i, active))
  BY DEF Deliver, cycleVars, Carries, Says
<1>2. /\ Len(transit) \in Nat /\ n \in 1..Len(transit)
      /\ \A j \in 1..(n - 1) : j \in 1..Len(transit) /\ j # n
  BY Removed
<1>3. Carries(events, i) => Says(events, i, active)
  BY DEF Told
<1>4. \A k \in 1..Len(transit) : Says(transit[k], i, TRUE) \/ LastWord(k, i, active)
  BY DEF Told
(* The messages that are left, seen from before and from after.             *)
<1>5. \A j \in 1..Len(transit') : \E k \in 1..Len(transit) :
        /\ k # n /\ transit'[j] = transit[k]
        /\ i \notin overtaken' /\ LastWord(k, i, active) => LastWord(j, i, active)'
  <2>1. SUFFICES ASSUME NEW j \in 1..Len(transit')
                 PROVE  \E k \in 1..Len(transit) :
                          /\ k # n /\ transit'[j] = transit[k]
                          /\ i \notin overtaken' /\ LastWord(k, i, active)
                               => LastWord(j, i, active)'
    OBVIOUS
  <2>2. PICK k \in 1..Len(transit) :
          /\ k # n /\ transit'[j] = transit[k]
          /\ \A l \in 1..Len(transit') : l > j =>
               \E h \in 1..Len(transit) : h > k /\ transit'[l] = transit[h]
    BY OrderKept
  <2>3. ASSUME i \notin overtaken', LastWord(k, i, active)
        PROVE  LastWord(j, i, active)'
    <3>1. ~active /\ ~Carries(events', i) /\ Says(transit'[j], i, FALSE)
      BY <1>1, <2>2, <2>3 DEF LastWord
    <3>2. ASSUME NEW l \in 1..Len(transit'), l > j
          PROVE  ~Carries(transit'[l], i)
      BY <2>2, <2>3, <3>2 DEF LastWord
    <3>. QED
      BY <2>3, <3>1, <3>2 DEF LastWord
  <2>. QED
    BY <2>2, <2>3
<1>6. \A k \in 1..Len(transit) : k # n => \E j \in 1..Len(transit') :
        /\ transit'[j] = transit[k]
        /\ i \notin overtaken' /\ LastWord(k, i, active) => LastWord(j, i, active)'
  <2>1. SUFFICES ASSUME NEW k \in 1..Len(transit), k # n
                 PROVE  \E j \in 1..Len(transit') :
                          /\ transit'[j] = transit[k]
                          /\ i \notin overtaken' /\ LastWord(k, i, active)
                               => LastWord(j, i, active)'
    OBVIOUS
  <2>2. PICK j \in 1..Len(transit') :
          /\ transit'[j] = transit[k]
          /\ \A l \in 1..Len(transit') : l > j =>
               \E h \in 1..Len(transit) : h > k /\ transit'[l] = transit[h]
    BY <2>1, OrderKept
  <2>3. ASSUME i \notin overtaken', LastWord(k, i, active)
        PROVE  LastWord(j, i, active)'
    <3>1. ~active /\ ~Carries(events', i) /\ Says(transit'[j], i, FALSE)
      BY <1>1, <2>2, <2>3 DEF LastWord
    <3>2. ASSUME NEW l \in 1..Len(transit'), l > j
          PROVE  ~Carries(transit'[l], i)
      BY <2>2, <2>3, <3>2 DEF LastWord
    <3>. QED
      BY <2>3, <3>1, <3>2 DEF LastWord
  <2>. QED
    BY <2>2, <2>3
<1>7. \A k \in 1..Len(transit) : k # n /\ Carries(transit[k], i) => Underway(i)'
  <2>1. SUFFICES ASSUME NEW k \in 1..Len(transit), k # n, Carries(transit[k], i)
                 PROVE  \E j \in 1..Len(transit') : Carries(transit'[j], i)
    BY DEF Underway, Carries
  <2>. QED
    BY <1>6, <2>1
<1>8. Underway(i)' => \E k \in 1..Len(transit) : k # n /\ Carries(transit[k], i)
  BY <1>5 DEF Underway, Carries
(* Nothing about the incident arrives.                                      *)
<1>9. CASE ~Carries(transit[n], i)
  <2>1. server'[i] = server[i] /\ (i \in overtaken' <=> i \in overtaken)
    BY <1>9, Shows
  <2>2. Underway(i)' <=> Underway(i)
    BY <1>7, <1>8, <1>9 DEF Underway
  <2>3. \A j \in 1..Len(transit') : Says(transit'[j], i, TRUE) \/ LastWord(j, i, active)'
    BY <1>4, <1>5, <2>1 DEF LastWord
  <2>4. i \notin overtaken /\ ~active /\ ~Carries(events, i) /\ Underway(i)
          => \E j \in 1..Len(transit') : Carries(transit'[j], i) /\ LastWord(j, i, active)'
    <3>1. SUFFICES ASSUME i \notin overtaken, ~active, ~Carries(events, i), Underway(i)
                   PROVE  \E j \in 1..Len(transit') : Carries(transit'[j], i)
                                                     /\ LastWord(j, i, active)'
      OBVIOUS
    <3>2. PICK k \in 1..Len(transit) : Carries(transit[k], i) /\ LastWord(k, i, active)
      BY <3>1 DEF Told
    <3>. QED
      BY <1>6, <1>9, <2>1, <3>1, <3>2
  <2>5. /\ i \in overtaken => /\ ~active /\ ~Carries(events, i)
                              /\ Underway(i) \/ server[i] = "open"
        /\ i \notin overtaken /\ ~Carries(events, i) /\ ~Underway(i)
             => server[i] = IF active THEN "open" ELSE "closed"
    BY DEF Told
  <2>. QED
    BY <1>1, <1>3, <2>1, <2>2, <2>3, <2>4, <2>5 DEF Told, Carries, Says
(* A message arrives that says the incident is open.                        *)
<1>10. CASE Carries(transit[n], i) /\ Says(transit[n], i, TRUE)
  <2>1. server'[i] = "open" /\ (i \in overtaken' <=> i \in overtaken)
    BY <1>10, Shows
  <2>2. \A j \in 1..Len(transit') : Says(transit'[j], i, TRUE) \/ LastWord(j, i, active)'
    BY <1>4, <1>5, <2>1 DEF LastWord
  <2>3. i \notin overtaken /\ ~active /\ ~Carries(events, i)
          => \E j \in 1..Len(transit') : Carries(transit'[j], i) /\ LastWord(j, i, active)'
    <3>1. SUFFICES ASSUME i \notin overtaken, ~active, ~Carries(events, i)
                   PROVE  \E j \in 1..Len(transit') : Carries(transit'[j], i)
                                                     /\ LastWord(j, i, active)'
      OBVIOUS
    <3>2. Underway(i)
      BY <1>2, <1>10 DEF Underway
    <3>3. PICK k \in 1..Len(transit) : Carries(transit[k], i) /\ LastWord(k, i, active)
      BY <3>1, <3>2 DEF Told
    <3>4. k # n
      BY <1>10, <3>3, SaysOne DEF LastWord
    <3>. QED
      BY <1>6, <2>1, <3>1, <3>3, <3>4
  <2>4. (\E j \in 1..Len(transit') : Carries(transit'[j], i)) => Underway(i)'
    BY DEF Underway, Carries
  <2>5. i \in overtaken => ~active /\ ~Carries(events, i)
    BY DEF Told
  <2>. QED
    BY <1>1, <1>3, <2>1, <2>2, <2>3, <2>4, <2>5 DEF Told, Carries, Says
(* The message that closes it arrives: earlier ones may follow.             *)
<1>11. CASE Carries(transit[n], i) /\ ~Says(transit[n], i, TRUE)
  <2>1. LastWord(n, i, active)
    BY <1>2, <1>4, <1>11
  <2>2. /\ ~active /\ ~Carries(events, i) /\ i \notin overtaken /\ Says(transit[n], i, FALSE)
        /\ \A j \in 1..Len(transit) : j > n => ~Carries(transit[j], i)
    BY <2>1 DEF LastWord
  <2>3. /\ server'[i] = "closed"
        /\ i \in overtaken' <=> \E j \in 1..(n - 1) : Carries(transit[j], i)
    BY <1>11, <2>2, Shows
  <2>4. \A k \in 1..Len(transit) : k # n => Says(transit[k], i, TRUE)
    <3>1. SUFFICES ASSUME NEW k \in 1..Len(transit), k # n PROVE Says(transit[k], i, TRUE)
      OBVIOUS
    <3>2. CASE k > n
      BY <2>2, <3>2 DEF Says, Carries
    <3>3. CASE k < n
      <4>1. ~LastWord(k, i, active)
        BY <1>2, <1>11, <3>3 DEF LastWord
      <4>. QED
        BY <1>4, <4>1
    <3>4. k < n \/ k > n
      BY <1>2, <3>1
    <3>. QED
      BY <3>2, <3>3, <3>4
  <2>5. \A j \in 1..Len(transit') : Says(transit'[j], i, TRUE)
    BY <1>5, <2>4
  <2>6. i \in overtaken' => Underway(i)'
    BY <1>2, <1>7, <2>3
  <2>7. i \notin overtaken' => ~Underway(i)'
    <3>1. SUFFICES ASSUME i \notin overtaken', NEW k \in 1..Len(transit), k # n,
                          Carries(transit[k], i)
                   PROVE  FALSE
      BY <1>8
    <3>2. k < n
      BY <1>2, <2>2, <3>1
    <3>3. k \in 1..(n - 1)
      BY <1>2, <3>2
    <3>. QED
      BY <2>3, <3>1, <3>3
  <2>. QED
    BY <1>1, <2>2, <2>3, <2>5, <2>6, <2>7 DEF Told, Carries, Says
<1>. QED
  BY <1>9, <1>10, <1>11

(* What nothing touches stays told.                                         *)
LEMMA ToldSame ==
  ASSUME NEW i, NEW active, UNCHANGED <<events, transit, server, overtaken>>, Told(i, active)
  PROVE  Told(i, active)'
<1>1. /\ Carries(events', i) <=> Carries(events, i)
      /\ Says(events', i, active) <=> Says(events, i, active)
      /\ Underway(i)' <=> Underway(i)
  BY DEF Carries, Says, Underway
<1>2. \A n \in 1..Len(transit) : LastWord(n, i, active)' <=> LastWord(n, i, active)
  <2>1. SUFFICES ASSUME NEW n \in 1..Len(transit)
                 PROVE  LastWord(n, i, active)' <=> LastWord(n, i, active)
    OBVIOUS
  <2>. QED
    BY <1>1 DEF LastWord
<1>3. transit' = transit /\ server' = server /\ overtaken' = overtaken
  OBVIOUS
<1>. QED
  BY <1>1, <1>2, <1>3 DEF Told

LEMMA InformedStep ==
  ASSUME Lifecycle, OnePerResult, AboutRows, Informed, [Next]_vars
  PROVE  Informed'
<1>0. \A r \in db : r.id \in 1..MaxIncidents /\ r.active \in BOOLEAN
  BY DEF Lifecycle, TypeOK, Incidents
<1>1. CASE StartCycle
  <2>1. SUFFICES ASSUME crashes' = 0, NEW q \in db' PROVE Told(q.id, q.active)'
    BY DEF Informed
  <2>2. crashes = 0 /\ UNCHANGED <<events, transit, server, overtaken>>
    BY <1>1, <2>1 DEF StartCycle, serverVars
  <2>3. PICK r \in db : r.id = q.id /\ r.active = q.active
    BY <1>1, AgedRows DEF Lifecycle
  <2>4. Told(q.id, q.active)
    BY <2>2, <2>3 DEF Informed
  <2>. QED
    BY <2>2, <2>4, ToldSame
<1>2. CASE Process
  <2>1. UNCHANGED <<db, events, transit, server, overtaken, crashes>>
    BY <1>2 DEF Process, serverVars
  <2>. QED
    BY <2>1, ToldSame DEF Informed
<1>3. CASE Save
  <2>1. SUFFICES ASSUME crashes' = 0, NEW q \in db' PROVE Told(q.id, q.active)'
    BY DEF Informed
  <2>2. /\ crashes = 0 /\ pc = "save" /\ UNCHANGED <<transit, server, overtaken>>
        /\ events' = Append(events, unsaved) /\ events \in Seq(EventsOf) /\ unsaved \in EventsOf
        /\ (tracked[Current].active <=> unsaved.type # "recovered")
        /\ unsaved.id \in 1..MaxIncidents
    BY <1>3, <2>1 DEF Save, serverVars, Lifecycle, OneUnsaved, TypeOK, EventsOf
  <2>3. \/ /\ unsaved.type = "opened" /\ q.id = unsaved.id /\ q.key = Current
           /\ q.active = TRUE /\ \A r \in db : r.id # q.id
        \/ \E r \in db : /\ q.id = r.id /\ q.key = r.key
                         /\ q.active = IF r.id = unsaved.id
                                        THEN tracked[Current].active ELSE r.active
    BY <1>3, SavedRows
  <2>4. /\ Len(events') = Len(events) + 1 /\ events'[Len(events) + 1] = unsaved
        /\ \A m \in 1..Len(events) : events'[m] = events[m]
        /\ Len(events) \in Nat
    BY <2>2
  <2>5. CASE q.id = unsaved.id
    <3>1. q.active <=> unsaved.type # "recovered"
      BY <2>2, <2>3, <2>5
    <3>2. ~Carries(events, q.id)
      BY <2>2, <2>5, UnsavedIsNew
    <3>3. Carries(events', q.id) /\ Says(events', q.id, q.active)
      BY <2>4, <2>5, <3>1, <3>2 DEF Carries, Says
    <3>4. /\ \A n \in 1..Len(transit) : Says(transit[n], q.id, TRUE)
          /\ q.id \notin overtaken
      <4>1. CASE \A r \in db : r.id # q.id
        <5>1. ~Underway(q.id) /\ q.id \notin overtaken
          BY <2>2, <2>5, <4>1 DEF AboutRows
        <5>. QED
          BY <5>1 DEF Underway, Carries, Says
      <4>2. CASE \E r \in db : r.id = q.id
        <5>1. PICK r \in db : r.id = q.id
          BY <4>2
        <5>2. unsaved.type # "opened" /\ r.active
          <6>1. opened \in Nat /\ r.id \in Nat
            BY <1>0 DEF Lifecycle, TypeOK
          <6>. QED
            BY <2>2, <2>5, <5>1, <6>1 DEF Lifecycle, OneUnsaved
        <5>3. Told(q.id, TRUE)
          <6>1. r.active = TRUE
            BY <1>0, <5>2
          <6>. QED
            BY <2>2, <5>1, <6>1 DEF Informed
        <5>. QED
          BY <5>3 DEF Told, LastWord
      <4>. QED
        BY <4>1, <4>2
    <3>. QED
      BY <2>2, <3>3, <3>4 DEF Told
  <2>6. CASE q.id # unsaved.id
    <3>1. PICK r \in db : q.id = r.id /\ q.active = r.active
      BY <2>3, <2>6
    <3>2. Told(q.id, q.active)
      BY <2>2, <3>1 DEF Informed
    <3>3. Carries(events', q.id) <=> Carries(events, q.id)
      BY <2>4, <2>6 DEF Carries
    <3>4. Says(events', q.id, q.active) <=> Says(events, q.id, q.active)
      BY <2>4, <2>6 DEF Says
    <3>5. Underway(q.id)' <=> Underway(q.id)
      BY <2>2 DEF Underway, Carries
    <3>6. \A n \in 1..Len(transit) : LastWord(n, q.id, q.active)' <=> LastWord(n, q.id, q.active)
      BY <2>2, <3>3 DEF LastWord, Carries, Says
    <3>. QED
      BY <2>2, <3>2, <3>3, <3>4, <3>5, <3>6 DEF Told
  <2>. QED
    BY <2>5, <2>6
<1>4. CASE Send
  <2>1. SUFFICES ASSUME crashes' = 0, NEW r \in db PROVE Told(r.id, r.active)'
    BY <1>4 DEF Informed, Send
  <2>0. PICK i \in 1..MaxIncidents, active \in BOOLEAN : i = r.id /\ active = r.active
    BY <1>0, <1>4 DEF Send
  <2>2. /\ crashes = 0 /\ server' = server /\ overtaken' = overtaken /\ events' = <<>>
        /\ events \in Seq(EventsOf) /\ transit \in Seq(Seq(EventsOf))
    BY <1>4, <2>1 DEF Send, serverVars, Lifecycle, TypeOK
  <2>3. Told(i, active)
    BY <2>0, <2>2 DEF Informed
  <2>4. ~Carries(events', i)
    BY <2>2 DEF Carries
  <2>5. ASSUME events = <<>> PROVE Told(i, active)'
    <3>1. transit' = transit /\ events' = events
      BY <1>4, <2>2, <2>5 DEF Send
    <3>. QED
      BY <2>2, <2>3, <3>1, ToldSame
  <2>6. ASSUME events # <<>> PROVE Told(i, active)'
    <3>1. transit' = Append(transit, events)
      BY <1>4, <2>6 DEF Send
    <3>2. /\ Len(transit) \in Nat /\ Len(transit') = Len(transit) + 1
          /\ transit'[Len(transit) + 1] = events
          /\ \A n \in 1..Len(transit) : transit'[n] = transit[n]
      <4>. HIDE DEF EventsOf
      <4>. QED
        BY <2>2, <3>1
    <3>3. /\ \A n \in 1..Len(transit') : n \in 1..Len(transit) \/ n = Len(transit) + 1
          /\ \A n \in 1..Len(transit) : n \in 1..Len(transit') /\ Len(transit) + 1 > n
          /\ Len(transit) + 1 \in 1..Len(transit')
          /\ ~ \E n \in 1..Len(transit') : n > Len(transit) + 1
      BY <3>2
    <3>4. (\E n \in 1..Len(transit') : Carries(transit'[n], i)) <=> Underway(i)'
      BY DEF Underway, Carries
    <3>5. CASE Carries(events, i)
      <4>0. PICK n0 \in Nat : n0 = Len(transit) + 1
        BY <3>2
      <4>1. /\ Says(events, i, active) /\ i \notin overtaken
            /\ \A n \in 1..Len(transit) : Says(transit[n], i, TRUE)
        BY <2>3, <3>5 DEF Told, LastWord
      <4>2. ~active => LastWord(n0, i, active)'
        <5>1. SUFFICES ASSUME ~active PROVE LastWord(n0, i, active)'
          OBVIOUS
        <5>2. active = FALSE
          BY <2>3, <5>1
        <5>3. Says(transit'[Len(transit) + 1], i, FALSE)
          BY <3>2, <4>1, <5>2
        <5>4. \A j \in 1..Len(transit') : j > Len(transit) + 1 => ~Carries(transit'[j], i)
          BY <3>3
        <5>. QED
          BY <2>2, <2>4, <4>0, <4>1, <5>2, <5>3, <5>4 DEF LastWord
      <4>3. active => Says(transit'[Len(transit) + 1], i, TRUE)
        BY <2>3, <3>2, <4>1 DEF Says
      <4>4. Carries(transit'[Len(transit) + 1], i)
        BY <3>2, <3>5
      <4>5. Underway(i)'
        BY <3>3, <3>4, <4>4
      <4>6. \A n \in 1..Len(transit') : Says(transit'[n], i, TRUE) \/ LastWord(n, i, active)'
        <5>1. \A n \in 1..Len(transit) : Says(transit'[n], i, TRUE)
          BY <3>2, <4>1
        <5>2. \/ Says(transit'[Len(transit) + 1], i, TRUE)
              \/ LastWord(n0, i, active)'
          BY <4>2, <4>3
        <5>. QED
          BY <3>3, <4>0, <5>1, <5>2
      <4>7. ~active => \E n \in 1..Len(transit') : Carries(transit'[n], i)
                                                  /\ LastWord(n, i, active)'
        BY <3>3, <4>0, <4>2, <4>4
      <4>. QED
        BY <2>2, <2>4, <4>1, <4>5, <4>6, <4>7 DEF Told
    <3>6. CASE ~Carries(events, i)
      <4>1. Underway(i)' <=> Underway(i)
        BY <3>2, <3>3, <3>4, <3>6 DEF Underway
      <4>2. \A n \in 1..Len(transit) : LastWord(n, i, active) => LastWord(n, i, active)'
        BY <2>2, <2>4, <3>2, <3>3, <3>6 DEF LastWord, Carries, Says
      <4>3. \A n \in 1..Len(transit') : Says(transit'[n], i, TRUE) \/ LastWord(n, i, active)'
        BY <2>3, <3>2, <3>3, <3>6, <4>2 DEF Told, Says, Carries
      <4>4. ASSUME i \notin overtaken, ~active, Underway(i)
            PROVE  \E n \in 1..Len(transit') : Carries(transit'[n], i) /\ LastWord(n, i, active)'
        <5>1. PICK n \in 1..Len(transit) : Carries(transit[n], i) /\ LastWord(n, i, active)
          BY <2>3, <3>6, <4>4 DEF Told
        <5>2. n \in 1..Len(transit') /\ transit'[n] = transit[n]
          BY <3>2, <3>3
        <5>. QED
          BY <4>2, <5>1, <5>2
      <4>5. /\ i \in overtaken => ~active /\ (Underway(i) \/ server[i] = "open")
            /\ i \notin overtaken /\ ~Underway(i)
                 => server[i] = IF active THEN "open" ELSE "closed"
        BY <2>3, <3>6 DEF Told
      <4>. QED
        BY <2>2, <2>4, <4>1, <4>3, <4>4, <4>5 DEF Told
    <3>. QED
      BY <3>5, <3>6
  <2>. QED
    BY <2>0, <2>5, <2>6
<1>5. ASSUME NEW n \in 1..MaxTransit, Deliver(n) PROVE Informed'
  <2>1. SUFFICES ASSUME crashes' = 0, NEW r \in db PROVE Told(r.id, r.active)'
    BY <1>5 DEF Informed, Deliver
  <2>2. crashes = 0
    BY <1>5, <2>1 DEF Deliver
  <2>. QED
    BY <1>0, <1>5, <2>2, ToldDelivered DEF Informed
<1>6. CASE Crash
  <2>1. crashes' # 0
    BY <1>6, LifecycleAssumption DEF Crash, Lifecycle, TypeOK
  <2>. QED
    BY <2>1 DEF Informed
<1>7. CASE UNCHANGED vars
  <2>1. UNCHANGED <<db, events, transit, server, overtaken, crashes>>
    BY <1>7 DEF vars, cycleVars, serverVars
  <2>. QED
    BY <2>1, ToldSame DEF Informed
<1>. QED
  BY <1>1, <1>2, <1>3, <1>4, <1>5, <1>6, <1>7, NextCases

(* In whatever order messages arrive, once they have the server shows what  *)
(* the agent knows, except for the incidents whose recovery overtook an     *)
(* earlier message: those it shows as open.  For any number of incidents    *)
(* and messages.                                                            *)
THEOREM SpecServerShowsRecovery == Spec => []ServerShowsRecovery
<1>. DEFINE Inv == Lifecycle /\ OnePerResult /\ AboutRows /\ Informed
<1>1. Init => Inv
  <2>1. SUFFICES ASSUME Init PROVE OnePerResult /\ AboutRows /\ Informed
    BY LifecycleInit
  <2>. QED
    BY <2>1 DEF Init, OnePerResult, AboutRows, Informed, Underway, Carries
<1>2. Inv /\ [Next]_vars => Inv'
  BY TypeStep, TableKeyedStep, MemoryFollowsStep, OneUnsavedStep, OnePerResultStep,
     AboutRowsStep, InformedStep
     DEF Lifecycle
<1>3. Inv => ServerShowsRecovery
  <2>1. SUFFICES ASSUME Inv, pc = "idle", transit = <<>>, crashes = 0, NEW r \in db
                 PROVE  server[r.id] = IF r.active \/ r.id \in overtaken
                                        THEN "open" ELSE "closed"
    BY DEF ServerShowsRecovery
  <2>2. Told(r.id, r.active) /\ events = <<>>
    BY <2>1 DEF Informed, OnePerResult
  <2>3. ~Carries(events, r.id) /\ ~Underway(r.id)
    BY <2>1, <2>2 DEF Carries, Underway
  <2>. QED
    BY <2>2, <2>3 DEF Told
<1>. QED
  BY <1>1, <1>2, <1>3, PTL DEF Spec
-----------------------------------------------------------------------------
(* A notification of an incident that has not left yet.                     *)
Pending(i) ==
  \/ \E m \in 1..Len(events) : events[m].id = i /\ events[m].type # "recovered"
  \/ pc = "save" /\ unsaved.id = i /\ unsaved.type # "recovered"

Due(i) == told[i] = 0 \/ told[i] - Now >= Cooldown

(* The manager knows when it last notified, and what is pending was due.    *)
Timely ==
  crashes = 0 =>
    /\ \A i \in 1..MaxIncidents : i > opened => told[i] = 0
    /\ \A i \in 1..MaxIncidents : Pending(i) => Due(i)
    /\ \A k \in Keys : tracked[k].active =>
         tracked[k].notified = IF Pending(tracked[k].id) THEN Now ELSE told[tracked[k].id]

(* Two keys have no incident in common.                                     *)
LEMMA IdsApart ==
  ASSUME Lifecycle, NEW j \in Keys, NEW k \in Keys, j # k, newest[j] # 0
  PROVE  newest[j] # newest[k] /\ newest[j] <= opened
<1>1. PICK r \in db : r.id = newest[j] /\ r.key = j
  BY DEF Lifecycle, TableKeyed
<1>2. newest[k] # 0 => \E q \in db : q.id = newest[k] /\ q.key = k
  BY DEF Lifecycle, TableKeyed
<1>3. r.id <= opened /\ \A q \in db : r.id = q.id => r = q
  BY DEF Lifecycle, TableKeyed
<1>. QED
  BY <1>1, <1>2, <1>3

(* The events of a cycle are about incidents that were opened, and about no *)
(* key whose result is still to come.                                       *)
LEMMA EventIds ==
  ASSUME Lifecycle, OnePerResult, pc = "process", NEW m \in 1..Len(events)
  PROVE  /\ events[m].id <= opened /\ events[m].id # 0 /\ events[m].id \in 1..MaxIncidents
         /\ \A o \in Outcomes : idx \in Checks => events[m].id # tracked[KeyOf(idx, o)].id
<1>1. PICK c \in Checks : c < idx /\ events[m].id = tracked[KeyOf(c, last[c])].id
  BY DEF OnePerResult
<1>. DEFINE j == KeyOf(c, last[c])
<1>2. j \in Keys /\ c # idx
  BY <1>1, KeyTypes DEF Lifecycle, TypeOK, Checks
<1>3. events[m] \in EventsOf
  BY DEF Lifecycle, TypeOK
<1>4. events[m].id # 0 /\ events[m].id \in 1..MaxIncidents
  BY <1>3, KeyTypes DEF EventsOf
<1>5. events[m].id = newest[j]
  BY <1>1, <1>2 DEF Lifecycle, MemoryFollows, Agrees
<1>6. PICK r \in db : r.id = newest[j] /\ r.key = j
  BY <1>2, <1>4, <1>5 DEF Lifecycle, TableKeyed
<1>7. events[m].id <= opened
  BY <1>5, <1>6 DEF Lifecycle, TableKeyed
<1>8. ASSUME NEW o \in Outcomes, idx \in Checks
      PROVE  events[m].id # tracked[KeyOf(idx, o)].id
  <2>1. last[c] \in Outcomes
    BY DEF Lifecycle, TypeOK
  <2>2. KeyOf(idx, o) \in Keys /\ KeyOf(idx, o) # j
    BY <1>2, <1>8, <2>1, KeysApart, KeyTypes
  <2>3. tracked[KeyOf(idx, o)].id = newest[KeyOf(idx, o)]
    BY <2>2 DEF Lifecycle, MemoryFollows, Agrees
  <2>4. newest[j] # newest[KeyOf(idx, o)]
    BY <1>2, <1>4, <1>5, <2>2, IdsApart
  <2>. QED
    BY <1>5, <2>3, <2>4
<1>. QED
  BY <1>4, <1>7, <1>8

LEMMA TimelyStep ==
  ASSUME Lifecycle, OnePerResult, Timely, [Next]_vars
  PROVE  Timely'
<1>. SUFFICES ASSUME crashes' = 0
              PROVE  /\ \A i \in 1..MaxIncidents : i > opened' => told'[i] = 0
                     /\ \A i \in 1..MaxIncidents : Pending(i)' => Due(i)'
                     /\ \A k \in Keys : tracked'[k].active =>
                          tracked'[k].notified = IF (\E i \in {tracked'[k].id} : Pending(i)')
                                                 THEN Now ELSE told'[tracked'[k].id]
  BY DEF Timely, Pending
<1>1. CASE StartCycle
  <2>1. /\ crashes = 0 /\ events' = <<>> /\ pc' = "process" /\ opened' = opened
        /\ events = <<>> /\ pc = "idle"
        /\ told' = [i \in 1..MaxIncidents |-> Older(told[i])]
    BY <1>1 DEF StartCycle, OnePerResult
  <2>2. \A i : ~Pending(i)' /\ ~Pending(i)
    BY <2>1 DEF Pending
  <2>3. \A i \in 1..MaxIncidents : i > opened' => told'[i] = 0
    BY <2>1 DEF Timely, Older
  <2>4. ASSUME NEW k \in Keys, tracked'[k].active
        PROVE  tracked'[k].notified = told'[tracked'[k].id]
    <3>1. tracked'[k] = [tracked[k] EXCEPT !.first = Older(@), !.notified = Older(@), !.since = Older(@)]
      BY <1>1 DEF StartCycle
    <3>2. tracked[k] \in Entries
      BY DEF Lifecycle, TypeOK
    <3>3. /\ tracked'[k].active = tracked[k].active /\ tracked'[k].id = tracked[k].id
          /\ tracked'[k].notified = Older(tracked[k].notified)
      BY <3>1, <3>2 DEF Entries
    <3>4. tracked[k].notified = told[tracked[k].id]
      BY <2>1, <2>2, <2>4, <3>3 DEF Timely
    <3>5. tracked[k].id \in 1..MaxIncidents
      BY <2>1, <2>4, <3>2, <3>3, KeyTypes DEF Lifecycle, MemoryFollows, Entries
    <3>. QED
      BY <2>1, <3>3, <3>4, <3>5
  <2>. QED
    BY <2>2, <2>3, <2>4
<1>2. CASE Process
  <2>1. PICK o \in Outcomes, entry \in Entries, type \in Types :
          LET k == KeyOf(idx, o)
          IN /\ Processed(o, entry, type) /\ k \in Keys /\ idx \in Checks
             /\ tracked' = [tracked EXCEPT ![k] = entry]
             /\ UNCHANGED <<db, newest>>
             /\ type = "none" => pc' = "process"
             /\ type # "none" => /\ pc' = "save" /\ idx' = idx
                                 /\ KeyOf(idx', last'[idx']) = k
                                 /\ unsaved' = [type |-> type, id |-> entry.id]
    BY <1>2, ProcessedFacts
  <2>. DEFINE k == KeyOf(idx, o)
              e == tracked[k]
              news == type \in {"opened", "reminder"}
  <2>2. /\ events' = events /\ told' = told /\ crashes = 0 /\ pc = "process"
        /\ k \in Keys /\ idx \in Checks /\ e \in Entries /\ opened \in Nat
    BY <1>2, <2>1, KeyTypes DEF Process, Processed, Lifecycle, TypeOK
  <2>3. /\ tracked'[k] = entry /\ \A j \in Keys : j # k => tracked'[j] = tracked[j]
    BY <2>1, <2>2 DEF Lifecycle, TypeOK
  <2>4. \A i : Pending(i)' <=> Pending(i) \/ (news /\ i = entry.id)
    <3>1. \A i : Pending(i) <=> \E m \in 1..Len(events) : events[m].id = i /\ events[m].type # "recovered"
      BY <2>2 DEF Pending
    <3>2. CASE type = "none"
      BY <2>1, <2>2, <3>1, <3>2 DEF Pending
    <3>3. CASE type # "none"
      <4>1. pc' = "save" /\ unsaved'.type = type /\ unsaved'.id = entry.id
        BY <2>1, <3>3
      <4>2. type # "recovered" <=> news
        BY <3>3 DEF Types
      <4>. QED
        BY <2>2, <3>1, <4>1, <4>2 DEF Pending
    <3>. QED
      BY <3>2, <3>3
  <2>5. \A i : Pending(i) => i <= opened /\ i # e.id
    BY <2>2, EventIds DEF Pending
  <2>6. /\ type = "opened" => entry.id = opened + 1 /\ opened' = opened + 1
        /\ type # "opened" => entry.id = e.id /\ opened' = opened
        /\ entry.active => entry.notified = IF news THEN Now ELSE e.notified
        /\ type = "reminder" => e.notified - Now >= Cooldown /\ e.active
        /\ entry.active /\ ~news => e.active
    BY <2>1 DEF Processed, Types
  <2>7. e.active => e.notified = told[e.id]
    BY <2>2, <2>5 DEF Timely
  <2>8. \A i \in 1..MaxIncidents : i > opened' => told'[i] = 0
    BY <2>2, <2>6 DEF Timely
  <2>9. ASSUME NEW i \in 1..MaxIncidents, Pending(i)' PROVE Due(i)'
    <3>1. CASE Pending(i)
      BY <2>2, <3>1 DEF Timely, Due
    <3>2. CASE type = "opened" /\ i = entry.id
      <4>1. told[i] = 0
        BY <2>2, <2>6, <3>2 DEF Timely
      <4>. QED
        BY <2>2, <4>1 DEF Due
    <3>3. CASE type = "reminder" /\ i = entry.id
      BY <2>2, <2>6, <2>7, <3>3 DEF Due
    <3>. QED
      BY <2>4, <2>9, <3>1, <3>2, <3>3
  <2>10. ASSUME NEW j \in Keys, tracked'[j].active, NEW i, i = tracked'[j].id
         PROVE  tracked'[j].notified = IF Pending(i)' THEN Now ELSE told'[i]
    <3>1. CASE j = k
      <4>1. CASE news
        BY <2>3, <2>4, <2>6, <2>10, <3>1, <4>1
      <4>2. CASE ~news
        <5>1. entry.id = e.id /\ entry.notified = e.notified /\ e.active
          BY <2>3, <2>6, <2>10, <3>1, <4>2
        <5>2. ~Pending(i)'
          BY <2>3, <2>4, <2>5, <2>10, <3>1, <4>2, <5>1
        <5>. QED
          BY <2>2, <2>3, <2>7, <2>10, <3>1, <5>1, <5>2
      <4>. QED
        BY <4>1, <4>2
    <3>2. CASE j # k
      <4>1. tracked'[j] = tracked[j]
        BY <2>3, <3>2
      <4>2. i = newest[j] /\ i # 0 /\ newest[k] = e.id
        BY <2>2, <2>10, <4>1 DEF Lifecycle, MemoryFollows, Agrees
      <4>3. i # newest[k] /\ i <= opened
        BY <2>2, <3>2, <4>2, IdsApart
      <4>4. i \in Nat
        BY <4>2, KeyTypes DEF Lifecycle, TypeOK
      <4>5. news => i # entry.id
        BY <2>2, <2>6, <4>2, <4>3, <4>4
      <4>6. Pending(i)' <=> Pending(i)
        BY <2>4, <4>5
      <4>. QED
        BY <2>2, <2>10, <4>1, <4>6 DEF Timely
    <3>. QED
      BY <3>1, <3>2
  <2>. QED
    BY <2>8, <2>9, <2>10
<1>3. CASE Save
  <2>1. /\ UNCHANGED <<tracked, opened, told>> /\ crashes = 0 /\ pc = "save" /\ pc' = "process"
        /\ events' = Append(events, unsaved) /\ events \in Seq(EventsOf) /\ unsaved \in EventsOf
    BY <1>3 DEF Save, Lifecycle, OneUnsaved, TypeOK
  <2>2. /\ Len(events') = Len(events) + 1 /\ events'[Len(events) + 1] = unsaved
        /\ \A m \in 1..Len(events) : events'[m] = events[m]
        /\ Len(events) \in Nat
    BY <2>1
  <2>3. \A i : Pending(i)' <=> Pending(i)
    BY <2>1, <2>2 DEF Pending
  <2>. QED
    BY <2>1, <2>3 DEF Timely, Due
<1>4. CASE Send
  <2>1. /\ UNCHANGED <<tracked, opened>> /\ crashes = 0 /\ pc = "process" /\ pc' = "idle" /\ events' = <<>>
        /\ told' = [i \in 1..MaxIncidents |->
                       IF \E n \in 1..Len(events) : events[n].id = i /\ events[n].type # "recovered"
                       THEN Now ELSE told[i]]
    BY <1>4 DEF Send
  <2>2. \A i : ~Pending(i)'
    BY <2>1 DEF Pending
  <2>3. \A i \in 1..MaxIncidents : told'[i] = IF Pending(i) THEN Now ELSE told[i]
    BY <2>1 DEF Pending
  <2>4. \A i : Pending(i) => i <= opened
    BY <2>1, EventIds DEF Pending
  <2>5. \A i \in 1..MaxIncidents : i > opened' => told'[i] = 0
    <3>1. /\ opened \in Nat /\ MaxIncidents \in Nat
          /\ \A i \in 1..MaxIncidents : i > opened => told[i] = 0
      BY <2>1, KeyTypes DEF Timely, Lifecycle, TypeOK
    <3>2. SUFFICES ASSUME NEW i \in 1..MaxIncidents, i > opened
                   PROVE  told'[i] = 0
      BY <2>1
    <3>3. ~Pending(i)
      BY <2>4, <3>1, <3>2
    <3>. QED
      BY <2>3, <3>1, <3>2, <3>3
  <2>6. \A k \in Keys : tracked[k].active => tracked[k].id \in 1..MaxIncidents
    BY KeyTypes DEF Lifecycle, MemoryFollows, TypeOK, Entries
  <2>. QED
    BY <2>1, <2>2, <2>3, <2>5, <2>6 DEF Timely
<1>5. ASSUME NEW n \in 1..MaxTransit, Deliver(n)
      PROVE  /\ \A i \in 1..MaxIncidents : i > opened' => told'[i] = 0
             /\ \A i \in 1..MaxIncidents : Pending(i)' => Due(i)'
             /\ \A k \in Keys : tracked'[k].active =>
                  tracked'[k].notified = IF (\E i \in {tracked'[k].id} : Pending(i)')
                                         THEN Now ELSE told'[tracked'[k].id]
  <2>1. UNCHANGED <<tracked, opened, told, crashes, pc, unsaved, events>>
    BY <1>5 DEF Deliver, cycleVars
  <2>. QED
    BY <2>1 DEF Timely, Pending, Due
<1>6. CASE Crash
  BY <1>6, LifecycleAssumption DEF Crash, Lifecycle, TypeOK
<1>7. CASE UNCHANGED vars
  <2>1. UNCHANGED <<tracked, opened, told, crashes, pc, unsaved, events>>
    BY <1>7 DEF vars, cycleVars
  <2>. QED
    BY <2>1 DEF Timely, Pending, Due
<1>. QED
  BY <1>1, <1>2, <1>3, <1>4, <1>5, <1>6, <1>7, NextCases

(* "notification cooldown is respected", for any cooldown and any number of *)
(* incidents, until the agent restarts.                                     *)
THEOREM SpecCooldownRespected == Spec => CooldownRespected
<1>. DEFINE Inv == Lifecycle /\ OnePerResult /\ Timely
            Respected == crashes = 0 => \A i \in 1..MaxIncidents :
              told'[i] # told[i] /\ told'[i] = Now /\ told[i] # 0 => told[i] - Now >= Cooldown
<1>1. Init => Inv
  <2>1. SUFFICES ASSUME Init PROVE OnePerResult /\ Timely
    BY LifecycleInit
  <2>. QED
    BY <2>1, KeyTypes DEF Init, OnePerResult, Timely, Pending
<1>2. Inv /\ [Next]_vars => Inv'
  BY TypeStep, TableKeyedStep, MemoryFollowsStep, OneUnsavedStep, OnePerResultStep, TimelyStep
     DEF Lifecycle
<1>3. Inv /\ [Next]_vars => [Respected]_vars
  <2>1. SUFFICES ASSUME Inv, [Next]_vars, crashes = 0, NEW i \in 1..MaxIncidents,
                        told'[i] # told[i], told'[i] = Now, told[i] # 0
                 PROVE  told[i] - Now >= Cooldown
    OBVIOUS
  <2>2. CASE StartCycle
    <3>1. told'[i] = Older(told[i]) /\ told[i] \in Ages /\ Longest \in Nat
      BY <2>1, <2>2, AgeTypes DEF StartCycle, Lifecycle, TypeOK
    <3>. QED
      BY <2>1, <3>1 DEF Older, Now, Ages
  <2>3. CASE Send
    <3>1. \E n \in 1..Len(events) : events[n].id = i /\ events[n].type # "recovered"
      BY <2>1, <2>3 DEF Send
    <3>. QED
      BY <2>1, <3>1 DEF Timely, Pending, Due
  <2>4. CASE Process \/ Save \/ Crash \/ UNCHANGED vars
    BY <2>1, <2>4 DEF Process, Save, Crash, vars
  <2>5. ASSUME NEW n \in 1..MaxTransit, Deliver(n) PROVE FALSE
    BY <2>1, <2>5 DEF Deliver
  <2>. QED
    BY <2>1, <2>2, <2>3, <2>4, <2>5, NextCases
<1>. QED
  BY <1>1, <1>2, <1>3, PTL DEF Spec, CooldownRespected
================================================================================
