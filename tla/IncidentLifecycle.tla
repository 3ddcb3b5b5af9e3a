-------------------------- MODULE IncidentLifecycle --------------------------
(***************************************************************************)
(* IncidentManager inside the cycle of the agent: every check result is    *)
(* processed, the event it causes is saved in the incidents table, and the *)
(* events of the cycle leave as one message.  The agent may crash between  *)
(* any two of these steps and restores the manager from the table.         *)
(*                                                                         *)
(* The transport is OutboundDelivery seen from here: a message arrives     *)
(* once, but one that is sent directly, or whose reply is late, may        *)
(* overtake those that wait in the queue.  The server upserts by incident  *)
(* id.                                                                     *)
(*                                                                         *)
(* Times are kept as ages: 0 is the default-constructed TimePoint, a + 1   *)
(* is a point a cycles ago, counted no further than the longest delay.     *)
(***************************************************************************)
EXTENDS Naturals, FiniteSets, Sequences

CONSTANTS NumChecks,      \* results of one cycle, in the order of the checks
          OpenDelay, CloseDelay, Cooldown,      \* IncidentPolicy, in cycles
          MaxIncidents,   \* bound: incidents opened in a behaviour
          MaxTransit,     \* bound: messages under way
          MaxCrashes      \* bound: restarts

ASSUME LifecycleAssumption ==
         /\ NumChecks \in Nat \ {0}
         /\ OpenDelay \in Nat /\ CloseDelay \in Nat /\ Cooldown \in Nat
         /\ MaxIncidents \in Nat /\ MaxTransit \in Nat /\ MaxCrashes \in Nat

Checks == 1..NumChecks

VARIABLES tracked,    \* IncidentManager::tracked_, per key
          db,         \* rows of the incidents table
          newest,     \* per key: id of the row saved last (ORDER BY updated_at)
          opened,     \* ids handed out
          pc,         \* in the cycle: idle, process, save or send
          idx,        \* the result it has reached
          unsaved,    \* what process() returned and is not saved yet
          events,     \* incident_events of this cycle
          transit,    \* messages on their way to the server
          server,     \* per id: what the server shows
          overtaken,  \* history: incidents whose recovery arrived before an
                      \* earlier message about them
          told,       \* history, per id: age of the last notification sent
          last,       \* per check: the outcome of its last result
          crashes

cycleVars == <<pc, idx, unsaved, events>>
serverVars == <<server, overtaken>>
vars == <<tracked, db, newest, opened, cycleVars, transit, serverVars, told, last,
          crashes>>
-------------------------------------------------------------------------------
(* A check gives its own result, ok or a problem, or the scheduler reports  *)
(* a timeout in its place.  key_for tells them apart by component and       *)
(* problem_type; a timeout is Unknown, hence always a problem.              *)
Outcomes == {"ok", "problem", "timeout"}
Keys == Checks \X {"health", "timeout"}
KeyOf(c, outcome) == <<c, IF outcome = "timeout" THEN "timeout" ELSE "health">>

Longest == CHOOSE d \in {OpenDelay, CloseDelay, Cooldown} :
             \A e \in {OpenDelay, CloseDelay, Cooldown} : e <= d
Ages == 0..(Longest + 1)
Older(age) == IF age = 0 \/ age = Longest + 1 THEN age ELSE age + 1
Now == 1

Fresh == [id |-> 0, active |-> FALSE, first |-> 0, notified |-> 0, since |-> 0]
Entries == [id : 0..MaxIncidents, active : BOOLEAN, first : Ages, notified : Ages,
            since : Ages]
Incidents == [id : 1..MaxIncidents, key : Keys, active : BOOLEAN, opened : Ages,
              seen : Ages]
Nothing == [type |-> "none", id |-> 0]
EventsOf == [type : {"opened", "reminder", "recovered"}, id : 1..MaxIncidents]

Init == /\ tracked = [k \in Keys |-> Fresh]
        /\ db = {}
        /\ newest = [k \in Keys |-> 0]
        /\ opened = 0
        /\ pc = "idle"
        /\ idx = 1
        /\ unsaved = Nothing
        /\ events = <<>>
        /\ transit = <<>>
        /\ server = [i \in 1..MaxIncidents |-> "unknown"]
        /\ overtaken = {}
        /\ told = [i \in 1..MaxIncidents |-> 0]
        /\ last = [c \in Checks |-> "ok"]
        /\ crashes = 0
-------------------------------------------------------------------------------
(* The next cycle starts one poll interval later.                           *)
StartCycle ==
  /\ pc = "idle"
  /\ Len(transit) < MaxTransit                                  \* bound
  /\ pc' = "process"
  /\ idx' = 1
  /\ tracked' = [k \in Keys |-> [tracked[k] EXCEPT !.first = Older(@),
                                     !.notified = Older(@), !.since = Older(@)]]
  /\ db' = {[r EXCEPT !.opened = Older(@), !.seen = Older(@)] : r \in db}
  /\ told' = [i \in 1..MaxIncidents |-> Older(told[i])]
  /\ UNCHANGED <<newest, opened, unsaved, events, transit, serverVars, last, crashes>>

(* The branches of process() for the entry e of a key.                      *)
FirstProblem(e) == IF e.first = 0 THEN Now ELSE e.first

Opens(e) == ~e.active /\ FirstProblem(e) - Now >= OpenDelay

Reminds_NoCooldown(e) == e.active

Reminds(e) == e.active /\ e.notified - Now >= Cooldown

RecoverySince_Restarts(e) == Now

RecoverySince(e) == IF e.since = 0 THEN Now ELSE e.since

Closes(e) == e.active /\ RecoverySince(e) - Now >= CloseDelay

NextResult == idx + 1

(* What process() does with the entry of key k, and the event it returns.   *)
Return(k, entry, type) ==
  /\ tracked' = [tracked EXCEPT ![k] = entry]
  /\ IF type = "none"
     THEN pc' = "process" /\ idx' = NextResult /\ unsaved' = Nothing
     ELSE pc' = "save" /\ idx' = idx /\ unsaved' = [type |-> type, id |-> entry.id]

Problem(k) ==
  LET e == tracked[k]
      noted == [e EXCEPT !.first = FirstProblem(e), !.since = 0]
  IN \/ /\ Opens(e)
        /\ opened < MaxIncidents                                \* bound
        /\ opened' = opened + 1
        /\ Return(k, [noted EXCEPT !.id = opened + 1, !.active = TRUE,
                                   !.notified = Now], "opened")
     \/ /\ ~Opens(e) /\ Reminds(e)
        /\ opened' = opened
        /\ Return(k, [noted EXCEPT !.notified = Now], "reminder")
     \/ /\ ~Opens(e) /\ ~Reminds(e)
        /\ opened' = opened
        /\ Return(k, noted, "none")

(* A key without an incident is erased; a closed incident keeps its entry.  *)
Good(k) ==
  LET e == tracked[k]
  IN /\ \/ /\ Closes(e)
           /\ Return(k, [e EXCEPT !.active = FALSE, !.first = 0,
                                  !.since = RecoverySince(e)], "recovered")
        \/ /\ ~Closes(e) /\ e.active
           /\ Return(k, [e EXCEPT !.since = RecoverySince(e)], "none")
        \/ /\ ~e.active
           /\ Return(k, IF e.id = 0 THEN Fresh ELSE e, "none")
     /\ opened' = opened

Process ==
  /\ pc = "process" /\ idx \in Checks
  /\ \E outcome \in Outcomes :
       /\ last' = [last EXCEPT ![idx] = outcome]
       /\ IF outcome = "ok" THEN Good(KeyOf(idx, outcome))
                            ELSE Problem(KeyOf(idx, outcome))
  /\ UNCHANGED <<db, newest, events, transit, serverVars, told, crashes>>

(* save_incident: insert or update the row of the incident of key k.        *)
Saved_OpenOnly(k, type) ==
  IF type # "opened" THEN db
  ELSE db \cup {[id |-> tracked[k].id, key |-> k, active |-> TRUE,
                 opened |-> tracked[k].first, seen |-> Now]}

Saved(k, type) ==
  IF type = "opened"
  THEN db \cup {[id |-> tracked[k].id, key |-> k, active |-> TRUE,
                 opened |-> tracked[k].first, seen |-> Now]}
  ELSE {IF r.id = tracked[k].id THEN [r EXCEPT !.active = tracked[k].active] ELSE r
          : r \in db}

Save ==
  /\ pc = "save"
  /\ LET k == KeyOf(idx, last[idx])
     IN /\ db' = Saved(k, unsaved.type)
        /\ newest' = [newest EXCEPT ![k] = unsaved.id]
  /\ events' = Append(events, unsaved)
  /\ unsaved' = Nothing
  /\ pc' = "process"
  /\ idx' = NextResult
  /\ UNCHANGED <<tracked, opened, transit, serverVars, told, last, crashes>>

(* The end of the cycle: one message with all events, if there are any.     *)
Send ==
  /\ pc = "process" /\ idx \notin Checks
  /\ transit' = IF events = <<>> THEN transit ELSE Append(transit, events)
  /\ told' = [i \in 1..MaxIncidents |->
                IF \E n \in 1..Len(events) : /\ events[n].id = i
                                             /\ events[n].type # "recovered"
                THEN Now ELSE told[i]]
  /\ events' = <<>>
  /\ pc' = "idle"
  /\ idx' = 1
  /\ UNCHANGED <<tracked, db, newest, opened, unsaved, serverVars, last, crashes>>
-------------------------------------------------------------------------------
(* persist_incidents: insert or overwrite, by incident id.                  *)
Shown_InsertOnly(i, type) ==
  IF server[i] # "unknown" THEN server[i]
  ELSE IF type = "recovered" THEN "closed" ELSE "open"

Shown(i, type) == IF type = "recovered" THEN "closed" ELSE "open"

Carries(msg, i) == \E m \in 1..Len(msg) : msg[m].id = i

Deliver(n) ==
  /\ n \in 1..Len(transit)
  /\ LET msg == transit[n]
         of(i) == {m \in 1..Len(msg) : msg[m].id = i}
     IN /\ server' = [i \in 1..MaxIncidents |->
                        IF of(i) = {} THEN server[i]
                        ELSE Shown(i, msg[CHOOSE m \in of(i) : TRUE].type)]
        /\ overtaken' = overtaken \cup
             {i \in 1..MaxIncidents :
                /\ \E m \in of(i) : msg[m].type = "recovered"
                /\ \E j \in 1..(n - 1) : Carries(transit[j], i)}
  /\ transit' = SubSeq(transit, 1, n - 1) \o SubSeq(transit, n + 1, Len(transit))
  /\ UNCHANGED <<tracked, db, newest, opened, cycleVars, told, last, crashes>>

(* The restoring constructor: the row saved last wins the key.              *)
Restored_ClosedOnly(k) == Fresh

Restored(k) ==
  IF newest[k] = 0 THEN Fresh
  ELSE LET r == CHOOSE r \in db : r.id = newest[k]
       IN [id |-> r.id, active |-> r.active,
           first |-> IF r.active THEN r.opened ELSE 0,
           notified |-> r.seen, since |-> 0]

Crash ==
  /\ crashes < MaxCrashes
  /\ crashes' = crashes + 1
  /\ tracked' = [k \in Keys |-> Restored(k)]
  /\ pc' = "idle"
  /\ idx' = 1
  /\ unsaved' = Nothing
  /\ events' = <<>>
  /\ UNCHANGED <<db, newest, opened, transit, serverVars, told, last>>
-------------------------------------------------------------------------------
CycleStep == StartCycle \/ Process \/ Save \/ Send

Next == CycleStep \/ (\E n \in 1..MaxTransit : Deliver(n)) \/ Crash

Spec == Init /\ [][Next]_vars

(* The main loop runs and messages arrive in the end.                       *)
FairSpec == Spec /\ WF_vars(CycleStep) /\ WF_vars(\E n \in 1..MaxTransit : Deliver(n))
-------------------------------------------------------------------------------
(* Types of every variable.                                                 *)
TypeOK ==
  /\ tracked \in [Keys -> Entries]
  /\ db \subseteq Incidents
  /\ newest \in [Keys -> 0..MaxIncidents]
  /\ opened \in 0..MaxIncidents
  /\ pc \in {"idle", "process", "save"}
  /\ idx \in 1..(NumChecks + 1)
  /\ unsaved \in EventsOf \cup {Nothing}
  /\ events \in Seq(EventsOf)
  /\ transit \in Seq(Seq(EventsOf))
  /\ server \in [1..MaxIncidents -> {"unknown", "open", "closed"}]
  /\ overtaken \subseteq 1..MaxIncidents
  /\ told \in [1..MaxIncidents -> Ages]
  /\ last \in [Checks -> Outcomes]
  /\ crashes \in 0..MaxCrashes

(* Every variable has its type, and however often the agent crashes, and    *)
(* wherever in the cycle, no key ever has two active incidents in the       *)
(* table: a restart continues the one that was open.                        *)
OneActivePerKey ==
  /\ TypeOK
  /\ \A r, s \in db : r.active /\ s.active /\ r.key = s.key => r = s

(* Between cycles the manager and its table agree about what is open.       *)
MemoryMatchesTable ==
  pc = "idle" =>
    \A k \in Keys : tracked[k].active <=>
                    \E r \in db : r.key = k /\ r.active /\ r.id = tracked[k].id

(* "notification cooldown is respected": two notifications about the same   *)
(* incident are at least the cooldown apart.  A restart takes the time of   *)
(* the last notification from the opening and may remind too early.         *)
CooldownRespected ==
  [][crashes = 0 => \A i \in 1..MaxIncidents :
        told'[i] # told[i] /\ told'[i] = Now /\ told[i] # 0 => told[i] - Now >= Cooldown]_vars

(* When every message has arrived the server shows what the agent knows,    *)
(* unless the agent stopped between saving an incident and sending it.  One *)
(* order of arrival, and no other, makes it wrong, and it stays wrong: a    *)
(* recovery that overtook an earlier message about its incident is undone   *)
(* by it, and the server shows a closed incident as open.                   *)
ServerShowsRecovery ==
  pc = "idle" /\ transit = <<>> /\ crashes = 0 =>
    \A r \in db :
      server[r.id] = IF r.active \/ r.id \in overtaken THEN "open" ELSE "closed"

(* "incident closes after recovery", for the incidents a check's own        *)
(* results opened: a check that is ok from some point on has none open.     *)
HealthIncidentsClose ==
  \A c \in Checks :
    <>[](last[c] = "ok") => <>[](~tracked[<<c, "health">>].active)
===============================================================================
