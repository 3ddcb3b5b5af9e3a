------------------------ MODULE OfflineMonitorProofs ------------------------
(***************************************************************************)
(* Theorems about OfflineMonitor for any agents, requests and thresholds.  *)
(***************************************************************************)
EXTENDS OfflineMonitor, TLAPS

(* Every next-state step is one of these; the case split of the proofs.     *)
LEMMA NextCases ==
  ASSUME Next
  PROVE  \/ StartPass \/ CommitPass \/ FailPass \/ Tick
         \/ \E a \in Agents : Judge(a) \/ Connect(a)
         \/ \E a \in Agents, on \in BOOLEAN, i \in Intervals : UpdateAgent(a, on, i)
         \/ \E r \in Requests, a \in Agents, says \in Says : Receive(r, a, says)
         \/ \E r \in Requests : Store(r) \/ Discard(r)
BY DEF Next, MonitorStep

(* The numbers behind the ages.                                             *)
LEMMA Ages == /\ \A i \in Intervals : Tolerated(i) \in Nat
              /\ Overdue \in Nat /\ 0 \in 0..Overdue
              /\ \A n \in 0..Overdue : n < Overdue => n + 1 \in 0..Overdue
BY MonitorAssumption DEF Overdue, Tolerated, Intervals

(* What a request loaded: nothing, or what its fields say.                  *)
LEMMA RequestType ==
  ASSUME TypeOK, NEW r \in Requests, req[r] # Free
  PROVE  req[r].agent \in Agents /\ req[r].says \in Says /\ req[r].was \in Statuses
BY DEF TypeOK, Handled

(* What a handler stores is a status of a heartbeat or what was there.      *)
LEMMA ReportedType ==
  ASSUME TypeOK, NEW r \in Requests, req[r] # Free
  PROVE  Reported(r) \in Reports \/ Reported(r) = status[req[r].agent]
BY RequestType DEF Reported, Says

(* Steps that leave agents, incidents and the pass alone preserve all but   *)
(* the types.                                                               *)
LEMMA SamePass ==
  ASSUME Monitoring, UNCHANGED <<agentVars, interval, open, passVars, heard, eased>>
  PROVE  (OneOpenIncident /\ NoAlarmBeforeContact /\ PassBookkeeping /\ SilenceKnown)'
BY DEF Monitoring, OneOpenIncident, NoAlarmBeforeContact, PassBookkeeping,
       SilenceKnown, Threshold, agentVars, passVars

-----------------------------------------------------------------------------
(* The invariant holds when the server starts.                              *)
LEMMA MonitoringInit == Init => Monitoring
<1>. SUFFICES ASSUME Init PROVE Monitoring
  OBVIOUS
<1>1. TypeOK
  BY Ages DEF Init, TypeOK, Statuses
<1>2. OneOpenIncident /\ NoAlarmBeforeContact
  BY DEF Init, OneOpenIncident, NoAlarmBeforeContact
<1>3. PassBookkeeping /\ SilenceKnown
  BY DEF Init, PassBookkeeping, SilenceKnown
<1>. QED
  BY <1>1, <1>2, <1>3 DEF Monitoring

(* The types hold after every step.                                         *)
LEMMA TypeStep == Monitoring /\ [Next]_vars => TypeOK'
<1>. SUFFICES ASSUME Monitoring, [Next]_vars PROVE TypeOK'
  OBVIOUS
<1>. USE DEF Monitoring, TypeOK, agentVars, adminVars, passVars
<1>1. CASE StartPass
  BY <1>1 DEF StartPass
<1>2. CASE CommitPass
  <2>1. status' \in [Agents -> Statuses]
    BY <1>2 DEF CommitPass, Statuses
  <2>2. open' \in [Agents -> Nat]
    BY <1>2 DEF CommitPass, PassBookkeeping
  <2>3. was' \in [Agents -> Statuses]
    BY <1>2 DEF CommitPass, EndPass, Statuses
  <2>. QED
    BY <1>2, <2>1, <2>2, <2>3 DEF CommitPass, EndPass
<1>3. CASE FailPass
  <2>1. was' \in [Agents -> Statuses]
    BY <1>3 DEF FailPass, EndPass, Statuses
  <2>2. failures' \in Nat
    BY <1>3 DEF FailPass
  <2>3. UNCHANGED <<age, seen, status, adminVars, open, connected, req, heard, eased,
                   changes>>
    BY <1>3 DEF FailPass
  <2>4. pass' = FALSE /\ todo' = {} /\ silent' = {} /\ contacted' = {}
    BY <1>3 DEF FailPass, EndPass
  <2>5. toMark' = {} /\ toOpen' = {} /\ toClose' = {}
    BY <1>3 DEF FailPass, EndPass
  <2>. QED
    BY <2>1, <2>2, <2>3, <2>4, <2>5
<1>4. CASE Tick
  <2>1. age' \in [Agents -> 0..Overdue]
    BY <1>4, Ages DEF Tick
  <2>. QED
    BY <1>4, <2>1 DEF Tick
<1>5. CASE \E a \in Agents : Judge(a) \/ Connect(a)
  BY <1>5 DEF Judge, Connect
<1>6. ASSUME NEW a \in Agents, NEW on \in BOOLEAN, NEW i \in Intervals,
             UpdateAgent(a, on, i)
      PROVE  TypeOK'
  BY <1>6 DEF UpdateAgent
<1>7. ASSUME NEW r \in Requests, NEW a \in Agents, NEW says \in Says,
             Receive(r, a, says)
      PROVE  TypeOK'
  <2>1. [agent |-> a, says |-> says, was |-> status[a]] \in Handled
    BY DEF Handled
  <2>. QED
    BY <1>7, <2>1 DEF Receive
<1>8. ASSUME NEW r \in Requests, Store(r)
      PROVE  TypeOK'
  <2>1. req[r].agent \in Agents /\ Reported(r) \in Statuses
    BY <1>8, RequestType, ReportedType DEF Store, Statuses
  <2>2. age' \in [Agents -> 0..Overdue] /\ status' \in [Agents -> Statuses]
    BY <1>8, <2>1, Ages DEF Store
  <2>. QED
    BY <1>8, <2>1, <2>2 DEF Store
<1>9. CASE \E r \in Requests : Discard(r)
  BY <1>9 DEF Discard
<1>10. CASE UNCHANGED vars
  BY <1>10 DEF vars
<1>. QED
  BY <1>1, <1>2, <1>3, <1>4, <1>5, <1>6, <1>7, <1>8, <1>9, <1>10,
     NextCases

(* What the monitor knows stays true after every step.                      *)
LEMMA KnowledgeStep ==
  Monitoring /\ [Next]_vars
    => (OneOpenIncident /\ NoAlarmBeforeContact /\ PassBookkeeping /\ SilenceKnown)'
<1>. SUFFICES ASSUME Monitoring, [Next]_vars
              PROVE  (OneOpenIncident /\ NoAlarmBeforeContact
                        /\ PassBookkeeping /\ SilenceKnown)'
  OBVIOUS
<1>. USE DEF Monitoring
<1>1. CASE StartPass
  (* An agent the pass finds silent is overdue; one it finds well and whose *)
  (* incident is open has been heard from.                                  *)
  <2>1. /\ pass' /\ silent' \subseteq contacted' /\ contacted' \subseteq seen'
        /\ toMark' = {} /\ toOpen' = {} /\ toClose' = {}
    BY <1>1 DEF StartPass, PassBookkeeping, IsOverdue, agentVars
  <2>2. \A a \in silent' : age'[a] > Threshold(a)'
    BY <1>1 DEF StartPass, IsOverdue, Threshold, agentVars, adminVars
  <2>3. \A a \in Agents \ (heard \cup eased)' : open'[a] > 0 => age'[a] > Threshold(a)'
    BY <1>1, <2>2 DEF StartPass, SilenceKnown, Threshold, agentVars, adminVars
  <2>4. \A a \in contacted' \ silent' : open'[a] > 0 => a \in (heard \cup eased)'
    BY <1>1 DEF StartPass, SilenceKnown, IsOverdue, Threshold, TypeOK, agentVars,
                adminVars
  <2>5. (OneOpenIncident /\ NoAlarmBeforeContact)'
    BY <1>1 DEF StartPass, OneOpenIncident, NoAlarmBeforeContact, agentVars
  <2>. QED
    BY <2>1, <2>2, <2>3, <2>4, <2>5 DEF PassBookkeeping, SilenceKnown
<1>2. ASSUME NEW a \in Agents, Judge(a)
      PROVE  (OneOpenIncident /\ NoAlarmBeforeContact /\ PassBookkeeping
                /\ SilenceKnown)'
  <2>1. UNCHANGED <<agentVars, interval, open, pass, silent, contacted, heard, eased>>
    BY <1>2 DEF Judge, adminVars
  <2>2. toMark' \subseteq silent
    BY <1>2 DEF Judge, PassBookkeeping
  <2>3. \A b \in toOpen' : b \in silent /\ open[b] = 0
    BY <1>2 DEF Judge, Opens, PassBookkeeping
  <2>4. \A b \in toClose' : b \in contacted \ silent /\ open[b] = 1
    BY <1>2 DEF Judge, Closes, PassBookkeeping, OneOpenIncident, TypeOK
  <2>5. PassBookkeeping'
    BY <1>2, <2>1, <2>2, <2>3, <2>4 DEF PassBookkeeping, agentVars, Judge
  <2>. QED
    BY <2>1, <2>5 DEF OneOpenIncident, NoAlarmBeforeContact, SilenceKnown, Threshold,
                      agentVars
<1>3. CASE CommitPass
  (* Only silent agents get an incident, and they are overdue or were heard *)
  (* from since.                                                            *)
  <2>1. \A a \in Agents : open'[a] <= 1 /\ open'[a] \in Nat
    BY <1>3 DEF CommitPass, PassBookkeeping, OneOpenIncident, TypeOK
  <2>2. \A a \in Agents : open'[a] > 0 => open[a] > 0 \/ a \in silent
    BY <1>3 DEF CommitPass, PassBookkeeping, TypeOK
  <2>3. \A a \in Agents \ seen' : open'[a] = 0 /\ status'[a] # "offline"
    BY <1>3 DEF CommitPass, PassBookkeeping, NoAlarmBeforeContact
  <2>4. PassBookkeeping'
    BY <1>3 DEF CommitPass, EndPass, PassBookkeeping
  <2>5. SilenceKnown'
    BY <1>3, <2>2 DEF CommitPass, EndPass, SilenceKnown, PassBookkeeping, Threshold,
                      adminVars
  <2>. QED
    BY <2>1, <2>3, <2>4, <2>5 DEF OneOpenIncident, NoAlarmBeforeContact
<1>4. CASE FailPass
  BY <1>4 DEF FailPass, EndPass, OneOpenIncident, NoAlarmBeforeContact,
              PassBookkeeping, SilenceKnown, Threshold, agentVars, adminVars
<1>5. CASE Tick
  <2>1. \A a \in Agents : age[a] > Threshold(a) => age'[a] > Threshold(a)'
    BY <1>5, Ages DEF Tick, Threshold, adminVars, TypeOK
  <2>2. SilenceKnown'
    BY <1>5, <2>1 DEF Tick, SilenceKnown, PassBookkeeping, TypeOK, passVars
  <2>. QED
    BY <1>5, <2>2 DEF Tick, OneOpenIncident, NoAlarmBeforeContact, PassBookkeeping,
                      passVars
<1>6. ASSUME NEW r \in Requests, Store(r)
      PROVE  (OneOpenIncident /\ NoAlarmBeforeContact /\ PassBookkeeping
                /\ SilenceKnown)'
  (* The agent of the request is seen and heard; nothing changes for the    *)
  (* others.                                                                *)
  <2>. DEFINE a == req[r].agent
  <2>1. a \in Agents
    BY <1>6, RequestType DEF Store
  <2>2. /\ seen' = seen \cup {a} /\ heard' = heard \cup {a}
        /\ UNCHANGED <<interval, eased, open, pass, silent, contacted, toMark, toOpen,
                       toClose>>
    BY <1>6 DEF Store, passVars, adminVars
  <2>3. \A b \in Agents \ {a} : age'[b] = age[b] /\ status'[b] = status[b]
    BY <1>6 DEF Store, TypeOK
  <2>4. SilenceKnown'
    BY <2>2, <2>3 DEF SilenceKnown, PassBookkeeping, Threshold, TypeOK
  <2>5. PassBookkeeping'
    BY <2>2 DEF PassBookkeeping
  <2>. QED
    BY <2>2, <2>3, <2>4, <2>5 DEF OneOpenIncident, NoAlarmBeforeContact
<1>7. ASSUME NEW a \in Agents, NEW on \in BOOLEAN, NEW i \in Intervals,
             UpdateAgent(a, on, i)
      PROVE  (OneOpenIncident /\ NoAlarmBeforeContact /\ PassBookkeeping
                /\ SilenceKnown)'
  (* A longer interval eases the agent; a shorter one tolerates less.       *)
  <2>1. UNCHANGED <<agentVars, open, passVars, heard>> /\ eased \subseteq eased'
    BY <1>7 DEF UpdateAgent
  <2>2. \A b \in Agents \ eased', n \in Nat : n > Threshold(b) => n > Threshold(b)'
    <3>. TAKE b \in Agents \ eased', n \in Nat
    <3>1. interval[b] \in Intervals /\ interval'[b] \in Intervals
      BY <1>7 DEF UpdateAgent, TypeOK
    <3>2. interval'[b] <= interval[b]
      BY <1>7, <3>1, MonitorAssumption DEF UpdateAgent, TypeOK, Intervals
    <3>. QED
      BY <3>1, <3>2, MonitorAssumption DEF Threshold, Tolerated, Intervals
  <2>3. \A b \in Agents : age[b] \in Nat
    BY Ages DEF TypeOK
  <2>4. SilenceKnown'
    BY <2>1, <2>2, <2>3 DEF SilenceKnown, PassBookkeeping, TypeOK, agentVars, passVars
  <2>. QED
    BY <2>1, <2>4 DEF OneOpenIncident, NoAlarmBeforeContact, PassBookkeeping,
                      agentVars, passVars
<1>8. CASE \E r \in Requests, a \in Agents, says \in Says : Receive(r, a, says)
  BY <1>8, SamePass DEF Receive, adminVars
<1>9. CASE \E r \in Requests : Discard(r)
  BY <1>9, SamePass DEF Discard, adminVars
<1>10. CASE \E a \in Agents : Connect(a)
  BY <1>10, SamePass DEF Connect, adminVars
<1>11. CASE UNCHANGED vars
  BY <1>11, SamePass DEF vars, adminVars
<1>. QED
  BY <1>1, <1>2, <1>3, <1>4, <1>5, <1>6, <1>7, <1>8, <1>9, <1>10, <1>11,
     NextCases

(* Whatever requests and administrators do while a pass runs, what the pass *)
(* knows about incidents and silence is true in every state.                *)
THEOREM SpecMonitoring == Spec => []Monitoring
<1>1. Monitoring /\ [Next]_vars => Monitoring'
  BY TypeStep, KnowledgeStep DEF Monitoring
<1>. QED
  BY MonitoringInit, <1>1, PTL DEF Spec

(* Every variable has its type in every reachable state: no request stores  *)
(* a status that is none.                                                   *)
THEOREM SpecTypeOK == Spec => []TypeOK
<1>1. Monitoring => TypeOK
  BY DEF Monitoring
<1>. QED
  BY SpecMonitoring, <1>1, PTL

(* reconcile_offline_agents never opens a second incident for an agent,     *)
(* for any number of agents and requests.                                   *)
THEOREM SpecOneOpenIncident == Spec => []OneOpenIncident
<1>1. Monitoring => OneOpenIncident
  BY DEF Monitoring
<1>. QED
  BY SpecMonitoring, <1>1, PTL

(* An agent that never reported is neither offline nor the subject of an    *)
(* incident.                                                                *)
THEOREM SpecNoAlarmBeforeContact == Spec => []NoAlarmBeforeContact
<1>1. Monitoring => NoAlarmBeforeContact
  BY DEF Monitoring
<1>. QED
  BY SpecMonitoring, <1>1, PTL

(* reconcile_offline_agents closes an incident only for an agent that was   *)
(* heard from after a pass had found it silent, or whose row was given a    *)
(* longer heartbeat interval since.                                         *)
THEOREM SpecClosedOnlyAfterContact == Spec => ClosedOnlyAfterContact
<1>. DEFINE Closing == \A a \in Agents : open'[a] < open[a] => a \in heard \cup eased
<1>1. Monitoring /\ [Next]_vars => [Closing]_vars
  <2>. SUFFICES ASSUME Monitoring, Next, NEW a \in Agents, open'[a] < open[a]
                PROVE  a \in heard \cup eased
    BY DEF Closing
  <2>1. open[a] \in Nat
    BY DEF Monitoring, TypeOK
  <2>2. open' # open
    BY <2>1
  <2>3. CommitPass
    BY <2>2, NextCases DEF StartPass, FailPass, Tick, Judge, UpdateAgent, Connect,
                           Receive, Store, Discard
  <2>4. a \in toClose
    BY <2>1, <2>3 DEF CommitPass, Monitoring, TypeOK
  <2>5. a \in contacted \ silent /\ open[a] > 0
    BY <2>4 DEF Monitoring, PassBookkeeping
  <2>. QED
    BY <2>5 DEF Monitoring, SilenceKnown
<1>. QED
  BY SpecMonitoring, <1>1, PTL DEF Spec, ClosedOnlyAfterContact
===============================================================================
