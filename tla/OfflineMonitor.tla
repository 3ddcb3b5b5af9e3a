---------------------------- MODULE OfflineMonitor ----------------------------
(***************************************************************************)
(* The server's detection of lost agents: the maintenance loop, which      *)
(* reads the agents, looks up the open agent_offline incident of each one  *)
(* and commits what it decided, beside the ingest requests, which load     *)
(* the row of their agent before they change it.  Both are transactions    *)
(* of READ COMMITTED sessions: each sees what was committed when it read   *)
(* and writes only the columns whose value differs from what it loaded.    *)
(*                                                                         *)
(* Time is counted in ticks since last_seen_at of each agent, no further   *)
(* than the first tick that is overdue whatever interval its row names.    *)
(***************************************************************************)
EXTENDS Naturals, FiniteSets

CONSTANTS Agents, Requests,
          Beat,            \* ticks within which a connected agent is heard
          DefaultThreshold, \* default_offline_threshold_seconds, in ticks
          MaxInterval,     \* bound: largest heartbeat interval a row may name
          Reports,         \* statuses a heartbeat may carry
          MaxFailures,     \* bound: passes that fail, requests that store nothing
          MaxChanges       \* bound: times an administrator changes an agent

Intervals == 0..MaxInterval     \* in ticks, 0 is less than one

(* Ticks of silence the server tolerates from an agent whose row names i.   *)
Tolerated(i) == IF 3 * i > DefaultThreshold THEN 3 * i ELSE DefaultThreshold

Overdue == Tolerated(MaxInterval) + 1    \* bound: ages are counted no further
Statuses == Reports \cup {"unknown", "offline"}
Says == Reports \cup {"none"}         \* a message that is no heartbeat says none

ASSUME MonitorAssumption ==
         /\ Beat \in Nat \ {0}
         /\ DefaultThreshold \in Nat
         /\ MaxInterval \in Nat
         /\ "offline" \notin Reports
         /\ MaxFailures \in Nat /\ MaxChanges \in Nat

VARIABLES age,        \* per agent: ticks since last_seen_at
          seen,       \* agents whose last_seen_at is not NULL
          status,     \* per agent: current_status
          enabled,    \* agents the administrator has enabled
          interval,   \* per agent: the heartbeat interval its row names
          open,       \* per agent: its open agent_offline incidents
          connected,  \* agents that run and reach the server
          pass,       \* the maintenance loop is inside reconcile_offline_agents
          todo,       \* agents it has loaded and not looked at
          silent,     \* those of the loaded agents that are overdue
          contacted,  \* those of the loaded agents that were ever seen
          was,        \* the current_status it has loaded
          toMark, toOpen, toClose,     \* what it will commit
          req,        \* per request: what its handler has loaded
          heard,      \* history: agents heard from since a pass found them silent
          eased,      \* history: agents whose interval was raised since then
          failures, changes

agentVars == <<age, seen, status>>
adminVars == <<enabled, interval>>
passVars == <<pass, todo, silent, contacted, was, toMark, toOpen, toClose>>
vars == <<agentVars, adminVars, open, connected, passVars, req, heard, eased,
          failures, changes>>

Free == [agent |-> "none", says |-> "none", was |-> "none"]
Handled == [agent : Agents, says : Says, was : Statuses]

Init == /\ age = [a \in Agents |-> 0]
        /\ seen = {}
        /\ status = [a \in Agents |-> "unknown"]
        /\ enabled = Agents
        /\ interval \in [Agents -> Intervals]
        /\ open = [a \in Agents |-> 0]
        /\ connected = {}
        /\ pass = FALSE
        /\ todo = {} /\ silent = {} /\ contacted = {}
        /\ was = [a \in Agents |-> "unknown"]
        /\ toMark = {} /\ toOpen = {} /\ toClose = {}
        /\ req = [r \in Requests |-> Free]
        /\ heard = {} /\ eased = {}
        /\ failures = 0
        /\ changes = 0
-------------------------------------------------------------------------------
(* Bugs the properties must notice (see the README).                        *)
IsOverdue_Never(a) == FALSE

Threshold(a) == Tolerated(interval[a])

(* heartbeat_is_overdue.                                                    *)
IsOverdue(a) == a \in seen /\ age[a] > Threshold(a)

(* reconcile_offline_agents reads the enabled agents.                       *)
StartPass ==
  /\ ~pass
  /\ pass' = TRUE
  /\ todo' = enabled
  /\ silent' = {a \in enabled : IsOverdue(a)}
  /\ contacted' = enabled \cap seen
  /\ was' = status
  /\ heard' = heard \ silent'
  /\ eased' = eased \ silent'
  /\ UNCHANGED <<agentVars, adminVars, open, connected, toMark, toOpen, toClose,
                 req, failures, changes>>

Opens_Again(a) == a \in silent

Opens(a) == a \in silent /\ open[a] = 0

Closes_WhileSilent(a) == open[a] > 0

Closes_Never(a) == FALSE

Closes(a) == a \notin silent /\ open[a] > 0 /\ a \in contacted

(* It looks up the open incident of one agent and decides.                  *)
Judge(a) ==
  /\ pass /\ a \in todo
  /\ todo' = todo \ {a}
  /\ toMark' = IF a \in silent /\ was[a] # "offline" THEN toMark \cup {a} ELSE toMark
  /\ toOpen' = IF Opens(a) THEN toOpen \cup {a} ELSE toOpen
  /\ toClose' = IF Closes(a) THEN toClose \cup {a} ELSE toClose
  /\ UNCHANGED <<agentVars, adminVars, open, connected, pass, silent, contacted,
                 was, req, heard, eased, failures, changes>>

EndPass == /\ pass' = FALSE
           /\ todo' = {} /\ silent' = {} /\ contacted' = {}
           /\ toMark' = {} /\ toOpen' = {} /\ toClose' = {}
           /\ was' = [a \in Agents |-> "unknown"]

(* One commit for all agents.                                               *)
CommitPass ==
  /\ pass /\ todo = {}
  /\ status' = [a \in Agents |-> IF a \in toMark THEN "offline" ELSE status[a]]
  /\ open' = [a \in Agents |-> IF a \in toOpen THEN open[a] + 1
                               ELSE IF a \in toClose THEN open[a] - 1
                               ELSE open[a]]
  /\ EndPass
  /\ UNCHANGED <<age, seen, adminVars, connected, req, heard, eased, failures,
                 changes>>

(* The database fails: the session is rolled back and the loop goes on.     *)
FailPass == /\ pass /\ failures < MaxFailures
            /\ failures' = failures + 1
            /\ EndPass
            /\ UNCHANGED <<agentVars, adminVars, open, connected, req, heard, eased,
                           changes>>
-------------------------------------------------------------------------------
(* A request of an enabled agent: authenticated_agent loads its row.        *)
Receive(r, a, says) ==
  /\ req[r] = Free
  /\ a \in connected /\ a \in enabled
  /\ req' = [req EXCEPT ![r] = [agent |-> a, says |-> says, was |-> status[a]]]
  /\ UNCHANGED <<agentVars, adminVars, open, connected, passVars, heard, eased,
                 failures, changes>>

(* persist_heartbeat assigns current_status; an assignment of the value     *)
(* that was loaded is not written.                                          *)
Reported(r) == IF req[r].says \in {"none", req[r].was} THEN status[req[r].agent]
                                                     ELSE req[r].says

(* ingest commits.                                                          *)
Store(r) ==
  /\ req[r] # Free
  /\ LET a == req[r].agent
     IN /\ age' = [age EXCEPT ![a] = 0]
        /\ seen' = seen \cup {a}
        /\ status' = [status EXCEPT ![a] = Reported(r)]
        /\ heard' = heard \cup {a}
  /\ req' = [req EXCEPT ![r] = Free]
  /\ UNCHANGED <<adminVars, open, connected, passVars, eased, failures, changes>>

(* A duplicate, or a request that fails, changes nothing: not even          *)
(* last_seen_at.                                                            *)
Discard(r) == /\ req[r] # Free
              /\ failures < MaxFailures
              /\ failures' = failures + 1
              /\ req' = [req EXCEPT ![r] = Free]
              /\ UNCHANGED <<agentVars, adminVars, open, connected, passVars, heard,
                             eased, changes>>
-------------------------------------------------------------------------------
(* update_agent: the administrator enables or disables an agent and gives   *)
(* its row another heartbeat interval.                                      *)
UpdateAgent(a, on, i) ==
  /\ changes < MaxChanges
  /\ changes' = changes + 1
  /\ enabled' = IF on THEN enabled \cup {a} ELSE enabled \ {a}
  /\ interval' = [interval EXCEPT ![a] = i]
  /\ eased' = IF i > interval[a] THEN eased \cup {a} ELSE eased
  /\ UNCHANGED <<agentVars, open, connected, passVars, req, heard, failures>>

(* An agent stops or loses the network, or comes back.                      *)
Connect(a) == /\ connected' = IF a \in connected THEN connected \ {a}
                                                 ELSE connected \cup {a}
              /\ UNCHANGED <<agentVars, adminVars, open, passVars, req, heard,
                             eased, failures, changes>>

(* Time passes.  A connected agent is heard within its heartbeat interval.  *)
Tick == /\ \A a \in connected \cap enabled : a \in seen /\ age[a] < Beat
        /\ age' = [a \in Agents |-> IF age[a] < Overdue THEN age[a] + 1 ELSE age[a]]
        /\ UNCHANGED <<seen, status, adminVars, open, connected, passVars, req,
                       heard, eased, failures, changes>>

MonitorStep == StartPass \/ (\E a \in Agents : Judge(a)) \/ CommitPass

StoreHeartbeat(a) == \E r \in Requests :
                       req[r].agent = a /\ req[r].says # "none" /\ Store(r)

Next == \/ MonitorStep \/ FailPass
        \/ \E r \in Requests :
             \/ \E a \in Agents, says \in Says : Receive(r, a, says)
             \/ Store(r) \/ Discard(r)
        \/ \E a \in Agents :
             \/ \E on \in BOOLEAN, i \in Intervals : UpdateAgent(a, on, i)
             \/ Connect(a)
        \/ Tick

Spec == Init /\ [][Next]_vars

(* The loop runs every 15 seconds, a connected agent sends heartbeats, a    *)
(* handler finishes, and time passes.                                       *)
Fairness == /\ WF_vars(MonitorStep)
            /\ \A a \in Agents :
                 /\ SF_vars(\E r \in Requests, says \in Reports :
                              Receive(r, a, says))
                 /\ SF_vars(StoreHeartbeat(a))
            /\ \A r \in Requests : WF_vars(Store(r))
            /\ WF_vars(Tick)

FairSpec == Spec /\ Fairness
-------------------------------------------------------------------------------
(* Types of every variable.                                                 *)
TypeOK ==
  /\ age \in [Agents -> 0..Overdue]
  /\ seen \subseteq Agents /\ enabled \subseteq Agents /\ connected \subseteq Agents
  /\ status \in [Agents -> Statuses]
  /\ open \in [Agents -> Nat]
  /\ pass \in BOOLEAN
  /\ todo \subseteq Agents /\ silent \subseteq Agents /\ contacted \subseteq Agents
  /\ was \in [Agents -> Statuses]
  /\ toMark \subseteq Agents /\ toOpen \subseteq Agents /\ toClose \subseteq Agents
  /\ req \in [Requests -> Handled \cup {Free}]
  /\ interval \in [Agents -> Intervals]
  /\ heard \subseteq Agents /\ eased \subseteq Agents
  /\ failures \in Nat /\ changes \in Nat

(* "создаёт один agent_offline incident": an agent never has two open       *)
(* offline incidents.                                                       *)
OneOpenIncident == \A a \in Agents : open[a] <= 1

(* An offline incident is closed only when its agent was heard from again   *)
(* after a pass had found it silent, or when its row was given a longer     *)
(* interval: the next pass then takes an agent nobody heard for recovered.  *)
ClosedOnlyAfterContact ==
  [][\A a \in Agents : open'[a] < open[a] => a \in heard \cup eased]_vars

(* An agent that was never heard from is not reported lost.                 *)
NoAlarmBeforeContact ==
  \A a \in Agents \ seen : open[a] = 0 /\ status[a] # "offline"

(* An agent that falls silent for good ends up with an open incident and    *)
(* the status offline.                                                      *)
LossIsReported ==
  \A a \in Agents :
    <>[](a \in enabled /\ a \in seen /\ a \notin connected)
      => <>[](open[a] = 1 /\ status[a] = "offline")

(* An agent that stays connected ends up without an offline incident and    *)
(* with the status of its heartbeats, whatever it went through before.      *)
RecoveryIsShown ==
  \A a \in Agents :
    <>[](a \in enabled /\ a \in connected)
      => <>[](open[a] = 0 /\ status[a] # "offline")
-------------------------------------------------------------------------------
(* What the proofs rest on.  A pass decides about agents it has loaded, and *)
(* nobody else changes incidents while it runs.                             *)
PassBookkeeping ==
  /\ ~pass => silent = {} /\ contacted = {} /\ toMark = {} /\ toOpen = {} /\ toClose = {}
  /\ silent \subseteq contacted /\ contacted \subseteq seen
  /\ toMark \subseteq silent
  /\ \A a \in toOpen : a \in silent /\ open[a] = 0
  /\ \A a \in toClose : a \in contacted \ silent /\ open[a] = 1

(* Silence and contact since: an agent whose incident is open is overdue    *)
(* unless it was heard from or its interval was raised.                     *)
SilenceKnown ==
  /\ \A a \in Agents \ (heard \cup eased) : open[a] > 0 => age[a] > Threshold(a)
  /\ \A a \in silent \ (heard \cup eased) : age[a] > Threshold(a)
  /\ \A a \in contacted \ silent : open[a] > 0 => a \in heard \cup eased

(* The inductive invariant.                                                 *)
Monitoring == /\ TypeOK /\ OneOpenIncident /\ NoAlarmBeforeContact
              /\ PassBookkeeping /\ SilenceKnown
===============================================================================
