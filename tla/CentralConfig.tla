---------------------------- MODULE CentralConfig ----------------------------
(***************************************************************************)
(* Central configuration: administrators save the desired configuration of *)
(* an agent, the agent polls it, checks it, activates it in memory,        *)
(* persists it, announces the result and scans again if it is asked to;    *)
(* the server notes what the agent announced.                              *)
(*                                                                         *)
(* A save and the handling of an announcement are READ COMMITTED sessions  *)
(* that load the row first and write only the columns whose value differs  *)
(* from what was loaded.  An announcement is sent by OutboundDelivery,     *)
(* which may repeat and delay it.                                          *)
(*                                                                         *)
(* A configuration may name a server.  When it names another one, the      *)
(* agent talks to that one before it has announced anything: this row is   *)
(* polled and told of results again only after a restart.  The other       *)
(* server has no configuration for the agent.                              *)
(***************************************************************************)
EXTENDS Naturals

CONSTANTS Admins,        \* sessions of administrators
          Urls,          \* values of server_url that they enter
          MaxSaves,      \* bound: saves in a behaviour
          MaxFaults      \* bound: restarts, and writes and scans that fail

Servers == {"here", "elsewhere"}

ASSUME ConfigAssumption == /\ Urls \subseteq {"null", "empty"} \cup Servers
                           /\ MaxSaves \in Nat /\ MaxFaults \in Nat

VARIABLES row,           \* desired_agent_configurations of the agent
          saving,        \* per administrator: what save_configuration holds
          saves,
          clash,         \* history: a save has committed over one it had not seen
          noting,        \* what the handler of an announcement holds
          announced,     \* results the agent has sent here or queued
          astray,        \* results it announced while it talked to the other
                         \* server, which its queue may still hold
          up,            \* the agent runs
          pc,            \* poll_central_configuration: idle, fetched,
                         \* activated or scanning
          got,           \* the configuration it fetched
          active,        \* the parameters in the agent's memory
          version,       \* applied_configuration_version
          lastRescan,    \* last_rescan_request
          rescan,        \* the activation has to be followed by a scan
          base,          \* central_server.base_url
          reporter,      \* the server its CentralReporter was built for
          working,       \* working_central_configuration in SQLite
          scanned,       \* history: rescan requests whose scan is reported here
          failures, crashes

serverVars == <<row, saving, saves, clash, noting>>
linkVars == <<base, reporter>>
memVars == <<pc, got, active, version, lastRescan, rescan, linkVars>>
sentVars == <<announced, astray>>
vars == <<serverVars, sentVars, up, memVars, working, scanned, failures, crashes>>
-------------------------------------------------------------------------------
(* What the agent tells apart in a configuration: whether server_url is     *)
(* null, empty, the URL of this server or of another one, whether paths,    *)
(* signals and thresholds exist on its host, and the time of the rescan     *)
(* request.                                                                 *)
Bodies == [url : {"null", "empty"} \cup Servers, usable : BOOLEAN, rescan : 0..MaxSaves]
Default == [url |-> "null", usable |-> TRUE, rescan |-> 0]
Configurations == [version : 0..MaxSaves, body : Bodies]
Unset == [version |-> 0, body |-> Default]

Desired == [version : 0..MaxSaves, body : Bodies, applied : 0..MaxSaves,
            status : {"not_configured", "pending", "applied", "rejected"}]
NoRow == [version |-> 0, body |-> Default, applied |-> 0, status |-> "not_configured"]

Results == [version : 1..MaxSaves, status : {"applied", "rejected"}]

(* What a session of the server holds: nothing, or the row it loaded.       *)
Idle == [open |-> FALSE, from |-> NoRow, body |-> Default]
NotNoting == [from |-> NoRow, result |-> [version |-> 0, status |-> "none"]]

Init == /\ row = NoRow
        /\ saving = [a \in Admins |-> Idle]
        /\ saves = 0
        /\ clash = FALSE
        /\ noting = NotNoting
        /\ announced = {} /\ astray = {}
        /\ up = TRUE
        /\ pc = "idle"
        /\ got = Unset
        /\ active = Default
        /\ version = 0
        /\ lastRescan = 0
        /\ rescan = FALSE
        /\ base = "here" /\ reporter = "here"
        /\ working = Unset
        /\ scanned = {}
        /\ failures = 0
        /\ crashes = 0
-------------------------------------------------------------------------------
(* update_configuration replaces the body, in which the web client keeps    *)
(* the rescan time; confirm_archive and request_rescan change one field of  *)
(* the one that is stored.                                                  *)
Updated(old) == {b \in Bodies : b.rescan = old.rescan /\ b.url \in Urls}
Confirmed(old) == {[old EXCEPT !.usable = u] : u \in BOOLEAN}
Rescanned(old) == {[old EXCEPT !.rescan = saves + 1]}

Edit(a) ==
  /\ ~saving[a].open
  /\ saves < MaxSaves                                             \* bound
  /\ saves' = saves + 1
  /\ \E b \in Updated(row.body) \cup Confirmed(row.body) \cup Rescanned(row.body) :
        saving' = [saving EXCEPT ![a] = [open |-> TRUE, from |-> row, body |-> b]]
  /\ UNCHANGED <<row, clash, noting, sentVars, up, memVars, working, scanned,
                 failures, crashes>>

NextVersion_Kept(from) == IF from.version = 0 THEN 1 ELSE from.version

NextVersion(from) == from.version + 1

(* A second first save violates the primary key and stores nothing.         *)
Save(a) ==
  /\ saving[a].open
  /\ LET from == saving[a].from
         body == saving[a].body
     IN row' = IF from.version = 0 /\ row.version > 0 THEN row
               ELSE [version |-> NextVersion(from),
                     body |-> IF body = from.body THEN row.body ELSE body,
                     applied |-> row.applied,
                     status |-> IF from.status = "pending" THEN row.status
                                                           ELSE "pending"]
  /\ clash' = (clash \/ row.version # saving[a].from.version)
  /\ saving' = [saving EXCEPT ![a] = Idle]
  /\ UNCHANGED <<saves, noting, sentVars, up, memVars, working, scanned, failures,
                 crashes>>

(* agent_configuration_status loads the row and refuses what is not about   *)
(* the version it finds.                                                    *)
Note(r) ==
  /\ noting = NotNoting
  /\ r.version = row.version
  /\ noting' = [from |-> row, result |-> r]
  /\ UNCHANGED <<row, saving, saves, clash, sentVars, up, memVars, working,
                 scanned, failures, crashes>>

NoteCommit ==
  /\ noting # NotNoting
  /\ LET r == noting.result
         from == noting.from
     IN row' = [row EXCEPT
                  !.applied = IF r.status = "applied" /\ r.version # from.applied
                              THEN r.version ELSE @,
                  !.status = IF r.status # from.status THEN r.status ELSE @]
  /\ noting' = NotNoting
  /\ UNCHANGED <<saving, saves, clash, sentVars, up, memVars, working, scanned,
                 failures, crashes>>
-------------------------------------------------------------------------------
IsNew_Any(v) == v > 0

IsNew(v) == v > version

(* The agent polls and gets a version it has not applied.                   *)
Fetch ==
  /\ up /\ pc = "idle" /\ reporter = "here"
  /\ IsNew(row.version)
  /\ got' = [version |-> row.version, body |-> row.body]
  /\ pc' = "fetched"
  /\ UNCHANGED <<serverVars, sentVars, up, active, version, lastRescan, rescan,
                 linkVars, working, scanned, failures, crashes>>

(* validate_desired_agent_configuration and what follows it.  A server_url  *)
(* of null is no string and throws as well.                                 *)
Valid(b) == b.url # "null" /\ b.usable

Announce(status) ==
  LET result == {[version |-> got.version, status |-> status]}
  IN  IF reporter = "here"
        THEN announced' = announced \cup result /\ UNCHANGED astray
        ELSE astray' = astray \cup result /\ UNCHANGED announced

Reject == /\ up /\ pc = "fetched" /\ ~Valid(got.body)
          /\ Announce("rejected")
          /\ pc' = "idle"
          /\ UNCHANGED <<serverVars, up, got, active, version, lastRescan, rescan,
                         linkVars, working, scanned, failures, crashes>>

WantsRescan_Late(b) == FALSE

WantsRescan(b) == b.rescan # lastRescan

Persisted_Forgotten == working

Persisted == got

(* The URL the configuration leads to, and whether the reporter is built    *)
(* again for it.                                                            *)
BaseUrl(b) == IF b.url = "empty" THEN base ELSE b.url
ServerChanged(b) == BaseUrl(b) # base

(* Memory first, then SQLite, then the reporter.  A confirmed archive       *)
(* causes a scan as well.                                                   *)
Activate ==
  /\ up /\ pc = "fetched" /\ Valid(got.body)
  /\ active' = got.body
  /\ working' = Persisted
  /\ version' = got.version
  /\ lastRescan' = got.body.rescan
  /\ \E archive \in BOOLEAN : rescan' = (archive \/ WantsRescan(got.body))
  /\ base' = BaseUrl(got.body)
  /\ reporter' = IF ServerChanged(got.body) THEN BaseUrl(got.body) ELSE reporter
  /\ pc' = "activated"
  /\ UNCHANGED <<serverVars, sentVars, up, got, scanned, failures, crashes>>

(* The write fails when memory has changed: the version is rejected, and a  *)
(* later attempt no longer sees that the server changes.                    *)
ActivateFails ==
  /\ up /\ pc = "fetched" /\ Valid(got.body)
  /\ failures + crashes < MaxFaults
  /\ failures' = failures + 1
  /\ active' = got.body
  /\ base' = BaseUrl(got.body)
  /\ Announce("rejected")
  /\ pc' = "idle"
  /\ UNCHANGED <<serverVars, up, got, version, lastRescan, rescan, reporter, working,
                 scanned, crashes>>

AnnounceApplied ==
  /\ up /\ pc = "activated"
  /\ Announce("applied")
  /\ pc' = IF rescan THEN "scanning" ELSE "idle"
  /\ UNCHANGED <<serverVars, up, got, active, version, lastRescan, rescan, linkVars,
                 working, scanned, failures, crashes>>

Scan == /\ up /\ pc = "scanning"
        /\ scanned' = IF reporter = "here" THEN scanned \cup {got.body.rescan}
                                            ELSE scanned
        /\ pc' = "idle"
        /\ UNCHANGED <<serverVars, sentVars, up, got, active, version, lastRescan,
                       rescan, linkVars, working, failures, crashes>>

(* A scan that throws takes the applied version back.                       *)
ScanFails == /\ up /\ pc = "scanning"
             /\ failures + crashes < MaxFaults
             /\ failures' = failures + 1
             /\ Announce("rejected")
             /\ pc' = "idle"
             /\ UNCHANGED <<serverVars, up, got, active, version, lastRescan,
                            rescan, linkVars, working, scanned, crashes>>

(* The agent starts again.  A working configuration that the local one      *)
(* contradicts is ignored; one that it allows is moved into place and the   *)
(* data source it was moved from is built, which throws.  The reporter is   *)
(* the local configuration's, and sends what the queue holds to its server. *)
Restart ==
  /\ up /\ failures + crashes < MaxFaults
  /\ crashes' = crashes + 1
  /\ \E allowed \in BOOLEAN : up' = (working = Unset \/ ~allowed)
  /\ pc' = "idle"
  /\ got' = Unset
  /\ active' = Default
  /\ version' = 0
  /\ lastRescan' = 0
  /\ rescan' = FALSE
  /\ base' = "here" /\ reporter' = "here"
  /\ announced' = IF up' THEN announced \cup astray ELSE announced
  /\ astray' = IF up' THEN {} ELSE astray
  /\ UNCHANGED <<serverVars, working, scanned, failures>>
-------------------------------------------------------------------------------
AgentStep == \/ Fetch \/ Reject \/ Activate \/ ActivateFails \/ AnnounceApplied
             \/ Scan \/ ScanFails

Next == \/ \E a \in Admins : Edit(a) \/ Save(a)
        \/ (\E r \in announced : Note(r)) \/ NoteCommit
        \/ AgentStep \/ Restart

Spec == Init /\ [][Next]_vars

(* The cycle goes on, and requests that were begun are finished.            *)
FairSpec == /\ Spec
            /\ WF_vars(AgentStep)
            /\ \A a \in Admins : WF_vars(Save(a))
            /\ WF_vars(NoteCommit)
-------------------------------------------------------------------------------
(* Types of every variable.                                                 *)
TypeOK ==
  /\ row \in Desired
  /\ saving \in [Admins -> [open : BOOLEAN, from : Desired, body : Bodies]]
  /\ saves \in 0..MaxSaves /\ clash \in BOOLEAN
  /\ noting \in [from : Desired, result : Results] \cup {NotNoting}
  /\ announced \subseteq Results /\ astray \subseteq Results
  /\ up \in BOOLEAN
  /\ pc \in {"idle", "fetched", "activated", "scanning"}
  /\ got \in Configurations /\ working \in Configurations
  /\ active \in Bodies
  /\ version \in 0..MaxSaves /\ lastRescan \in 0..MaxSaves
  /\ rescan \in BOOLEAN /\ base \in Servers /\ reporter \in Servers
  /\ scanned \subseteq 0..MaxSaves
  /\ failures \in Nat /\ crashes \in Nat

(* A version the server shows as applied has been persisted by the agent,   *)
(* and the agent has not gone back behind it since, whatever restarts came  *)
(* in between, as long as no two saves overlap.                             *)
AppliedMeansPersisted ==
  /\ row.status = "applied" => row.applied > 0
  /\ ~clash => row.applied <= working.version

(* "Изменения конфигурации версионируются": what a version number names     *)
(* does not change, as long as no two saves overlap.                        *)
VersionNamesOneBody ==
  [][row'.version = row.version /\ ~clash' => row'.body = row.body]_vars

(* "Некорректная версия отклоняется, предыдущая рабочая версия              *)
(* сохраняется": what is persisted has passed the checks of the agent.      *)
WorkingIsUsable ==
  working # Unset => working.body.usable /\ working.body.url # "null"

(* Until a restart only a newer version replaces the working one, although  *)
(* overlapping saves can take the version the server shows back.            *)
OnlyNewerReplaces ==
  [][working' # working /\ crashes = 0 => working'.version > working.version]_vars

(* The agent can use the configuration; saves come to an end in any case.   *)
Settled == up /\ ~clash /\ row.version > 0 /\ row.body.usable

(* A usable configuration whose server_url is not null ends up active and   *)
(* persisted, unless an earlier one has led the agent to another server,    *)
(* from which only a restart leads back.                                    *)
GivenIsApplied ==
  <>[](Settled /\ row.body.url # "null")
    => \/ <>[](/\ active = row.body
              /\ working = [version |-> row.version, body |-> row.body])
       \/ <>[](reporter = "elsewhere" /\ version < row.version)

(* A rescan the agent was asked for is done and reported to the server that *)
(* asked, unless a scan has failed or a configuration has led the agent to  *)
(* another server.                                                          *)
RescanIsDone ==
  <>[](/\ Settled /\ row.body.url # "null" /\ row.body.rescan > 0
       /\ reporter = "here" /\ failures = 0)
    => <>(row.body.rescan \in scanned)

(* "Подтверждение пути и mapping создаёт versioned desired configuration;   *)
(* Agent повторно проверяет [...] перед включением": whatever the           *)
(* administrator confirmed ends up active.                                  *)
ConfirmedIsApplied == <>[]Settled => <>[](active = row.body)

-------------------------------------------------------------------------------
(* What the proofs rest on.  Versions count saves.                          *)
VersionsCountSaves ==
  /\ row.version <= saves
  /\ \A a \in Admins : saving[a].open => saving[a].from.version < saves

(* The agent is in the middle of a version it has not applied before, and   *)
(* remembers the persisted one until it is restarted.                       *)
PollInOrder ==
  /\ version <= working.version
  /\ crashes = 0 => version = working.version
  /\ pc # "idle" => got.version > 0
  /\ pc = "fetched" => got.version > version
  /\ pc \in {"activated", "scanning"} => got.version = working.version

(* An announcement is about a version the server had, and one of success    *)
(* about a version that was persisted.                                      *)
ResultsAgree ==
  /\ noting # NotNoting => /\ noting.result \in announced
                           /\ row.applied = noting.from.applied
  /\ \A a \in Admins : ~saving[a].open => saving[a] = Idle
  /\ ~clash =>
       /\ working.version <= row.version
       /\ pc = "fetched" => working.version <= got.version
       /\ got.version <= row.version
       /\ \A r \in announced \cup astray :
             r.status = "applied" => r.version <= working.version

(* The inductive invariant.                                                 *)
Configuring == /\ TypeOK /\ VersionsCountSaves /\ PollInOrder /\ ResultsAgree
               /\ AppliedMeansPersisted /\ WorkingIsUsable
===============================================================================
