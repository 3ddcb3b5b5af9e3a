------------------------- MODULE CentralConfigProofs -------------------------
(***************************************************************************)
(* Theorems about CentralConfig for any number of administrators, saves    *)
(* and faults.                                                             *)
(***************************************************************************)
EXTENDS CentralConfig, TLAPS

(* Every next-state step is one of these; the case split of the proofs.     *)
LEMMA NextCases ==
  ASSUME Next
  PROVE  \/ \E a \in Admins : Edit(a) \/ Save(a)
         \/ \E r \in announced : Note(r)
         \/ NoteCommit \/ Fetch \/ Reject \/ Activate \/ ActivateFails
         \/ AnnounceApplied \/ Scan \/ ScanFails \/ Restart
BY DEF Next, AgentStep

(* An announcement is sent to this server or to the other one.              *)
LEMMA AnnouncedWhere ==
  ASSUME NEW s, Announce(s)
  PROVE  \/ /\ announced' = announced \cup {[version |-> got.version, status |-> s]}
            /\ astray' = astray
         \/ /\ astray' = astray \cup {[version |-> got.version, status |-> s]}
            /\ announced' = announced
<1>1. CASE reporter = "here"
  BY <1>1 DEF Announce
<1>2. CASE reporter # "here"
  BY <1>2 DEF Announce
<1>. QED
  BY <1>1, <1>2

(* What the agent starts with has the types of what it works with.          *)
LEMMA InitialTypes ==
  /\ Default \in Bodies /\ Unset \in Configurations /\ NoRow \in Desired
  /\ Idle \in [open : BOOLEAN, from : Desired, body : Bodies]
  /\ 0 \in 0..MaxSaves /\ MaxSaves \in Nat /\ MaxFaults \in Nat
<1>1. MaxSaves \in Nat /\ MaxFaults \in Nat /\ 0 \in 0..MaxSaves
  BY ConfigAssumption
<1>2. Default \in Bodies
  BY <1>1 DEF Default, Bodies
<1>3. Unset \in Configurations
  BY <1>1, <1>2 DEF Unset, Configurations
<1>4. NoRow \in Desired
  BY <1>1, <1>2 DEF NoRow, Desired
<1>5. Idle \in [open : BOOLEAN, from : Desired, body : Bodies]
  BY <1>2, <1>4 DEF Idle
<1>. QED
  BY <1>1, <1>2, <1>3, <1>4, <1>5

(* The bodies an administrator may save.                                    *)
LEMMA EditedType ==
  ASSUME NEW old \in Bodies, saves < MaxSaves, saves \in Nat,
         NEW b \in Updated(old) \cup Confirmed(old) \cup Rescanned(old)
  PROVE  b \in Bodies
<1>1. saves + 1 \in 0..MaxSaves
  BY InitialTypes
<1>2. \A u \in BOOLEAN : [old EXCEPT !.usable = u] \in Bodies
  BY DEF Bodies
<1>3. [old EXCEPT !.rescan = saves + 1] \in Bodies
  BY <1>1 DEF Bodies
<1>. QED
  BY <1>2, <1>3 DEF Updated, Confirmed, Rescanned

(* The agent always knows a server it has been told of.                     *)
LEMMA NamedServer ==
  ASSUME NEW b \in Bodies, Valid(b), base \in Servers
  PROVE  BaseUrl(b) \in Servers
BY DEF Bodies, Valid, BaseUrl

(* What the agent announces about the version it has fetched.               *)
LEMMA ResultType ==
  ASSUME TypeOK, got.version > 0, NEW s \in {"applied", "rejected"}
  PROVE  [version |-> got.version, status |-> s] \in Results
BY InitialTypes DEF TypeOK, Configurations, Results

(* The row a save leaves behind.                                            *)
LEMMA SavedRow ==
  ASSUME Configuring, NEW a \in Admins, Save(a)
  PROVE  /\ row' \in Desired
         /\ row'.version <= saves
         /\ row'.applied = row.applied
         /\ row'.status = "applied" => row.status = "applied"
         /\ ~clash' => row'.version = row.version + 1
         /\ ~clash' => ~clash
<1>. DEFINE from == saving[a].from
            body == saving[a].body
            new == [version |-> NextVersion(from),
                    body |-> IF body = from.body THEN row.body ELSE body,
                    applied |-> row.applied,
                    status |-> IF from.status = "pending" THEN row.status
                                                          ELSE "pending"]
<1>1. /\ saving[a].open /\ from \in Desired /\ body \in Bodies /\ row \in Desired
      /\ from.version \in Nat /\ row.version \in Nat /\ saves \in 0..MaxSaves
      /\ from.version < saves /\ row.version <= saves /\ clash \in BOOLEAN
  BY InitialTypes DEF Save, Configuring, TypeOK, VersionsCountSaves, Desired
<1>2. /\ row' = IF from.version = 0 /\ row.version > 0 THEN row ELSE new
      /\ clash' = (clash \/ row.version # from.version)
  BY DEF Save
<1>3. NextVersion(from) = from.version + 1 /\ NextVersion(from) \in 0..MaxSaves
  BY <1>1, InitialTypes DEF NextVersion
<1>4. row.body \in Bodies /\ row.applied \in 0..MaxSaves
  BY <1>1 DEF Desired
<1>5. new \in Desired
  BY <1>1, <1>3, <1>4 DEF Desired
<1>6. /\ new.version = from.version + 1 /\ new.applied = row.applied
      /\ new.status = "applied" => row.status = "applied"
  BY <1>3
<1>. HIDE DEF new, from, body
<1>7. CASE from.version = 0 /\ row.version > 0
  <2>1. row' = row
    BY <1>2, <1>7
  <2>2. row.version # from.version
    BY <1>1, <1>7
  <2>3. clash'
    BY <1>2, <2>2
  <2>. QED
    BY <1>1, <2>1, <2>3
<1>8. CASE ~(from.version = 0 /\ row.version > 0)
  <2>1. row' = new
    BY <1>2, <1>8
  <2>2. ~clash' => ~clash /\ row.version = from.version
    BY <1>1, <1>2
  <2>. QED
    BY <1>1, <1>5, <1>6, <2>1, <2>2
<1>. QED
  BY <1>7, <1>8

-----------------------------------------------------------------------------
(* The invariant holds before anything was configured.                      *)
LEMMA ConfiguringInit == Init => Configuring
<1>. SUFFICES ASSUME Init PROVE Configuring
  OBVIOUS
<1>1. TypeOK
  BY InitialTypes DEF Init, TypeOK, Servers
<1>2. VersionsCountSaves /\ AppliedMeansPersisted /\ WorkingIsUsable
  BY DEF Init, VersionsCountSaves, AppliedMeansPersisted, WorkingIsUsable, NoRow,
         Idle, Unset
<1>3. PollInOrder /\ ResultsAgree
  BY DEF Init, PollInOrder, ResultsAgree, NoRow, Idle, Unset
<1>. QED
  BY <1>1, <1>2, <1>3 DEF Configuring

(* The types hold after every step.                                         *)
LEMMA TypeStep == Configuring /\ [Next]_vars => TypeOK'
<1>. SUFFICES ASSUME Configuring, [Next]_vars PROVE TypeOK'
  OBVIOUS
<1>. USE DEF TypeOK, serverVars, sentVars, memVars, linkVars
<1>0. TypeOK
  BY DEF Configuring
<1>1. ASSUME NEW a \in Admins, Edit(a)
      PROVE  TypeOK'
  <2>1. PICK b \in Updated(row.body) \cup Confirmed(row.body) \cup Rescanned(row.body) :
           saving' = [saving EXCEPT ![a] = [open |-> TRUE, from |-> row, body |-> b]]
    BY <1>1 DEF Edit
  <2>2. b \in Bodies
    BY <1>0, <1>1, EditedType, InitialTypes DEF Edit, Desired
  <2>3. [open |-> TRUE, from |-> row, body |-> b]
           \in [open : BOOLEAN, from : Desired, body : Bodies]
    BY <1>0, <2>2
  <2>4. saving' \in [Admins -> [open : BOOLEAN, from : Desired, body : Bodies]]
    BY <1>0, <2>1, <2>3
  <2>5. saves' \in 0..MaxSaves
    BY <1>0, <1>1, InitialTypes DEF Edit
  <2>. QED
    BY <1>0, <1>1, <2>4, <2>5 DEF Edit
<1>2. ASSUME NEW a \in Admins, Save(a)
      PROVE  TypeOK'
  <2>1. saving' \in [Admins -> [open : BOOLEAN, from : Desired, body : Bodies]]
    BY <1>0, <1>2, InitialTypes DEF Save
  <2>2. clash' \in BOOLEAN
    BY <1>0, <1>2 DEF Save
  <2>. QED
    BY <1>0, <1>2, <2>1, <2>2, SavedRow DEF Save
<1>3. ASSUME NEW r \in announced, Note(r)
      PROVE  TypeOK'
  <2>1. noting' \in [from : Desired, result : Results]
    BY <1>0, <1>3 DEF Note
  <2>. QED
    BY <1>0, <1>3, <2>1 DEF Note
<1>4. CASE NoteCommit
  <2>1. noting.from \in Desired /\ noting.result \in Results
    BY <1>0, <1>4 DEF NoteCommit
  <2>2. noting.result.version \in 0..MaxSaves /\ noting.result.status \in {"applied", "rejected"}
    BY <2>1, InitialTypes DEF Results
  <2>3. PICK v \in 0..MaxSaves, s \in {"pending", "applied", "rejected", row.status} :
           row' = [row EXCEPT !.applied = v, !.status = s]
    <3>1. row.applied \in 0..MaxSaves
      BY <1>0 DEF Desired
    <3>. QED
      BY <1>4, <2>2, <3>1 DEF NoteCommit
  <2>4. row' \in Desired
    BY <1>0, <2>3 DEF Desired
  <2>. QED
    BY <1>0, <1>4, <2>4 DEF NoteCommit
<1>5. CASE Fetch
  BY <1>0, <1>5 DEF Fetch, Configurations, Desired
<1>6. CASE Reject \/ ActivateFails \/ AnnounceApplied \/ ScanFails
  <2>1. announced' \subseteq Results /\ astray' \subseteq Results
    <3>1. PICK s \in {"applied", "rejected"} : Announce(s)
      BY <1>6 DEF Reject, ActivateFails, AnnounceApplied, ScanFails
    <3>2. got.version > 0
      BY <1>6 DEF Reject, ActivateFails, AnnounceApplied, ScanFails, Configuring,
                  PollInOrder
    <3>3. [version |-> got.version, status |-> s] \in Results
      BY <1>0, <3>2, ResultType
    <3>. QED
      BY <1>0, <3>1, <3>3, AnnouncedWhere
  <2>2. got.body \in Bodies
    BY <1>0 DEF Configurations
  <2>3. CASE Reject
    BY <1>0, <2>1, <2>3 DEF Reject
  <2>4. CASE ActivateFails
    <3>1. base' \in Servers
      BY <1>0, <2>2, <2>4, NamedServer DEF ActivateFails
    <3>. QED
      BY <1>0, <2>1, <2>2, <2>4, <3>1 DEF ActivateFails
  <2>5. CASE AnnounceApplied
    BY <1>0, <2>1, <2>5 DEF AnnounceApplied
  <2>6. CASE ScanFails
    BY <1>0, <2>1, <2>6 DEF ScanFails
  <2>. QED
    BY <1>6, <2>3, <2>4, <2>5, <2>6
<1>7. CASE Activate
  <2>1. got.body \in Bodies /\ got.version \in 0..MaxSaves
        /\ got.body.rescan \in 0..MaxSaves
    BY <1>0 DEF Configurations, Bodies
  <2>2. rescan' \in BOOLEAN
    BY <1>7 DEF Activate, WantsRescan
  <2>3. base' \in Servers /\ reporter' \in Servers
    BY <1>0, <1>7, <2>1, NamedServer DEF Activate
  <2>. QED
    BY <1>0, <1>7, <2>1, <2>2, <2>3 DEF Activate, Persisted
<1>8. CASE Scan
  <2>1. got.body.rescan \in 0..MaxSaves
    BY <1>0 DEF Configurations, Bodies
  <2>. QED
    BY <1>0, <1>8, <2>1 DEF Scan
<1>9. CASE Restart
  <2>1. up' \in BOOLEAN
    BY <1>9 DEF Restart
  <2>2. crashes' \in Nat
    BY <1>0, <1>9 DEF Restart
  <2>3. got' \in Configurations /\ active' \in Bodies /\ version' \in 0..MaxSaves
        /\ lastRescan' \in 0..MaxSaves /\ rescan' \in BOOLEAN /\ pc' = "idle"
    BY <1>9, InitialTypes DEF Restart
  <2>4. /\ base' \in Servers /\ reporter' \in Servers
        /\ announced' \subseteq Results /\ astray' \subseteq Results
    BY <1>0, <1>9 DEF Restart, Servers
  <2>. QED
    BY <1>0, <1>9, <2>1, <2>2, <2>3, <2>4 DEF Restart
<1>10. CASE UNCHANGED vars
  BY <1>0, <1>10 DEF vars
<1>. QED
  BY <1>1, <1>2, <1>3, <1>4, <1>5, <1>6, <1>7, <1>8, <1>9, <1>10, NextCases

(* Versions, polls and announcements agree after every step.                *)
LEMMA AgreementStep ==
  Configuring /\ [Next]_vars
    => (VersionsCountSaves /\ PollInOrder /\ ResultsAgree
          /\ AppliedMeansPersisted /\ WorkingIsUsable)'
<1>. DEFINE Agreement == /\ VersionsCountSaves /\ PollInOrder /\ ResultsAgree
                         /\ AppliedMeansPersisted /\ WorkingIsUsable
<1>. SUFFICES ASSUME Configuring, [Next]_vars PROVE Agreement'
  OBVIOUS
<1>. USE DEF VersionsCountSaves, PollInOrder, ResultsAgree, AppliedMeansPersisted,
             WorkingIsUsable, serverVars, sentVars, memVars, linkVars
<1>0. /\ TypeOK /\ Agreement
      /\ row.version \in Nat /\ got.version \in Nat /\ working.version \in Nat
      /\ row.applied \in Nat /\ version \in Nat /\ saves \in Nat
  BY InitialTypes DEF Configuring, TypeOK, Desired, Configurations
<1>1. ASSUME NEW a \in Admins, Edit(a)
      PROVE  Agreement'
  <2>1. PICK b : saving' = [saving EXCEPT ![a] = [open |-> TRUE, from |-> row,
                                                 body |-> b]]
    BY <1>1 DEF Edit
  <2>2. \A c \in Admins : saving'[c] = IF c = a
                             THEN [open |-> TRUE, from |-> row, body |-> b]
                             ELSE saving[c]
    BY <1>0, <2>1 DEF TypeOK
  <2>3. \A c \in Admins : saving'[c].open => saving'[c].from.version < saves'
    <3>1. \A c \in Admins : saving[c].from.version \in Nat
      BY <1>0, InitialTypes DEF TypeOK, Desired
    <3>. QED
      BY <1>0, <1>1, <2>2, <3>1 DEF Edit
  <2>4. \A c \in Admins : ~saving'[c].open => saving'[c] = Idle
    BY <1>0, <2>2
  <2>. QED
    BY <1>0, <1>1, <2>3, <2>4 DEF Edit
<1>2. ASSUME NEW a \in Admins, Save(a)
      PROVE  Agreement'
  <2>1. /\ row'.version <= saves /\ row'.applied = row.applied
        /\ row'.status = "applied" => row.status = "applied"
        /\ ~clash' => row'.version = row.version + 1
        /\ ~clash' => ~clash
    BY <1>2, SavedRow
  <2>2. \A c \in Admins : saving'[c] = IF c = a THEN Idle ELSE saving[c]
    BY <1>0, <1>2 DEF Save, TypeOK
  <2>3. \A c \in Admins : /\ saving'[c].open => saving'[c].from.version < saves
                          /\ ~saving'[c].open => saving'[c] = Idle
    <3>1. ~Idle.open
      BY DEF Idle
    <3>. QED
      BY <1>0, <2>2, <3>1
  <2>. QED
    BY <1>0, <1>2, <2>1, <2>3 DEF Save
<1>3. ASSUME NEW r \in announced, Note(r)
      PROVE  Agreement'
  BY <1>0, <1>3 DEF Note
<1>4. CASE NoteCommit
  <2>. DEFINE r == noting.result
  <2>1. /\ r \in announced /\ r.version > 0 /\ row.applied = noting.from.applied
        /\ noting' = NotNoting
    BY <1>0, <1>4, InitialTypes DEF NoteCommit, TypeOK, Results
  <2>2. /\ row'.version = row.version
        /\ row'.applied = IF r.status = "applied" THEN r.version ELSE row.applied
        /\ row'.status \in {r.status, row.status}
    BY <1>0, <1>4, <2>1 DEF NoteCommit, TypeOK, Desired
  <2>. HIDE DEF r
  <2>. QED
    BY <1>0, <1>4, <2>1, <2>2 DEF NoteCommit
<1>5. CASE Fetch
  BY <1>0, <1>5 DEF Fetch, IsNew
<1>6. CASE Reject \/ ActivateFails \/ ScanFails
  <2>1. Announce("rejected")
    BY <1>6 DEF Reject, ActivateFails, ScanFails
  <2>2. /\ announced \subseteq announced'
        /\ \A r \in announced' \cup astray' :
             r \in announced \cup astray \/ r.status = "rejected"
    BY <2>1, AnnouncedWhere
  <2>. QED
    BY <1>0, <1>6, <2>2 DEF Reject, ActivateFails, ScanFails
<1>7. CASE AnnounceApplied
  <2>1. /\ announced \subseteq announced'
        /\ \A r \in announced' \cup astray' :
             r \in announced \cup astray \/ r.version = got.version
    BY <1>7, AnnouncedWhere DEF AnnounceApplied
  <2>. QED
    BY <1>0, <1>7, <2>1 DEF AnnounceApplied
<1>8. CASE Activate
  <2>1. /\ working' = got /\ version' = got.version /\ pc' = "activated"
        /\ got.body.usable /\ got.body.url # "null"
    BY <1>0, <1>8 DEF Activate, Persisted, Valid, TypeOK, Configurations, Bodies
  <2>2. working.version <= got.version \/ clash
    BY <1>0, <1>8 DEF Activate
  <2>3. \A r \in announced \cup astray : r.version \in Nat
    BY <1>0, InitialTypes DEF TypeOK, Results
  <2>. QED
    BY <1>0, <1>8, <2>1, <2>2, <2>3 DEF Activate
<1>9. CASE Scan
  BY <1>0, <1>9 DEF Scan
<1>10. CASE Restart
  <2>1. crashes' > 0
    BY <1>0, <1>10 DEF Restart, TypeOK
  <2>2. /\ announced' \cup astray' = announced \cup astray
        /\ announced \subseteq announced'
    BY <1>10 DEF Restart
  <2>. QED
    BY <1>0, <1>10, <2>1, <2>2 DEF Restart, Unset
<1>11. CASE UNCHANGED vars
  BY <1>0, <1>11 DEF vars
<1>. QED
  BY <1>1, <1>2, <1>3, <1>4, <1>5, <1>6, <1>7, <1>8, <1>9, <1>10, <1>11, NextCases

(* Saves, polls and announcements never disagree about versions in the ways *)
(* the invariant excludes.                                                  *)
THEOREM SpecConfiguring == Spec => []Configuring
<1>1. Configuring /\ [Next]_vars => Configuring'
  BY TypeStep, AgreementStep DEF Configuring
<1>. QED
  BY ConfiguringInit, <1>1, PTL DEF Spec

(* Every variable has its type in every reachable state.                    *)
THEOREM SpecTypeOK == Spec => []TypeOK
<1>1. Configuring => TypeOK
  BY DEF Configuring
<1>. QED
  BY SpecConfiguring, <1>1, PTL

(* A version the server shows as applied was persisted by the agent, and    *)
(* without overlapping saves the agent still works with it or a newer one,  *)
(* over any number of restarts and repeated or delayed announcements.       *)
THEOREM SpecAppliedMeansPersisted == Spec => []AppliedMeansPersisted
<1>1. Configuring => AppliedMeansPersisted
  BY DEF Configuring
<1>. QED
  BY SpecConfiguring, <1>1, PTL

(* What the agent persists has passed all of its checks.                    *)
THEOREM SpecWorkingIsUsable == Spec => []WorkingIsUsable
<1>1. Configuring => WorkingIsUsable
  BY DEF Configuring
<1>. QED
  BY SpecConfiguring, <1>1, PTL

(* Without a restart the agent persists only newer versions.                *)
THEOREM SpecOnlyNewerReplaces == Spec => OnlyNewerReplaces
<1>. DEFINE Newer == working' # working /\ crashes = 0
                       => working'.version > working.version
<1>1. Configuring /\ [Next]_vars => [Newer]_vars
  <2>. SUFFICES ASSUME Configuring, Next, working' # working, crashes = 0
                PROVE  working'.version > working.version
    BY DEF Newer
  <2>1. Activate
    BY NextCases DEF Edit, Save, Note, NoteCommit, Fetch, Reject, ActivateFails,
                     AnnounceApplied, Scan, ScanFails, Restart
  <2>2. working' = got /\ got.version > version /\ version = working.version
    BY <2>1 DEF Activate, Persisted, Configuring, PollInOrder
  <2>. QED
    BY <2>2
<1>. QED
  BY SpecConfiguring, <1>1, PTL DEF Spec, OnlyNewerReplaces

(* Without overlapping saves the content of a version never changes.        *)
THEOREM SpecVersionNamesOneBody == Spec => VersionNamesOneBody
<1>. DEFINE OneBody == row'.version = row.version /\ ~clash' => row'.body = row.body
<1>1. Configuring /\ [Next]_vars => [OneBody]_vars
  <2>. SUFFICES ASSUME Configuring, Next, row'.version = row.version, ~clash'
                PROVE  row'.body = row.body
    BY DEF OneBody
  <2>1. row.version \in Nat
    BY InitialTypes DEF Configuring, TypeOK, Desired
  <2>2. ASSUME NEW a \in Admins, Save(a)
        PROVE  row'.body = row.body
    BY <2>1, <2>2, SavedRow
  <2>3. CASE NoteCommit
    BY <2>3 DEF NoteCommit, Configuring, TypeOK, Desired
  <2>. QED
    BY <2>2, <2>3, NextCases DEF Edit, Note, Fetch, Reject, Activate, ActivateFails,
                                 AnnounceApplied, Scan, ScanFails, Restart, serverVars
<1>. QED
  BY SpecConfiguring, <1>1, PTL DEF Spec, VersionNamesOneBody
===============================================================================
