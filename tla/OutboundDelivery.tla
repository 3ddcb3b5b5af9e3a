--------------------------- MODULE OutboundDelivery ---------------------------
(***************************************************************************)
(* The outbound path of the agent: the messages the cycle and the rescan   *)
(* handler of the local HTTP server create, HttpCentralReporter that sends *)
(* them or stores them in the outbound_queue table of LocalStorage, the    *)
(* flush after a successful heartbeat, a network that loses requests and   *)
(* replies or delivers a request late, and the ingest transaction of the   *)
(* central server that deduplicates by message_id.                         *)
(*                                                                         *)
(* Durable: rows, nextId, seq (SQLite) and marks, effects, superseded (the *)
(* server).  Volatile, lost in a crash: stage, pc, hand, flushing, batch   *)
(* and gate.  minted is a history variable, and unfit a property of the    *)
(* messages that only the server knows.                                    *)
(***************************************************************************)
EXTENDS Naturals, FiniteSets, Sequences

CONSTANTS MaxQueue,      \* max_queue_size: telemetry rows the queue may hold
          FlushLimit,    \* rows one flush reads (100 in the code)
          Quiet,         \* kinds this agent never sends
          Refusable,     \* kinds of which the server may refuse a message for ever
          Legacy,        \* TRUE: a database may be migrated with an unsent event
          MaxMessages,   \* bound: messages created in a behaviour
          MaxOutages,    \* bound: times the link goes down
          MaxCrashes     \* bound: restarts of the agent

(* The kinds one cycle may send, in the order cycle() sends them.          *)
Cycle == <<"config_status", "discovery", "check_results", "incidents",
           "signal_samples", "heartbeat">>
Kinds == {"config_status", "discovery", "check_results", "incidents",
          "signal_samples", "heartbeat", "legacy"}
Threads == {"main", "http"}

ASSUME DeliveryAssumption ==
         /\ MaxQueue \in Nat \ {0}      \* validate_config rejects 0
         /\ FlushLimit \in Nat \ {0}
         /\ Quiet \subseteq Kinds
         /\ Refusable \subseteq Kinds \ {"config_status", "legacy"}
         /\ Legacy \in BOOLEAN
         /\ MaxMessages \in Nat
         /\ MaxOutages \in Nat
         /\ MaxCrashes \in Nat

VARIABLES rows,         \* outbound_queue: id, message, next_attempt_at reached
          nextId,       \* AUTOINCREMENT of outbound_queue
          seq,          \* agent_state.sequence_number
          uid,          \* message_ids handed out so far
          minted,       \* every message created so far
          unfit,        \* uids of the messages no validation will let pass
          stage,        \* position of the main thread in Cycle
          pc,           \* per thread: ready, posting, accepted or failed
          hand,         \* per thread: the message being sent
          flush,        \* the main thread in flush(): no, read or send
          batch,        \* rows flush() read and has not handled yet
          gate,         \* next_retry_ has passed: flush() may read
          link,         \* the network between agent and server is up
          late,         \* requests the agent gave up on that may still arrive
          outages, crashes,
          marks,        \* ingested_messages: uids with a marker
          effects,      \* per uid: times the server recorded its payload
          superseded    \* config statuses up to this uid are answered 409

agentVars  == <<stage, pc, hand, flush, batch, gate>>
idVars     == <<seq, uid, minted, unfit>>
queueVars  == <<rows, nextId>>
netVars    == <<link, late, outages>>
serverVars == <<marks, effects, superseded>>
vars == <<agentVars, idVars, queueVars, netVars, serverVars, crashes>>
-------------------------------------------------------------------------------
(* Messages.  uid stands for message_id; 0 is the migrated message.  A      *)
(* config status carries no message_id and no sequence number.              *)
Messages == [uid : Nat, kind : Kinds, seq : Nat]
Rows == [id : Nat, msg : Messages, due : BOOLEAN]
Migrated == [uid |-> 0, kind |-> "legacy", seq |-> 0]
Nobody == Migrated              \* the value of an empty hand

IsEnvelope(m) == m.kind \notin {"config_status", "legacy"}
TelemetryKinds == Kinds \ {"incidents", "config_status", "legacy"}

(* enqueue_event takes the kind column from message_kind and says           *)
(* "incidents" when there is none, as for a config status or a migrated row.*)
IsTelemetry(m) == m.kind \in TelemetryKinds

Init == /\ \/ rows = {} /\ minted = {}
           \/ /\ Legacy /\ minted = {Migrated}
              /\ rows = {[id |-> 1, msg |-> Migrated, due |-> TRUE]}
        /\ nextId = 2
        /\ seq = 0
        /\ uid = 0
        /\ unfit = {}
        /\ stage = 1
        /\ pc = [t \in Threads |-> "ready"]
        /\ hand = [t \in Threads |-> Nobody]
        /\ flush = "no"
        /\ batch = {}
        /\ gate = TRUE
        /\ link = TRUE
        /\ late = {}
        /\ outages = 0
        /\ crashes = 0
        /\ marks = {}
        /\ effects = [u \in 0..MaxMessages |-> 0]
        /\ superseded = 0
-------------------------------------------------------------------------------
(* The oldest n rows of a set of rows: ORDER BY id LIMIT n.                 *)
Oldest(S, n) == {r \in S : Cardinality({s \in S : s.id < r.id}) < n}

TelemetryRows == {r \in rows : IsTelemetry(r.msg)}

(* Bugs the properties must notice (see the README): one row too many stays,*)
(* and the kind is forgotten, so that incidents are trimmed as well.        *)
Trimmed_OffByOne(m) ==
  IF IsTelemetry(m)
  THEN rows \ Oldest(TelemetryRows, Cardinality(TelemetryRows) - MaxQueue)
  ELSE rows

Trimmed_AnyKind(m) ==
  IF IsTelemetry(m)
  THEN rows \ Oldest(rows, Cardinality(rows) + 1 - MaxQueue)
  ELSE rows

(* What is left of the table when room is made for m.                       *)
Trimmed(m) ==
  IF IsTelemetry(m)
  THEN rows \ Oldest(TelemetryRows, Cardinality(TelemetryRows) + 1 - MaxQueue)
  ELSE rows

(* enqueue_event: one transaction that burns a sequence number, trims the   *)
(* telemetry and inserts unless the message is there already.               *)
Enqueue(m) ==
  /\ seq' = seq + 1
  /\ IF \E r \in Trimmed(m) : r.msg = m
     THEN /\ rows' = Trimmed(m)
          /\ nextId' = nextId
     ELSE /\ rows' = Trimmed(m) \cup {[id |-> nextId, msg |-> m, due |-> TRUE]}
          /\ nextId' = nextId + 1

Pending == Oldest({r \in rows : r.due}, FlushLimit)

NextStage == IF stage = Len(Cycle) THEN 1 ELSE stage + 1

(* mark_event_failed: the row stays and waits for its next attempt.         *)
Deferred_Dropped(r) == {s \in rows : s.id # r.id}

Deferred(r) == {IF s.id = r.id THEN [s EXCEPT !.due = FALSE] ELSE s : s \in rows}

Finish(t) == /\ pc' = [pc EXCEPT ![t] = "ready"]
             /\ hand' = [hand EXCEPT ![t] = Nobody]
-------------------------------------------------------------------------------
(* next_sequence_number, for the kinds that carry a number.                 *)
NextSequence_NotStored(k) == seq

NextSequence(k) == IF k = "config_status" THEN seq ELSE seq + 1

(* make_message and the call of send: the sequence number is durable before *)
(* the message exists anywhere else.  Whether the server will find fault    *)
(* with it is decided by what is in it.                                     *)
Make(t, k) ==
  LET m == [uid |-> uid + 1, kind |-> k,
            seq |-> IF k = "config_status" THEN 0 ELSE NextSequence(k)]
  IN /\ pc[t] = "ready"
     /\ k \notin Quiet
     /\ uid < MaxMessages                                   \* bound
     /\ uid' = uid + 1
     /\ seq' = NextSequence(k)
     /\ minted' = minted \cup {m}
     /\ \/ unfit' = unfit
        \/ k \in Refusable /\ unfit' = unfit \cup {m.uid}
     /\ hand' = [hand EXCEPT ![t] = m]
     /\ pc' = [pc EXCEPT ![t] = "posting"]
     /\ UNCHANGED <<stage, flush, batch, gate, queueVars, netVars, serverVars,
                    crashes>>

(* discovery_mutex is held while a discovery report is sent.                *)
MakeMain == /\ flush = "no"
            /\ Cycle[stage] = "discovery" => pc["http"] = "ready"
            /\ Make("main", Cycle[stage])

MakeHttp == /\ ~(Cycle[stage] = "discovery" /\ pc["main"] # "ready")
            /\ Make("http", "discovery")

(* Every message of a cycle but the check results depends on something that *)
(* may be missing: a new configuration, a scan that is due, incident events,*)
(* online samples, an elapsed heartbeat interval.                           *)
Skip == /\ flush = "no"
        /\ pc["main"] = "ready"
        /\ Cycle[stage] = "check_results" => Cycle[stage] \in Quiet \/ uid = MaxMessages
        /\ stage' = NextStage
        /\ UNCHANGED <<pc, hand, flush, batch, gate, idVars, queueVars, netVars,
                       serverVars, crashes>>

(* At the bound a heartbeat is no longer recorded as a message; while the   *)
(* link is up it still succeeds and starts a flush.                         *)
Probe == /\ flush = "no"
         /\ pc["main"] = "ready"
         /\ Cycle[stage] = "heartbeat" /\ Cycle[stage] \notin Quiet
         /\ uid = MaxMessages
         /\ link
         /\ flush' = "read"
         /\ UNCHANGED <<stage, pc, hand, batch, gate, idVars, queueVars, netVars,
                        serverVars, crashes>>

Live(t) == t = "http" \/ flush = "no"

(* send returned true.  A heartbeat that was sent starts a flush.           *)
Sent(t) ==
  /\ Live(t)
  /\ pc[t] = "accepted" /\ link
  /\ Finish(t)
  /\ IF t = "main" /\ hand[t].kind = "heartbeat"
     THEN flush' = "read" /\ stage' = stage
     ELSE flush' = flush /\ stage' = IF t = "main" THEN NextStage ELSE stage
  /\ UNCHANGED <<batch, gate, idVars, queueVars, netVars, serverVars, crashes>>

(* send returned false: send_or_queue stores the message.                   *)
Queue(t) ==
  /\ Live(t)
  /\ pc[t] = "failed"
  /\ Enqueue(hand[t])
  /\ Finish(t)
  /\ stage' = IF t = "main" THEN NextStage ELSE stage
  /\ UNCHANGED <<uid, minted, unfit, flush, batch, gate, netVars, serverVars, crashes>>
-------------------------------------------------------------------------------
(* flush, called by send_heartbeat on the main thread.                      *)
LeaveFlush == /\ flush' = "no"
              /\ stage' = NextStage

FlushClosed == /\ flush = "read" /\ ~gate
               /\ LeaveFlush
               /\ UNCHANGED <<pc, hand, batch, gate, idVars, queueVars, netVars,
                              serverVars, crashes>>

FlushRead == /\ flush = "read" /\ gate
             /\ batch' = Pending
             /\ flush' = "send"
             /\ UNCHANGED <<stage, pc, hand, gate, idVars, queueVars, netVars,
                            serverVars, crashes>>

(* A row without delivery_path and body fails without a request.            *)
FlushPost ==
  /\ flush = "send" /\ pc["main"] = "ready"
  /\ \E r \in Oldest(batch, 1) :
       /\ hand' = [hand EXCEPT !["main"] = r.msg]
       /\ pc' = [pc EXCEPT !["main"] = IF r.msg.kind = "legacy" THEN "failed"
                                                               ELSE "posting"]
  /\ UNCHANGED <<stage, flush, batch, gate, idVars, queueVars, netVars,
                 serverVars, crashes>>

FlushSent ==
  /\ flush = "send" /\ pc["main"] = "accepted" /\ link
  /\ \E r \in Oldest(batch, 1) : /\ rows' = {s \in rows : s.id # r.id}
                                 /\ batch' = batch \ {r}
  /\ gate' = TRUE
  /\ Finish("main")
  /\ UNCHANGED <<stage, flush, nextId, idVars, netVars, serverVars, crashes>>

FlushFailed ==
  /\ flush = "send" /\ pc["main"] = "failed"
  /\ \E r \in Oldest(batch, 1) :
       rows' = Deferred(r)
  /\ batch' = {}
  /\ gate' = FALSE
  /\ Finish("main")
  /\ LeaveFlush
  /\ UNCHANGED <<nextId, idVars, netVars, serverVars, crashes>>

FlushDone == /\ flush = "send" /\ pc["main"] = "ready" /\ batch = {}
             /\ LeaveFlush
             /\ UNCHANGED <<pc, hand, batch, gate, idVars, queueVars, netVars,
                            serverVars, crashes>>

(* The in-memory gate and the row's next_attempt_at expire on their own.    *)
GateOpens == /\ ~gate
             /\ gate' = TRUE
             /\ UNCHANGED <<stage, pc, hand, flush, batch, idVars, queueVars,
                            netVars, serverVars, crashes>>

RowDue(i) == /\ \E r \in rows : r.id = i /\ ~r.due
             /\ rows' = {IF s.id = i THEN [s EXCEPT !.due = TRUE] ELSE s : s \in rows}
             /\ UNCHANGED <<nextId, agentVars, idVars, netVars, serverVars, crashes>>
-------------------------------------------------------------------------------
(* The server.  An envelope whose contents, kind or identity do not pass is *)
(* answered 422 or 403 and rolled back with its marker, every time again.   *)
(* A config status is answered 409 once a newer configuration version       *)
(* exists; every other message is deduplicated by its marker, in the        *)
(* transaction that records it.                                             *)
Fits(m) == m.uid \notin unfit

Accepts_RefusesDuplicate(m) == m.uid \notin marks

Accepts(m) == Fits(m) /\ (m.kind = "config_status" => m.uid > superseded)

EffectCap == 2          \* bound: effects are counted up to two

Record_NoMarker(m) ==
  IF ~Accepts(m)
  THEN UNCHANGED <<marks, effects>>
  ELSE /\ marks' = marks \cup {m.uid}
       /\ effects' = [effects EXCEPT ![m.uid] = IF @ < EffectCap THEN @ + 1 ELSE @]

Record(m) ==
  IF ~Accepts(m) \/ m.uid \in marks
  THEN UNCHANGED <<marks, effects>>
  ELSE /\ marks' = IF IsEnvelope(m) THEN marks \cup {m.uid} ELSE marks
       /\ effects' = [effects EXCEPT ![m.uid] = IF @ < EffectCap THEN @ + 1 ELSE @]

Ingest(t) == /\ pc[t] = "posting" /\ link
             /\ Record(hand[t])
             /\ pc' = [pc EXCEPT ![t] = IF Accepts(hand[t]) THEN "accepted" ELSE "failed"]
             /\ UNCHANGED <<stage, hand, flush, batch, gate, idVars, queueVars,
                            netVars, superseded, crashes>>

Arrive(m) == /\ m \in late
             /\ late' = late \ {m}
             /\ Record(m)
             /\ UNCHANGED <<agentVars, idVars, queueVars, link, outages,
                            superseded, crashes>>

(* The operator saves a newer configuration.                                *)
Supersede == /\ "config_status" \notin Quiet
             /\ superseded < uid
             /\ superseded' = uid
             /\ UNCHANGED <<agentVars, idVars, queueVars, netVars, marks, effects,
                            crashes>>

(* A request or its reply is lost, or the client times out.  A request that *)
(* was under way may still reach the server afterwards.                     *)
GiveUp(t) == /\ ~link /\ pc[t] \in {"posting", "accepted"}
             /\ pc' = [pc EXCEPT ![t] = "failed"]
             /\ \/ late' = late
                \/ pc[t] = "posting" /\ late' = late \cup {hand[t]}
             /\ UNCHANGED <<stage, hand, flush, batch, gate, idVars, queueVars,
                            link, outages, serverVars, crashes>>

LinkDown == /\ link /\ outages < MaxOutages
            /\ link' = FALSE
            /\ outages' = outages + 1
            /\ UNCHANGED <<agentVars, idVars, queueVars, late, serverVars, crashes>>

LinkUp == /\ ~link
          /\ link' = TRUE
          /\ UNCHANGED <<agentVars, idVars, queueVars, late, outages, serverVars,
                         crashes>>

(* The process dies and starts again; requests it had sent may still arrive.*)
Crash ==
  /\ crashes < MaxCrashes
  /\ crashes' = crashes + 1
  /\ stage' = 1
  /\ pc' = [t \in Threads |-> "ready"]
  /\ hand' = [t \in Threads |-> Nobody]
  /\ flush' = "no"
  /\ batch' = {}
  /\ gate' = TRUE
  /\ \E S \in SUBSET {hand[t] : t \in {u \in Threads : pc[u] = "posting"}} :
        late' = late \cup S
  /\ UNCHANGED <<idVars, queueVars, link, outages, serverVars>>
-------------------------------------------------------------------------------
Heartbeat == Probe \/ (Cycle[stage] = "heartbeat" /\ MakeMain)

MainStep == \/ MakeMain \/ Skip \/ Probe \/ Sent("main") \/ Queue("main")
            \/ FlushClosed \/ FlushRead \/ FlushPost \/ FlushSent \/ FlushFailed
            \/ FlushDone

HttpStep == Sent("http") \/ Queue("http")

Next == \/ MainStep
        \/ MakeHttp \/ HttpStep
        \/ GateOpens
        \/ \E i \in 1..(MaxMessages + 1) : RowDue(i)
        \/ \E t \in Threads : Ingest(t) \/ GiveUp(t)
        \/ \E m \in late : Arrive(m)
        \/ Supersede \/ LinkDown \/ LinkUp \/ Crash

Spec == Init /\ [][Next]_vars

(* The main loop and the HTTP thread never stop, timers expire, the server  *)
(* answers while the link is up and the link comes back.  A cycle may skip  *)
(* the heartbeat while its interval has not elapsed, but not for ever.      *)
Fairness == /\ WF_vars(MainStep)
            /\ SF_vars(Heartbeat)
            /\ WF_vars(HttpStep)
            /\ WF_vars(GateOpens)
            /\ \A i \in 1..(MaxMessages + 1) : WF_vars(RowDue(i))
            /\ \A t \in Threads : WF_vars(Ingest(t)) /\ WF_vars(GiveUp(t))
            /\ WF_vars(LinkUp)

FairSpec == Spec /\ Fairness
-------------------------------------------------------------------------------
(* Types of every variable.                                                 *)
TypeOK ==
  /\ rows \subseteq Rows
  /\ nextId \in Nat /\ seq \in Nat /\ uid \in 0..MaxMessages
  /\ minted \subseteq Messages /\ unfit \subseteq 1..MaxMessages
  /\ stage \in 1..Len(Cycle)
  /\ pc \in [Threads -> {"ready", "posting", "accepted", "failed"}]
  /\ hand \in [Threads -> Messages]
  /\ flush \in {"no", "read", "send"}
  /\ batch \subseteq Rows
  /\ gate \in BOOLEAN /\ link \in BOOLEAN
  /\ late \subseteq Messages
  /\ outages \in Nat /\ crashes \in Nat
  /\ marks \subseteq 0..MaxMessages
  /\ effects \in [0..MaxMessages -> 0..EffectCap]
  /\ superseded \in 0..MaxMessages

(* enqueue_event keeps the telemetry rows within max_queue_size, whichever  *)
(* thread enqueues and whatever a flush is doing with the rows it read.     *)
TelemetryBound == Cardinality(TelemetryRows) <= MaxQueue

(* "не создаёт повторных записей": the server records an envelope at most   *)
(* once, although it may be sent live, sent again from the queue and arrive *)
(* late, over crashes of the agent.                                         *)
RecordedOnce == \A m \in minted : IsEnvelope(m) => effects[m.uid] <= 1

(* A message on a thread's hands never shares a sequence number with another*)
(* one, before or after a restart, and numbers follow creation order.       *)
SequenceOrder ==
  \A m, n \in minted : IsEnvelope(m) /\ IsEnvelope(n) /\ m.uid < n.uid => m.seq < n.seq

(* Incident messages that reached the queue leave it only when the server   *)
(* has recorded them: not by a trim, a failed flush or a crash.             *)
QueuedSurvives ==
  [][\A r \in rows : \/ IsTelemetry(r.msg)
                     \/ effects[r.msg.uid] > 0
                     \/ \E s \in rows' : s.id = r.id /\ s.msg = r.msg]_vars

(* A message no server ever takes again: a migrated one, the status of a     *)
(* configuration that was replaced, an envelope that does not pass.         *)
Refused(m) == \/ m.kind = "legacy"
              \/ m.kind = "config_status" /\ m.uid <= superseded
              \/ m.uid \in unfit

(* Flush never comes past a row that is refused for ever.                   *)
Stuck(r) == \E s \in rows : s.id <= r.id /\ Refused(s.msg)

(* Everything that was queued eventually leaves the queue, or stands behind *)
(* a row that is refused for ever.                                          *)
QueueDrains ==
  \A u \in 0..MaxMessages :
     (\E r \in rows : r.msg.uid = u) ~> (\A r \in rows : r.msg.uid = u => Stuck(r))

(* "При восстановлении связи очередь отправляется": an incident that was    *)
(* queued eventually leaves the queue, whatever else is queued before it.   *)
IncidentsDrain ==
  \A u \in 0..MaxMessages :
     (\E r \in rows : r.msg.uid = u /\ r.msg.kind = "incidents")
        ~> (\A r \in rows : r.msg.uid # u)
-------------------------------------------------------------------------------
(* What the proofs rest on.  Message ids and numbers are handed out upwards *)
(* and never twice.                                                         *)
Minting == /\ \A m \in minted : m.uid <= uid /\ m.seq <= seq
           /\ \A m, n \in minted : m.uid = n.uid => m = n
           /\ SequenceOrder

(* Messages are handled, stored or under way, but never invented.           *)
NothingInvented ==
  /\ \A r \in rows \cup batch : r.msg \in minted
  /\ \A t \in Threads : pc[t] # "ready" => hand[t] \in minted
  /\ late \subseteq minted

(* The table is finite and keyed by its id and by its message.              *)
QueueKeyed ==
  /\ IsFiniteSet(rows)
  /\ \A r \in rows \cup batch : r.id < nextId
  /\ \A r, s \in rows : r.id = s.id \/ r.msg = s.msg => r = s
  /\ \A r, s \in batch : r.id = s.id \/ r.msg = s.msg => r = s

(* A row that flush() read still is in the table, unless it was trimmed.    *)
BatchTracks ==
  /\ IsFiniteSet(batch)
  /\ flush # "send" => batch = {}
  /\ flush = "read" => pc["main"] = "ready"
  /\ \A b \in batch, r \in rows : b.id = r.id <=> b.msg = r.msg
  /\ \A b \in batch : IsTelemetry(b.msg) \/ \E r \in rows : r.id = b.id
  /\ flush = "send" /\ pc["main"] # "ready"
       => \E b \in Oldest(batch, 1) : hand["main"] = b.msg

(* A message that is sent live is not in the queue, and only one thread has it. *)
LiveIsNew ==
  /\ \A t \in Threads : Live(t) /\ pc[t] # "ready" =>
        \A r \in rows \cup batch : r.msg # hand[t]
  /\ pc["main"] # "ready" /\ pc["http"] # "ready" => hand["main"] # hand["http"]

(* An accepted message has been recorded, and the markers say which         *)
(* envelopes were.                                                          *)
Recording ==
  /\ \A t \in Threads : pc[t] = "accepted" => effects[hand[t].uid] > 0
  /\ \A u \in 0..MaxMessages : u > uid => effects[u] = 0 /\ u \notin marks
  /\ \A m \in minted : IsEnvelope(m) =>
        effects[m.uid] = IF m.uid \in marks THEN 1 ELSE 0
  /\ \A m \in minted : m.uid \in marks => IsEnvelope(m)

(* The inductive invariant.                                                 *)
Bookkeeping == /\ TypeOK /\ Minting /\ NothingInvented /\ QueueKeyed
               /\ BatchTracks /\ LiveIsNew /\ Recording
-------------------------------------------------------------------------------
(* Refinement: where each message is.                                       *)
Promise == INSTANCE DeliveryPromise
             WITH Telemetry <- [uid : Nat, kind : TelemetryKinds, seq : Nat],
                  held <- {hand[t] : t \in {u \in Threads : pc[u] # "ready"}}
                            \cup {r.msg : r \in batch},
                  kept <- {r.msg : r \in rows},
                  applied <- {m \in minted : effects[m.uid] > 0}

KeepsPromise == Promise!Spec
===============================================================================
