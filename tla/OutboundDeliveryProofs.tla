----------------------- MODULE OutboundDeliveryProofs -----------------------
(***************************************************************************)
(* Theorems about OutboundDelivery for any queue size, flush limit, kinds, *)
(* and any number of messages, outages and restarts.                       *)
(***************************************************************************)
EXTENDS OutboundDelivery, FiniteSetTheorems, WellFoundedInduction, TLAPS

(* Every next-state step is one of these; the case split of the proofs.     *)
LEMMA NextCases ==
  ASSUME Next
  PROVE  \/ MakeMain \/ MakeHttp \/ Skip \/ Probe
         \/ \E t \in Threads : Sent(t) \/ Queue(t) \/ Ingest(t) \/ GiveUp(t)
         \/ FlushClosed \/ FlushRead \/ FlushPost \/ FlushSent \/ FlushFailed
         \/ FlushDone \/ GateOpens
         \/ \E i \in 1..(MaxMessages + 1) : RowDue(i)
         \/ \E m \in late : Arrive(m)
         \/ Supersede \/ LinkDown \/ LinkUp \/ Crash
BY DEF Next, MainStep, HttpStep, Threads

LEMMA StageFacts ==
  /\ Len(Cycle) = 6
  /\ \A k \in 1..6 : Cycle[k] \in Kinds
  /\ stage \in 1..6 => NextStage \in 1..6
  /\ 1 \in 1..6
BY DEF Cycle, Kinds, NextStage

(* Nobody is a message, and the two threads are two.                        *)
LEMMA ThreadFacts ==
  Threads = {"main", "http"} /\ Nobody \in Messages /\ Migrated \in Messages
BY DEF Threads, Nobody, Migrated, Messages, Kinds

-----------------------------------------------------------------------------
(* A row that Oldest takes first has no older one.                          *)
LEMMA OldestIsLeast ==
  ASSUME NEW S, IsFiniteSet(S), NEW r \in Oldest(S, 1)
  PROVE  r \in S /\ \A s \in S : ~(s.id < r.id)
<1>. DEFINE T == {x \in S : x.id < r.id}
<1>1. r \in S /\ Cardinality(T) < 1
  BY DEF Oldest
<1>2. IsFiniteSet(T) /\ Cardinality(T) \in Nat
  BY FS_Subset, FS_CardinalityType
<1>3. T = {}
  BY <1>1, <1>2, FS_EmptySet
<1>. QED
  BY <1>1, <1>3

(* So that the first row of a batch is one row.                             *)
LEMMA OldestUnique ==
  ASSUME TypeOK, QueueKeyed, BatchTracks,
         NEW r \in Oldest(batch, 1), NEW s \in Oldest(batch, 1)
  PROVE  r = s
<1>1. r \in batch /\ s \in batch /\ ~(s.id < r.id) /\ ~(r.id < s.id)
  BY OldestIsLeast DEF BatchTracks
<1>2. r.id \in Nat /\ s.id \in Nat
  BY <1>1 DEF TypeOK, Rows
<1>. QED
  BY <1>1, <1>2 DEF QueueKeyed

(* Trimming only ever takes telemetry rows out.                             *)
LEMMA TrimmedFacts ==
  ASSUME NEW m
  PROVE  /\ Trimmed(m) \subseteq rows
         /\ \A r \in rows : r \in Trimmed(m) \/ IsTelemetry(r.msg)
BY DEF Trimmed, Oldest, TelemetryRows

(* What enqueueing a message does to the table, when it is not there yet.   *)
LEMMA EnqueueFacts ==
  ASSUME TypeOK, QueueKeyed, NEW m \in Messages, Enqueue(m),
         \A r \in rows : r.msg # m
  PROVE  /\ rows' = Trimmed(m) \cup {[id |-> nextId, msg |-> m, due |-> TRUE]}
         /\ nextId' = nextId + 1
         /\ seq' = seq + 1
         /\ [id |-> nextId, msg |-> m, due |-> TRUE] \in Rows
BY TrimmedFacts DEF Enqueue, TypeOK, Rows

-----------------------------------------------------------------------------
LEMMA BookkeepingInit == Init => Bookkeeping
<1>. SUFFICES ASSUME Init PROVE Bookkeeping
  OBVIOUS
<1>. USE DeliveryAssumption, ThreadFacts DEF Init
<1>1. rows = {} \/ rows = {[id |-> 1, msg |-> Migrated, due |-> TRUE]}
  OBVIOUS
<1>2. IsFiniteSet(rows)
  <2>1. CASE rows = {}
    BY <2>1, FS_EmptySet
  <2>2. CASE rows = {[id |-> 1, msg |-> Migrated, due |-> TRUE]}
    <3>1. IsFiniteSet({[id |-> 1, msg |-> Migrated, due |-> TRUE]})
      BY FS_Singleton
    <3>. QED
      BY <2>2, <3>1
  <2>. QED
    BY <1>1, <2>1, <2>2
<1>3. minted = {} \/ minted = {Migrated}
  OBVIOUS
<1>4. TypeOK
  <2>1. rows \subseteq Rows /\ minted \subseteq Messages
    <3>1. [id |-> 1, msg |-> Migrated, due |-> TRUE] \in Rows
      BY DEF Rows
    <3>. QED
      BY <1>1, <1>3, <3>1
  <2>2. effects \in [0..MaxMessages -> 0..EffectCap]
    BY DEF EffectCap
  <2>. QED
    BY <2>1, <2>2, StageFacts DEF TypeOK
<1>5. Minting
  BY <1>3 DEF Minting, SequenceOrder, Migrated
<1>6. NothingInvented
  <2>1. \A r \in rows \cup batch : r.msg \in minted
    BY <1>1
  <2>. QED
    BY <2>1 DEF NothingInvented
<1>7. QueueKeyed
  <2>1. batch = {} /\ nextId = 2 /\ \A r \in rows : r.id = 1
    BY <1>1
  <2>2. \A r, s \in rows : r = s
    BY <1>1
  <2>. QED
    BY <1>2, <2>1, <2>2 DEF QueueKeyed
<1>8. BatchTracks
  BY FS_EmptySet DEF BatchTracks
<1>9. LiveIsNew
  BY DEF LiveIsNew
<1>10. Recording
  BY <1>3 DEF Recording, IsEnvelope, Migrated
<1>. QED
  BY <1>4, <1>5, <1>6, <1>7, <1>8, <1>9, <1>10 DEF Bookkeeping

(* The types hold after every step.                                         *)
LEMMA TypeStep == Bookkeeping /\ [Next]_vars => TypeOK'
<1>. SUFFICES ASSUME Bookkeeping, [Next]_vars PROVE TypeOK'
  OBVIOUS
<1>. USE DeliveryAssumption, ThreadFacts DEF Bookkeeping, TypeOK
<1>a. /\ stage \in 1..6 /\ NextStage \in 1..6 /\ Len(Cycle) = 6
      /\ Cycle[stage] \in Kinds
  BY StageFacts
<1>1. ASSUME NEW t \in Threads, NEW k \in Kinds, Make(t, k) PROVE TypeOK'
  <2>1. /\ uid + 1 \in 0..MaxMessages
        /\ NextSequence(k) \in Nat
        /\ [uid |-> uid + 1, kind |-> k,
            seq |-> IF k = "config_status" THEN 0 ELSE NextSequence(k)] \in Messages
    BY <1>1 DEF Make, NextSequence, Messages
  <2>2. uid + 1 \in 1..MaxMessages
    BY <1>1 DEF Make
  <2>3. unfit' = unfit \/ unfit' = unfit \cup {uid + 1}
    BY <1>1 DEF Make
  <2>4. unfit' \subseteq 1..MaxMessages
    BY <2>2, <2>3
  <2>. QED
    BY <1>1, <2>1, <2>4 DEF Make, queueVars, netVars, serverVars
<1>2. CASE MakeMain \/ MakeHttp
  BY <1>1, <1>2, <1>a DEF MakeMain, MakeHttp, Kinds
<1>3. CASE Skip
  BY <1>3, <1>a DEF Skip, idVars, queueVars, netVars, serverVars
<1>4. CASE Probe
  BY <1>4 DEF Probe, idVars, queueVars, netVars, serverVars
<1>5. ASSUME NEW t \in Threads, Sent(t) PROVE TypeOK'
  BY <1>5, <1>a DEF Sent, Finish, idVars, queueVars, netVars, serverVars
<1>6. ASSUME NEW t \in Threads, Queue(t) PROVE TypeOK'
  <2>1. rows' \subseteq Rows /\ nextId' \in Nat /\ seq' \in Nat
    <3>1. hand[t] \in Messages /\ Enqueue(hand[t]) /\ \A r \in rows : r.msg # hand[t]
      BY <1>6 DEF Queue, LiveIsNew
    <3>2. Trimmed(hand[t]) \subseteq Rows
      BY TrimmedFacts
    <3>3. /\ rows' = Trimmed(hand[t])
                      \cup {[id |-> nextId, msg |-> hand[t], due |-> TRUE]}
          /\ nextId' = nextId + 1 /\ seq' = seq + 1
          /\ [id |-> nextId, msg |-> hand[t], due |-> TRUE] \in Rows
      BY <3>1, EnqueueFacts
    <3>4. rows' \subseteq Rows
      BY <3>2, <3>3
    <3>5. nextId' \in Nat /\ seq' \in Nat
      BY <3>3
    <3>. QED
      BY <3>4, <3>5
  <2>. QED
    BY <1>6, <2>1, <1>a DEF Queue, Finish, netVars, serverVars
<1>7. CASE FlushClosed \/ FlushDone
  BY <1>7, <1>a DEF FlushClosed, FlushDone, LeaveFlush, idVars, queueVars, netVars, serverVars
<1>8. CASE FlushRead
  BY <1>8 DEF FlushRead, Pending, Oldest, idVars, queueVars, netVars, serverVars
<1>9. CASE FlushPost
  BY <1>9 DEF FlushPost, Oldest, Rows, idVars, queueVars, netVars, serverVars
<1>10. CASE FlushSent
  BY <1>10 DEF FlushSent, Finish, idVars, netVars, serverVars
<1>11. CASE FlushFailed
  BY <1>11, <1>a DEF FlushFailed, Deferred, Rows, Finish, LeaveFlush, idVars, netVars, serverVars
<1>12. CASE GateOpens
  BY <1>12 DEF GateOpens, idVars, queueVars, netVars, serverVars
<1>13. ASSUME NEW i \in 1..(MaxMessages + 1), RowDue(i) PROVE TypeOK'
  <2>1. \A s \in rows : s \in Rows /\ [s EXCEPT !.due = TRUE] \in Rows
    BY DEF Rows
  <2>2. rows' \subseteq Rows
    BY <1>13, <2>1 DEF RowDue
  <2>. QED
    BY <1>13, <2>2 DEF RowDue, agentVars, idVars, netVars, serverVars
<1>r. ASSUME NEW m \in minted, Record(m)
      PROVE  /\ marks' \subseteq 0..MaxMessages
             /\ effects' \in [0..MaxMessages -> 0..EffectCap]
  <2>1. m.uid \in 0..MaxMessages
    BY <1>r DEF Minting, Messages
  <2>. QED
    <3>1. CASE UNCHANGED <<marks, effects>>
      BY <3>1
    <3>2. CASE ~UNCHANGED <<marks, effects>>
      <4>1. /\ marks' = IF IsEnvelope(m) THEN marks \cup {m.uid} ELSE marks
            /\ effects' = [effects EXCEPT ![m.uid] = IF @ < EffectCap THEN @ + 1 ELSE @]
        BY <1>r, <3>2 DEF Record
      <4>2. (IF effects[m.uid] < EffectCap THEN effects[m.uid] + 1 ELSE effects[m.uid])
              \in 0..EffectCap
        BY <2>1 DEF EffectCap
      <4>. QED
        BY <2>1, <4>1, <4>2
    <3>. QED
      BY <3>1, <3>2
<1>14. ASSUME NEW t \in Threads, Ingest(t) PROVE TypeOK'
  BY <1>14, <1>r DEF Ingest, NothingInvented, idVars, queueVars, netVars
<1>15. ASSUME NEW t \in Threads, GiveUp(t) PROVE TypeOK'
  BY <1>15 DEF GiveUp, idVars, queueVars, serverVars
<1>16. ASSUME NEW m \in late, Arrive(m) PROVE TypeOK'
  BY <1>16, <1>r DEF Arrive, NothingInvented, agentVars, idVars, queueVars
<1>17. CASE Supersede
  BY <1>17 DEF Supersede, agentVars, idVars, queueVars, netVars
<1>18. CASE LinkDown \/ LinkUp
  <2>1. link' \in BOOLEAN
    BY <1>18 DEF LinkDown, LinkUp
  <2>2. outages' \in Nat
    BY <1>18 DEF LinkDown, LinkUp
  <2>. QED
    BY <1>18, <2>1, <2>2 DEF LinkDown, LinkUp, agentVars, idVars, queueVars, serverVars
<1>19. CASE Crash
  <2>1. late' \subseteq Messages
    <3>1. PICK S \in SUBSET {hand[t] : t \in {u \in Threads : pc[u] = "posting"}} :
              late' = late \cup S
      BY <1>19 DEF Crash
    <3>2. \A t \in Threads : hand[t] \in Messages
      OBVIOUS
    <3>3. S \subseteq Messages
      BY <3>2
    <3>. QED
      BY <3>1, <3>3
  <2>2. gate' \in BOOLEAN
    BY <1>19 DEF Crash
  <2>3. /\ stage' \in 1..Len(Cycle)
        /\ pc' \in [Threads -> {"ready", "posting", "accepted", "failed"}]
        /\ hand' \in [Threads -> Messages]
        /\ flush' \in {"no", "read", "send"}
        /\ batch' \subseteq Rows
        /\ crashes' \in Nat
    BY <1>19, <1>a DEF Crash
  <2>4. UNCHANGED <<rows, nextId, seq, uid, minted, unfit, link, outages, marks,
                    effects, superseded>>
    BY <1>19 DEF Crash, idVars, queueVars, serverVars
  <2>. QED
    BY <2>1, <2>2, <2>3, <2>4
<1>20. CASE UNCHANGED vars
  BY <1>20 DEF vars, agentVars, idVars, queueVars, netVars, serverVars
<1>. QED
  BY <1>2, <1>3, <1>4, <1>5, <1>6, <1>7, <1>8, <1>9, <1>10, <1>11, <1>12, <1>13,
     <1>14, <1>15, <1>16, <1>17, <1>18, <1>19, <1>20, NextCases

-----------------------------------------------------------------------------
(* The invariant without the types: what one action after the other keeps.  *)
Consistent == /\ Minting /\ NothingInvented /\ QueueKeyed
              /\ BatchTracks /\ LiveIsNew /\ Recording

(* Steps that only move the main thread, a timer or the link: flush() is    *)
(* entered and left with no message in hand and no row unhandled.           *)
LEMMA ControlKeeps ==
  ASSUME Bookkeeping,
         UNCHANGED <<rows, nextId, seq, uid, minted, pc, hand, batch, late, marks,
                     effects>>,
         flush' = flush \/ (pc["main"] = "ready" /\ batch = {})
  PROVE  Consistent'
<1>. USE DEF Bookkeeping
<1>1. Minting'
  BY DEF Minting, SequenceOrder
<1>2. NothingInvented' /\ QueueKeyed'
  BY DEF NothingInvented, QueueKeyed
<1>3. BatchTracks'
  BY DEF BatchTracks, Oldest
<1>4. LiveIsNew'
  BY ThreadFacts DEF LiveIsNew, Live
<1>5. Recording'
  BY DEF Recording
<1>. QED
  BY <1>1, <1>2, <1>3, <1>4, <1>5 DEF Consistent

(* A new message has the next id, a number above all others, and is nowhere *)
(* but in the hand of the thread that made it.                              *)
LEMMA MakeKeeps ==
  ASSUME Bookkeeping, NEW t \in Threads, NEW k \in Kinds \ {"legacy"}, Make(t, k),
         Live(t)
  PROVE  Consistent'
<1>. USE DEF Bookkeeping
<1>. DEFINE m == [uid |-> uid + 1, kind |-> k,
                  seq |-> IF k = "config_status" THEN 0 ELSE NextSequence(k)]
<1>1. /\ pc[t] = "ready" /\ uid < MaxMessages
      /\ uid' = uid + 1 /\ minted' = minted \cup {m}
      /\ hand' = [hand EXCEPT ![t] = m] /\ pc' = [pc EXCEPT ![t] = "posting"]
      /\ UNCHANGED <<flush, batch, rows, nextId, late, marks, effects>>
  BY DEF Make, queueVars, netVars, serverVars
<1>2. /\ seq \in Nat /\ uid \in Nat /\ seq' \in Nat /\ seq' >= seq
      /\ m.seq <= seq' /\ m.seq \in Nat
      /\ k # "config_status" => m.seq = seq + 1
  BY DEF Make, NextSequence, TypeOK
<1>3. /\ m.uid = uid + 1 /\ m.kind = k
      /\ \A n \in minted : n.uid \in Nat /\ n.seq \in Nat /\ n.uid < m.uid /\ n.seq <= seq
  BY <1>2 DEF Minting, TypeOK, Messages
<1>4. m \notin minted
  BY <1>2, <1>3
<1>5. Minting'
  <2>1. \A n \in minted' : n.uid <= uid' /\ n.seq <= seq'
    BY <1>1, <1>2, <1>3
  <2>2. \A n, o \in minted' : n.uid = o.uid => n = o
    BY <1>1, <1>2, <1>3 DEF Minting
  <2>3. IsEnvelope(m) => m.seq = seq + 1
    BY <1>2, <1>3 DEF IsEnvelope
  <2>4. \A n, o \in minted' : IsEnvelope(n) /\ IsEnvelope(o) /\ n.uid < o.uid => n.seq < o.seq
    BY <1>1, <1>2, <1>3, <2>3 DEF Minting, SequenceOrder
  <2>. QED
    BY <2>1, <2>2, <2>4 DEF Minting, SequenceOrder
<1>6. /\ hand'[t] = m /\ pc'[t] = "posting"
      /\ \A u \in Threads \ {t} : hand'[u] = hand[u] /\ pc'[u] = pc[u]
  BY <1>1 DEF TypeOK
<1>7. NothingInvented'
  BY <1>1, <1>6 DEF NothingInvented
<1>8. QueueKeyed'
  BY <1>1 DEF QueueKeyed
<1>9. BatchTracks'
  <2>1. t = "main" => flush = "no"
    BY ThreadFacts DEF Live
  <2>2. flush # "no" => pc'["main"] = pc["main"] /\ hand'["main"] = hand["main"]
    BY <1>6, <2>1, ThreadFacts
  <2>. QED
    BY <1>1, <2>2, ThreadFacts DEF BatchTracks, Oldest, TypeOK
<1>10. LiveIsNew'
  <2>1. \A r \in rows \cup batch : r.msg # m
    BY <1>4 DEF NothingInvented
  <2>2. \A u \in Threads \ {t} : pc[u] # "ready" => hand[u] # m
    BY <1>4 DEF NothingInvented
  <2>3. \A u \in Threads : Live(u)' <=> Live(u)
    BY <1>1 DEF Live
  <2>4. \A u \in Threads : Live(u)' /\ pc'[u] # "ready" => \A r \in rows \cup batch : r.msg # hand'[u]
    BY <1>6, <2>1, <2>3 DEF LiveIsNew
  <2>5. pc'["main"] # "ready" /\ pc'["http"] # "ready" => hand'["main"] # hand'["http"]
    BY <1>6, <2>2, ThreadFacts
  <2>. QED
    BY <1>1, <2>4, <2>5 DEF LiveIsNew
<1>11. Recording'
  <2>1. \A u \in Threads : pc'[u] = "accepted" => pc[u] = "accepted" /\ hand'[u] = hand[u]
    BY <1>6
  <2>2. uid + 1 \in 0..MaxMessages /\ effects[uid + 1] = 0 /\ uid + 1 \notin marks
    BY <1>1, <1>2, DeliveryAssumption DEF Recording
  <2>3. \A u \in 0..MaxMessages : u > uid + 1 => u > uid
    BY <1>2
  <2>. QED
    BY <1>1, <1>3, <2>1, <2>2, <2>3 DEF Recording
<1>. QED
  BY <1>5, <1>7, <1>8, <1>9, <1>10, <1>11 DEF Consistent

(* A message that was sent leaves the hand.                                 *)
LEMMA SentKeeps ==
  ASSUME Bookkeeping, NEW t \in Threads, Sent(t)
  PROVE  Consistent'
<1>. USE DEF Bookkeeping
<1>1. /\ pc' = [pc EXCEPT ![t] = "ready"] /\ hand' = [hand EXCEPT ![t] = Nobody]
      /\ UNCHANGED <<rows, nextId, seq, uid, minted, batch, late, marks, effects>>
      /\ pc[t] = "accepted" /\ Live(t)
      /\ flush' = flush \/ (t = "main" /\ flush' = "read")
  BY DEF Sent, Finish, idVars, queueVars, netVars, serverVars
<1>2. /\ pc'[t] = "ready"
      /\ \A u \in Threads \ {t} : hand'[u] = hand[u] /\ pc'[u] = pc[u]
  BY <1>1 DEF TypeOK
<1>3. Minting' /\ NothingInvented' /\ QueueKeyed'
  BY <1>1, <1>2 DEF Minting, SequenceOrder, NothingInvented, QueueKeyed
<1>4. BatchTracks'
  <2>1. CASE t = "main"
    <3>1. flush = "no" /\ batch = {} /\ pc'["main"] = "ready" /\ flush' # "send"
      BY <1>1, <1>2, <2>1 DEF Live, BatchTracks
    <3>. QED
      BY <1>1, <3>1 DEF BatchTracks
  <2>2. CASE t = "http"
    <3>1. flush' = flush /\ pc'["main"] = pc["main"] /\ hand'["main"] = hand["main"]
      BY <1>1, <1>2, <2>2, ThreadFacts
    <3>. QED
      BY <1>1, <3>1 DEF BatchTracks, Oldest
  <2>. QED
    BY <2>1, <2>2, ThreadFacts
<1>5. LiveIsNew'
  BY <1>1, <1>2, ThreadFacts DEF LiveIsNew, Live
<1>6. Recording'
  BY <1>1, <1>2 DEF Recording
<1>. QED
  BY <1>3, <1>4, <1>5, <1>6 DEF Consistent

(* A message whose sending failed goes into the table under a new row id,   *)
(* where neither it nor an older row of its was.                            *)
LEMMA QueueKeeps ==
  ASSUME Bookkeeping, NEW t \in Threads, Queue(t)
  PROVE  Consistent'
<1>. USE DEF Bookkeeping
<1>. DEFINE m == hand[t]
            new == [id |-> nextId, msg |-> m, due |-> TRUE]
<1>1. /\ pc[t] = "failed" /\ Live(t) /\ Enqueue(m)
      /\ pc' = [pc EXCEPT ![t] = "ready"] /\ hand' = [hand EXCEPT ![t] = Nobody]
      /\ UNCHANGED <<uid, minted, flush, batch, late, marks, effects>>
  BY DEF Queue, Finish, netVars, serverVars
<1>2. m \in Messages /\ m \in minted /\ \A r \in rows \cup batch : r.msg # m
  BY <1>1 DEF TypeOK, NothingInvented, LiveIsNew
<1>3. /\ rows' = Trimmed(m) \cup {new} /\ nextId' = nextId + 1 /\ seq' = seq + 1
  BY <1>1, <1>2, EnqueueFacts
<1>4. /\ Trimmed(m) \subseteq rows
      /\ \A r \in rows : r \in Trimmed(m) \/ IsTelemetry(r.msg)
  BY TrimmedFacts
<1>5. nextId \in Nat /\ seq \in Nat /\ \A r \in rows \cup batch : r.id \in Nat /\ r.id < nextId
  BY DEF TypeOK, Rows, QueueKeyed
<1>6. /\ pc'[t] = "ready"
      /\ \A u \in Threads \ {t} : hand'[u] = hand[u] /\ pc'[u] = pc[u]
  BY <1>1 DEF TypeOK
<1>7. new.id = nextId /\ new.msg = m
  OBVIOUS
<1>. HIDE DEF m, new
<1>8. Minting'
  <2>1. \A n \in minted : n.seq \in Nat /\ (n.seq <= seq => n.seq <= seq + 1)
    BY <1>5 DEF TypeOK, Messages
  <2>. QED
    BY <1>1, <1>3, <2>1 DEF Minting, SequenceOrder
<1>9. NothingInvented'
  BY <1>1, <1>2, <1>3, <1>4, <1>6, <1>7 DEF NothingInvented
<1>10. QueueKeyed'
  <2>1. IsFiniteSet(rows')
    BY <1>3, <1>4, FS_Subset, FS_AddElement DEF QueueKeyed
  <2>2. \A r \in rows' \cup batch' : r.id < nextId'
    BY <1>1, <1>3, <1>4, <1>5, <1>7
  <2>3. \A r, q \in rows' : r.id = q.id \/ r.msg = q.msg => r = q
    BY <1>2, <1>3, <1>4, <1>5, <1>7 DEF QueueKeyed
  <2>. QED
    BY <1>1, <2>1, <2>2, <2>3 DEF QueueKeyed
<1>11. BatchTracks'
  <2>1. \A b \in batch, r \in rows' : b.id = r.id <=> b.msg = r.msg
    BY <1>2, <1>3, <1>4, <1>5, <1>7 DEF BatchTracks
  <2>2. \A b \in batch : IsTelemetry(b.msg) \/ \E r \in rows' : r.id = b.id
    <3>1. SUFFICES ASSUME NEW b \in batch, NEW r \in rows, r.id = b.id
                   PROVE  IsTelemetry(b.msg) \/ r \in rows'
      BY DEF BatchTracks
    <3>2. r.msg = b.msg
      BY <3>1 DEF BatchTracks
    <3>. QED
      BY <1>3, <1>4, <3>2
  <2>3. flush # "no" => pc'["main"] = pc["main"] /\ hand'["main"] = hand["main"]
    BY <1>1, <1>6, ThreadFacts DEF Live
  <2>4. flush = "no" => batch = {}
    BY DEF BatchTracks
  <2>. QED
    BY <1>1, <2>1, <2>2, <2>3, <2>4 DEF BatchTracks, Oldest, TypeOK
<1>12. LiveIsNew'
  <2>1. ASSUME NEW u \in Threads, Live(u)', pc'[u] # "ready"
        PROVE  \A r \in rows' \cup batch' : r.msg # hand'[u]
    <3>1. u # t /\ Live(u) /\ pc[u] # "ready" /\ hand'[u] = hand[u]
      BY <1>1, <1>6, <2>1 DEF Live
    <3>2. hand[u] # m
      BY <1>1, <3>1, ThreadFacts DEF LiveIsNew, m
    <3>. QED
      BY <1>1, <1>3, <1>4, <1>7, <3>1, <3>2 DEF LiveIsNew
  <2>2. pc'["main"] # "ready" /\ pc'["http"] # "ready" => hand'["main"] # hand'["http"]
    BY <1>6, ThreadFacts
  <2>. QED
    BY <2>1, <2>2 DEF LiveIsNew
<1>13. Recording'
  BY <1>1, <1>6 DEF Recording
<1>. QED
  BY <1>8, <1>9, <1>10, <1>11, <1>12, <1>13 DEF Consistent

-----------------------------------------------------------------------------
(* What recording a message changes at the server.                          *)
LEMMA RecordFacts ==
  ASSUME Bookkeeping, NEW m \in minted, Record(m)
  PROVE  /\ \A u \in 0..MaxMessages : effects[u] > 0 => effects'[u] > 0
         /\ Accepts(m) => effects'[m.uid] > 0
         /\ \A u \in 0..MaxMessages : u > uid => effects'[u] = 0 /\ u \notin marks'
         /\ \A n \in minted : IsEnvelope(n) =>
               effects'[n.uid] = IF n.uid \in marks' THEN 1 ELSE 0
         /\ \A n \in minted : n.uid \in marks' => IsEnvelope(n)
<1>. USE DEF Bookkeeping
<1>1. /\ m.uid \in 0..MaxMessages /\ m.uid <= uid /\ uid \in Nat
      /\ \A n \in minted : n.uid \in 0..MaxMessages /\ (n.uid = m.uid => n = m)
  BY DeliveryAssumption DEF Minting, TypeOK, Messages
<1>2. \A u \in 0..MaxMessages : effects[u] \in 0..2 /\ u \in Nat
  BY DEF TypeOK, EffectCap
<1>3. CASE ~Accepts(m) \/ m.uid \in marks
  <2>1. UNCHANGED <<marks, effects>>
    BY <1>3 DEF Record
  <2>. QED
    BY <1>1, <1>3, <2>1 DEF Recording
<1>4. CASE Accepts(m) /\ m.uid \notin marks
  <2>1. /\ marks' = IF IsEnvelope(m) THEN marks \cup {m.uid} ELSE marks
        /\ effects' = [effects EXCEPT ![m.uid] =
                         IF @ < EffectCap THEN @ + 1 ELSE @]
    BY <1>4 DEF Record
  <2>2. /\ \A u \in (0..MaxMessages) \ {m.uid} : effects'[u] = effects[u]
        /\ effects'[m.uid] = IF effects[m.uid] < 2 THEN effects[m.uid] + 1 ELSE effects[m.uid]
    BY <1>1, <2>1 DEF TypeOK, EffectCap
  <2>3. effects'[m.uid] > 0
    BY <1>1, <1>2, <2>2
  <2>4. IsEnvelope(m) => effects'[m.uid] = 1
    BY <1>1, <1>4, <2>2 DEF Recording
  <2>5. \A u \in 0..MaxMessages : u > uid => effects'[u] = 0 /\ u \notin marks'
    BY <1>1, <2>1, <2>2 DEF Recording
  <2>6. \A n \in minted : IsEnvelope(n) =>
               effects'[n.uid] = IF n.uid \in marks' THEN 1 ELSE 0
    BY <1>1, <2>1, <2>2, <2>4 DEF Recording
  <2>7. \A n \in minted : n.uid \in marks' => IsEnvelope(n)
    BY <1>1, <2>1 DEF Recording
  <2>. QED
    BY <2>2, <2>3, <2>5, <2>6, <2>7
<1>. QED
  BY <1>3, <1>4

LEMMA IngestKeeps ==
  ASSUME Bookkeeping, NEW t \in Threads, Ingest(t)
  PROVE  Consistent'
<1>. USE DEF Bookkeeping
<1>1. /\ pc[t] = "posting" /\ hand[t] \in minted /\ Record(hand[t])
      /\ pc' = [pc EXCEPT ![t] = IF Accepts(hand[t]) THEN "accepted" ELSE "failed"]
      /\ UNCHANGED <<rows, nextId, seq, uid, minted, hand, flush, batch, late>>
  BY DEF Ingest, NothingInvented, idVars, queueVars, netVars
<1>2. /\ pc'[t] # "ready" /\ (pc'[t] = "accepted" => Accepts(hand[t]))
      /\ \A u \in Threads \ {t} : pc'[u] = pc[u]
  BY <1>1 DEF TypeOK
<1>3. \A u \in Threads : pc'[u] # "ready" <=> pc[u] # "ready"
  BY <1>1, <1>2
<1>4. Minting' /\ NothingInvented' /\ QueueKeyed'
  BY <1>1, <1>3 DEF Minting, SequenceOrder, NothingInvented, QueueKeyed
<1>5. BatchTracks'
  BY <1>1, <1>3, ThreadFacts DEF BatchTracks, Oldest
<1>6. LiveIsNew'
  BY <1>1, <1>3, ThreadFacts DEF LiveIsNew, Live
<1>7. Recording'
  <2>1. \A u \in Threads : pc'[u] = "accepted" => effects'[hand[u].uid] > 0
    <3>1. effects'[hand[t].uid] > 0 \/ ~Accepts(hand[t])
      BY <1>1, RecordFacts
    <3>2. \A u \in Threads \ {t} : pc[u] = "accepted" =>
             hand[u].uid \in 0..MaxMessages /\ effects[hand[u].uid] > 0
      <4>1. \A n \in minted : n.uid \in Nat /\ n.uid <= uid
        BY DEF Minting, TypeOK, Messages
      <4>2. \A n \in minted : n.uid \in 0..MaxMessages
        BY <4>1, DeliveryAssumption DEF TypeOK
      <4>3. \A u \in Threads : pc[u] = "accepted" => hand[u] \in minted
        BY DEF NothingInvented
      <4>. QED
        BY <4>2, <4>3 DEF Recording
    <3>. QED
      BY <1>1, <1>2, <3>1, <3>2, RecordFacts
  <2>. QED
    BY <1>1, <2>1, RecordFacts DEF Recording
<1>. QED
  BY <1>4, <1>5, <1>6, <1>7 DEF Consistent

(* The same for a request that arrives after its sender gave up.            *)
LEMMA ArriveKeeps ==
  ASSUME Bookkeeping, NEW m \in late, Arrive(m)
  PROVE  Consistent'
<1>. USE DEF Bookkeeping
<1>1. /\ m \in minted /\ Record(m) /\ late' = late \ {m}
      /\ UNCHANGED <<rows, nextId, seq, uid, minted, pc, hand, flush, batch>>
  BY DEF Arrive, NothingInvented, agentVars, idVars, queueVars
<1>2. Minting' /\ NothingInvented' /\ QueueKeyed'
  BY <1>1 DEF Minting, SequenceOrder, NothingInvented, QueueKeyed
<1>3. BatchTracks' /\ LiveIsNew'
  BY <1>1 DEF BatchTracks, Oldest, LiveIsNew, Live
<1>4. Recording'
  <2>1. \A u \in Threads : pc[u] = "accepted" =>
           hand[u].uid \in 0..MaxMessages /\ effects[hand[u].uid] > 0
    BY DeliveryAssumption DEF Recording, NothingInvented, Minting, TypeOK, Messages
  <2>. QED
    BY <1>1, <2>1, RecordFacts DEF Recording
<1>. QED
  BY <1>2, <1>3, <1>4 DEF Consistent

LEMMA GiveUpKeeps ==
  ASSUME Bookkeeping, NEW t \in Threads, GiveUp(t)
  PROVE  Consistent'
<1>. USE DEF Bookkeeping
<1>1. /\ pc[t] # "ready" /\ pc' = [pc EXCEPT ![t] = "failed"]
      /\ late' = late \/ late' = late \cup {hand[t]}
      /\ UNCHANGED <<rows, nextId, seq, uid, minted, hand, flush, batch, marks, effects>>
  BY DEF GiveUp, idVars, queueVars, serverVars
<1>2. /\ pc'[t] = "failed"
      /\ \A u \in Threads \ {t} : pc'[u] = pc[u]
      /\ \A u \in Threads : pc'[u] # "ready" <=> pc[u] # "ready"
  BY <1>1 DEF TypeOK
<1>3. Minting' /\ NothingInvented' /\ QueueKeyed'
  BY <1>1, <1>2 DEF Minting, SequenceOrder, NothingInvented, QueueKeyed
<1>4. BatchTracks'
  BY <1>1, <1>2, ThreadFacts DEF BatchTracks, Oldest
<1>5. LiveIsNew'
  BY <1>1, <1>2, ThreadFacts DEF LiveIsNew, Live
<1>6. Recording'
  BY <1>1, <1>2 DEF Recording
<1>. QED
  BY <1>3, <1>4, <1>5, <1>6 DEF Consistent

(* A crash empties the hands and the batch.                                 *)
LEMMA CrashKeeps ==
  ASSUME Bookkeeping, Crash
  PROVE  Consistent'
<1>. USE DEF Bookkeeping
<1>1. /\ pc' = [t \in Threads |-> "ready"] /\ batch' = {} /\ flush' = "no"
      /\ UNCHANGED <<rows, nextId, seq, uid, minted, marks, effects>>
      /\ late' \subseteq minted
  BY DEF Crash, NothingInvented, idVars, queueVars, serverVars
<1>2. Minting' /\ NothingInvented' /\ QueueKeyed'
  BY <1>1 DEF Minting, SequenceOrder, NothingInvented, QueueKeyed
<1>3. BatchTracks'
  BY <1>1, FS_EmptySet DEF BatchTracks
<1>4. LiveIsNew' /\ Recording'
  BY <1>1, ThreadFacts DEF LiveIsNew, Recording
<1>. QED
  BY <1>2, <1>3, <1>4 DEF Consistent

-----------------------------------------------------------------------------
LEMMA FlushReadKeeps ==
  ASSUME Bookkeeping, FlushRead
  PROVE  Consistent'
<1>. USE DEF Bookkeeping
<1>1. /\ flush = "read" /\ flush' = "send" /\ pc["main"] = "ready"
      /\ batch' \subseteq rows
      /\ UNCHANGED <<rows, nextId, seq, uid, minted, pc, hand, late, marks, effects>>
  BY DEF FlushRead, Pending, Oldest, BatchTracks, idVars, queueVars, netVars, serverVars
<1>2. Minting' /\ NothingInvented' /\ Recording'
  BY <1>1 DEF Minting, SequenceOrder, NothingInvented, Recording
<1>3. QueueKeyed'
  BY <1>1 DEF QueueKeyed
<1>4. BatchTracks'
  BY <1>1, FS_Subset DEF BatchTracks, QueueKeyed
<1>5. LiveIsNew'
  <2>1. \A t \in Threads : Live(t)' => Live(t) \/ pc[t] = "ready"
    BY <1>1, ThreadFacts DEF Live
  <2>. QED
    BY <1>1, <2>1 DEF LiveIsNew
<1>. QED
  BY <1>2, <1>3, <1>4, <1>5 DEF Consistent

LEMMA FlushPostKeeps ==
  ASSUME Bookkeeping, FlushPost
  PROVE  Consistent'
<1>. USE DEF Bookkeeping
<1>1. PICK r \in Oldest(batch, 1) :
        /\ hand' = [hand EXCEPT !["main"] = r.msg]
        /\ pc' = [pc EXCEPT !["main"] = IF r.msg.kind = "legacy" THEN "failed"
                                                                 ELSE "posting"]
  BY DEF FlushPost
<1>2. /\ flush = "send" /\ pc["main"] = "ready"
      /\ UNCHANGED <<rows, nextId, seq, uid, minted, flush, batch, late, marks, effects>>
  BY DEF FlushPost, idVars, queueVars, netVars, serverVars
<1>3. r \in batch /\ r.msg \in minted
  BY OldestIsLeast DEF BatchTracks, NothingInvented
<1>4. /\ hand'["main"] = r.msg /\ pc'["main"] \in {"posting", "failed"}
      /\ hand'["http"] = hand["http"] /\ pc'["http"] = pc["http"]
  BY <1>1, ThreadFacts DEF TypeOK
<1>5. Minting' /\ NothingInvented' /\ QueueKeyed'
  BY <1>2, <1>3, <1>4, ThreadFacts DEF Minting, SequenceOrder, NothingInvented, QueueKeyed
<1>6. BatchTracks'
  BY <1>2, <1>4 DEF BatchTracks, Oldest
<1>7. LiveIsNew'
  BY <1>2, <1>3, <1>4, ThreadFacts DEF LiveIsNew, Live
<1>8. Recording'
  BY <1>2, <1>4, ThreadFacts DEF Recording
<1>. QED
  BY <1>5, <1>6, <1>7, <1>8 DEF Consistent

LEMMA FlushSentKeeps ==
  ASSUME Bookkeeping, FlushSent
  PROVE  Consistent'
<1>. USE DEF Bookkeeping
<1>1. PICK r \in Oldest(batch, 1) : /\ rows' = {s \in rows : s.id # r.id}
                                    /\ batch' = batch \ {r}
  BY DEF FlushSent
<1>2. /\ flush = "send"
      /\ pc' = [pc EXCEPT !["main"] = "ready"] /\ hand' = [hand EXCEPT !["main"] = Nobody]
      /\ UNCHANGED <<nextId, seq, uid, minted, flush, late, marks, effects>>
  BY DEF FlushSent, Finish, idVars, netVars, serverVars
<1>3. r \in batch
  BY OldestIsLeast DEF BatchTracks
<1>4. /\ pc'["main"] = "ready"
      /\ hand'["http"] = hand["http"] /\ pc'["http"] = pc["http"]
  BY <1>2, ThreadFacts DEF TypeOK
<1>5. Minting' /\ NothingInvented'
  BY <1>1, <1>2, <1>4, ThreadFacts DEF Minting, SequenceOrder, NothingInvented
<1>6. QueueKeyed'
  BY <1>1, <1>2, FS_Subset DEF QueueKeyed
<1>7. BatchTracks'
  <2>1. IsFiniteSet(batch')
    BY <1>1, FS_RemoveElement DEF BatchTracks
  <2>2. \A b \in batch' : b.id # r.id
    BY <1>1, <1>3 DEF QueueKeyed
  <2>. QED
    BY <1>1, <1>2, <1>4, <2>1, <2>2 DEF BatchTracks
<1>8. LiveIsNew'
  BY <1>1, <1>2, <1>4, ThreadFacts DEF LiveIsNew, Live
<1>9. Recording'
  BY <1>2, <1>4, ThreadFacts DEF Recording
<1>. QED
  BY <1>5, <1>6, <1>7, <1>8, <1>9 DEF Consistent

(* Only the due flag of some rows changes.                                  *)
DueFlagsOnly ==
  \E i \in Nat, d \in BOOLEAN :
     rows' = {IF s.id = i THEN [s EXCEPT !.due = d] ELSE s : s \in rows}

LEMMA DueFlagFacts ==
  ASSUME TypeOK, QueueKeyed, DueFlagsOnly
  PROVE  /\ IsFiniteSet(rows')
         /\ \A r \in rows' : \E s \in rows : s.id = r.id /\ s.msg = r.msg
         /\ \A s \in rows : \E r \in rows' : s.id = r.id /\ s.msg = r.msg
         /\ \A r, s \in rows' : r.id = s.id \/ r.msg = s.msg => r = s
<1>1. PICK i \in Nat, d \in BOOLEAN :
        rows' = {IF s.id = i THEN [s EXCEPT !.due = d] ELSE s : s \in rows}
  BY DEF DueFlagsOnly
<1>. DEFINE f == [s \in rows |-> IF s.id = i THEN [s EXCEPT !.due = d] ELSE s]
<1>2. \A s \in rows : s \in Rows /\ f[s].id = s.id /\ f[s].msg = s.msg
  BY DEF TypeOK, Rows
<1>3. \A r \in rows' : \E s \in rows : r = f[s]
  BY <1>1
<1>4. \A s \in rows : f[s] \in rows'
  BY <1>1
<1>5. IsFiniteSet(rows')
  <2>1. f \in Surjection(rows, rows')
    BY <1>3, <1>4 DEF Surjection
  <2>. QED
    BY <2>1, FS_Surjection DEF QueueKeyed
<1>. HIDE DEF f
<1>6. \A r, s \in rows' : r.id = s.id \/ r.msg = s.msg => r = s
  BY <1>2, <1>3 DEF QueueKeyed
<1>. QED
  BY <1>2, <1>3, <1>4, <1>5, <1>6

(* Such a step, which may empty the batch and the hand of the main thread.  *)
LEMMA DueFlagKeeps ==
  ASSUME Bookkeeping, DueFlagsOnly,
         UNCHANGED <<nextId, seq, uid, minted, late, marks, effects>>,
         \/ UNCHANGED <<pc, hand, flush, batch>>
         \/ /\ batch' = {} /\ flush' = "no" /\ pc'["main"] = "ready"
            /\ hand'["http"] = hand["http"] /\ pc'["http"] = pc["http"]
  PROVE  Consistent'
<1>. USE ThreadFacts DEF Bookkeeping
<1>1. /\ IsFiniteSet(rows')
      /\ \A r \in rows' : \E s \in rows : s.id = r.id /\ s.msg = r.msg
      /\ \A s \in rows : \E r \in rows' : s.id = r.id /\ s.msg = r.msg
      /\ \A r, s \in rows' : r.id = s.id \/ r.msg = s.msg => r = s
  BY DueFlagFacts
<1>2. batch' \subseteq batch
  OBVIOUS
<1>3. \A t \in Threads : pc'[t] # "ready" =>
         pc[t] = pc'[t] /\ hand'[t] = hand[t] /\ (Live(t)' => Live(t))
  BY DEF Live
<1>4. Minting' /\ Recording'
  BY <1>3 DEF Minting, SequenceOrder, Recording
<1>5. NothingInvented'
  BY <1>1, <1>2, <1>3 DEF NothingInvented
<1>6. QueueKeyed'
  BY <1>1, <1>2 DEF QueueKeyed
<1>7. BatchTracks'
  <2>1. \A b \in batch', r \in rows' : b.id = r.id <=> b.msg = r.msg
    BY <1>1, <1>2 DEF BatchTracks
  <2>2. \A b \in batch' : IsTelemetry(b.msg) \/ \E r \in rows' : r.id = b.id
    BY <1>1, <1>2 DEF BatchTracks
  <2>3. CASE UNCHANGED <<pc, hand, flush, batch>>
    BY <2>1, <2>2, <2>3 DEF BatchTracks, Oldest
  <2>4. CASE batch' = {} /\ flush' = "no" /\ pc'["main"] = "ready"
    BY <2>1, <2>2, <2>4, FS_EmptySet DEF BatchTracks
  <2>. QED
    BY <2>3, <2>4
<1>8. LiveIsNew'
  BY <1>1, <1>2, <1>3 DEF LiveIsNew
<1>. QED
  BY <1>4, <1>5, <1>6, <1>7, <1>8 DEF Consistent

LEMMA FlushFailedKeeps ==
  ASSUME Bookkeeping, FlushFailed
  PROVE  Consistent'
<1>. USE DEF Bookkeeping
<1>1. DueFlagsOnly
  <2>1. PICK r \in Oldest(batch, 1) : rows' = Deferred(r)
    BY DEF FlushFailed
  <2>2. r.id \in Nat
    BY OldestIsLeast DEF BatchTracks, TypeOK, Rows
  <2>. QED
    BY <2>1, <2>2 DEF Deferred, DueFlagsOnly
<1>2. /\ batch' = {} /\ flush' = "no"
      /\ pc' = [pc EXCEPT !["main"] = "ready"] /\ hand' = [hand EXCEPT !["main"] = Nobody]
      /\ UNCHANGED <<nextId, seq, uid, minted, late, marks, effects>>
  BY DEF FlushFailed, Finish, LeaveFlush, idVars, netVars, serverVars
<1>3. /\ pc'["main"] = "ready"
      /\ hand'["http"] = hand["http"] /\ pc'["http"] = pc["http"]
  BY <1>2, ThreadFacts DEF TypeOK
<1>. QED
  BY <1>1, <1>2, <1>3, DueFlagKeeps

LEMMA RowDueKeeps ==
  ASSUME Bookkeeping, NEW i \in 1..(MaxMessages + 1), RowDue(i)
  PROVE  Consistent'
<1>1. DueFlagsOnly
  <2>1. rows' = {IF s.id = i THEN [s EXCEPT !.due = TRUE] ELSE s : s \in rows}
    BY DEF RowDue
  <2>2. i \in Nat /\ TRUE \in BOOLEAN
    BY DeliveryAssumption
  <2>. QED
    BY <2>1, <2>2 DEF DueFlagsOnly
<1>2. UNCHANGED <<nextId, seq, uid, minted, late, marks, effects, pc, hand, flush, batch>>
  BY DEF RowDue, agentVars, idVars, netVars, serverVars
<1>. QED
  BY <1>1, <1>2, DueFlagKeeps

-----------------------------------------------------------------------------
LEMMA ConsistentStep == Bookkeeping /\ [Next]_vars => Consistent'
<1>. SUFFICES ASSUME Bookkeeping, [Next]_vars PROVE Consistent'
  OBVIOUS
<1>. USE DEF Bookkeeping
<1>1. CASE MakeMain
  <2>1. stage \in 1..6 /\ Cycle[stage] \in Kinds \ {"legacy"}
    BY StageFacts DEF Cycle, Kinds, TypeOK
  <2>. QED
    BY <1>1, <2>1, MakeKeeps, ThreadFacts DEF MakeMain, Live
<1>2. CASE MakeHttp
  BY <1>2, MakeKeeps, ThreadFacts DEF MakeHttp, Live, Kinds
<1>3. CASE Skip \/ GateOpens \/ Supersede \/ LinkDown \/ LinkUp \/ UNCHANGED vars
  BY <1>3, ControlKeeps
  DEF Skip, GateOpens, Supersede, LinkDown, LinkUp, vars, agentVars, idVars, queueVars,
      netVars, serverVars
<1>4. CASE Probe \/ FlushClosed \/ FlushDone
  BY <1>4, ControlKeeps
  DEF Probe, FlushClosed, FlushDone, BatchTracks, idVars, queueVars, netVars, serverVars
<1>5. ASSUME NEW t \in Threads, Sent(t) \/ Queue(t) \/ Ingest(t) \/ GiveUp(t)
      PROVE  Consistent'
  BY <1>5, SentKeeps, QueueKeeps, IngestKeeps, GiveUpKeeps
<1>6. CASE FlushRead \/ FlushPost \/ FlushSent \/ FlushFailed
  BY <1>6, FlushReadKeeps, FlushPostKeeps, FlushSentKeeps, FlushFailedKeeps
<1>7. CASE \E i \in 1..(MaxMessages + 1) : RowDue(i)
  BY <1>7, RowDueKeeps
<1>8. CASE \E m \in late : Arrive(m)
  BY <1>8, ArriveKeeps
<1>9. CASE Crash
  BY <1>9, CrashKeeps
<1>. QED
  BY <1>1, <1>2, <1>3, <1>4, <1>5, <1>6, <1>7, <1>8, <1>9, NextCases

(* The invariant holds in every state of the delivery path.                 *)
THEOREM SpecBookkeeping == Spec => []Bookkeeping
<1>1. Bookkeeping /\ [Next]_vars => Bookkeeping'
  BY TypeStep, ConsistentStep DEF Bookkeeping, Consistent
<1>. QED
  BY BookkeepingInit, <1>1, PTL DEF Spec

(* Every variable of the delivery path has its type in every state.         *)
THEOREM SpecTypeOK == Spec => []TypeOK
<1>1. Bookkeeping => TypeOK
  BY DEF Bookkeeping
<1>. QED
  BY SpecBookkeeping, <1>1, PTL

(* However often a message is sent, queued, flushed again or arrives late,  *)
(* and however often the agent restarts, ingest records it at most once.    *)
THEOREM SpecRecordedOnce == Spec => []RecordedOnce
<1>1. Bookkeeping => RecordedOnce
  BY DEF Bookkeeping, Recording, RecordedOnce
<1>. QED
  BY SpecBookkeeping, <1>1, PTL

(* No two messages share a sequence number, and numbers follow the order of *)
(* creation, over restarts and with both threads drawing numbers.           *)
THEOREM SpecSequenceOrder == Spec => []SequenceOrder
<1>1. Bookkeeping => SequenceOrder
  BY DEF Bookkeeping, Minting
<1>. QED
  BY SpecBookkeeping, <1>1, PTL

-----------------------------------------------------------------------------
(* A nonempty finite set of rows has an oldest one.                         *)
LEMMA OldestExists ==
  ASSUME NEW S, S \subseteq Rows, S # {}
  PROVE  \E r \in S : \A s \in S : r.id <= s.id
<1>. DEFINE ids == {s.id : s \in S}
            LessThan == {p \in Nat \X Nat : p[1] < p[2]}
<1>1. ids \subseteq Nat /\ ids # {}
  BY DEF Rows
<1>2. PICK i \in ids : \A j \in ids : <<j, i>> \notin LessThan
  <2>1. LessThan = OpToRel(<, Nat)
    BY DEF OpToRel
  <2>2. IsWellFoundedOn(LessThan, Nat)
    BY <2>1, NatLessThanWellFounded
  <2>. QED
    BY <1>1, <2>2, WFMin
<1>3. ASSUME NEW j \in ids PROVE i <= j
  <2>1. i \in Nat /\ j \in Nat /\ <<j, i>> \in Nat \X Nat
    BY <1>1
  <2>2. ~(j < i)
    BY <1>2, <2>1
  <2>. QED
    BY <2>1, <2>2
<1>. QED
  BY <1>3

(* Trimming leaves room for one more telemetry row.                         *)
LEMMA TrimMakesRoom ==
  ASSUME TypeOK, QueueKeyed, TelemetryBound, NEW m, IsTelemetry(m)
  PROVE  /\ IsFiniteSet({r \in Trimmed(m) : IsTelemetry(r.msg)})
         /\ Cardinality({r \in Trimmed(m) : IsTelemetry(r.msg)}) + 1 <= MaxQueue
<1>. DEFINE T == TelemetryRows
            n == Cardinality(T) + 1 - MaxQueue
            kept == {r \in Trimmed(m) : IsTelemetry(r.msg)}
<1>1. T \subseteq rows /\ T \subseteq Rows
  BY DEF TelemetryRows, TypeOK
<1>2. IsFiniteSet(T) /\ Cardinality(T) \in Nat /\ Cardinality(T) <= MaxQueue
  BY <1>1, FS_Subset, FS_CardinalityType DEF QueueKeyed, TelemetryBound
<1>3. MaxQueue \in Nat
  BY DeliveryAssumption
<1>4. kept = T \ Oldest(T, n)
  BY DEF Trimmed, TelemetryRows
<1>5. CASE Cardinality(T) < MaxQueue
  <2>1. IsFiniteSet(kept) /\ Cardinality(kept) <= Cardinality(T) /\ Cardinality(kept) \in Nat
    BY <1>2, <1>4, FS_Subset, FS_CardinalityType
  <2>. QED
    BY <1>2, <1>3, <1>5, <2>1
<1>6. CASE Cardinality(T) = MaxQueue
  <2>1. n = 1
    BY <1>3, <1>6
  <2>2. T # {}
    BY <1>6, DeliveryAssumption, FS_EmptySet
  <2>3. PICK r \in T : \A s \in T : r.id <= s.id
    BY <1>1, <2>2, OldestExists
  <2>4. {s \in T : s.id < r.id} = {}
    BY <1>1, <2>3 DEF Rows
  <2>5. r \in Oldest(T, 1)
    BY <2>4, FS_EmptySet DEF Oldest
  <2>6. kept \subseteq T \ {r}
    BY <1>4, <2>1, <2>5
  <2>7. IsFiniteSet(T \ {r}) /\ Cardinality(T \ {r}) = Cardinality(T) - 1
    BY <1>2, FS_RemoveElement
  <2>8. IsFiniteSet(kept) /\ Cardinality(kept) <= Cardinality(T \ {r}) /\ Cardinality(kept) \in Nat
    BY <2>6, <2>7, FS_Subset, FS_CardinalityType
  <2>. QED
    BY <1>2, <1>3, <1>6, <2>7, <2>8
<1>. QED
  BY <1>2, <1>3, <1>5, <1>6

LEMMA TelemetryBoundInit == Init => TelemetryBound
<1>. SUFFICES ASSUME Init PROVE TelemetryBound
  OBVIOUS
<1>1. \A r \in rows : r.msg = Migrated
  BY DEF Init
<1>2. ~IsTelemetry(Migrated)
  BY DEF IsTelemetry, TelemetryKinds, Migrated
<1>3. TelemetryRows = {}
  BY <1>1, <1>2 DEF TelemetryRows
<1>. QED
  BY <1>3, FS_EmptySet, DeliveryAssumption DEF TelemetryBound

(* Fewer telemetry rows, or the same with other flags, stay within the bound.*)
LEMMA NoMoreTelemetry ==
  ASSUME TypeOK, QueueKeyed, TelemetryBound, rows' \subseteq rows \/ DueFlagsOnly
  PROVE  TelemetryBound'
<1>1. IsFiniteSet(TelemetryRows) /\ Cardinality(TelemetryRows) \in Nat
  BY FS_Subset, FS_CardinalityType DEF TelemetryRows, QueueKeyed
<1>2. IsFiniteSet(TelemetryRows') /\ Cardinality(TelemetryRows') <= Cardinality(TelemetryRows)
  <2>1. CASE rows' \subseteq rows
    <3>1. TelemetryRows' \subseteq TelemetryRows
      BY <2>1 DEF TelemetryRows, IsTelemetry
    <3>. QED
      BY <1>1, <3>1, FS_Subset
  <2>2. CASE DueFlagsOnly
    <3>1. PICK i \in Nat, d \in BOOLEAN :
            rows' = {IF s.id = i THEN [s EXCEPT !.due = d] ELSE s : s \in rows}
      BY <2>2 DEF DueFlagsOnly
    <3>. DEFINE f == [s \in TelemetryRows |-> IF s.id = i THEN [s EXCEPT !.due = d] ELSE s]
    <3>2. \A s \in rows : /\ (IF s.id = i THEN [s EXCEPT !.due = d] ELSE s).msg = s.msg
      BY DEF TypeOK, Rows
    <3>3. \A r \in TelemetryRows' : \E s \in TelemetryRows : r = f[s]
      BY <3>1, <3>2 DEF TelemetryRows, IsTelemetry
    <3>4. \A s \in TelemetryRows : f[s] \in TelemetryRows'
      BY <3>1, <3>2 DEF TelemetryRows, IsTelemetry
    <3>5. f \in Surjection(TelemetryRows, TelemetryRows')
      BY <3>3, <3>4 DEF Surjection
    <3>. QED
      BY <1>1, <3>5, FS_Surjection
  <2>. QED
    BY <2>1, <2>2
<1>3. Cardinality(TelemetryRows') \in Nat
  BY <1>2, FS_CardinalityType
<1>. QED
  BY <1>1, <1>2, <1>3, DeliveryAssumption DEF TelemetryBound

LEMMA QueueKeepsBound ==
  ASSUME Bookkeeping, TelemetryBound, NEW t \in Threads, Queue(t)
  PROVE  TelemetryBound'
<1>. USE DEF Bookkeeping
<1>. DEFINE m == hand[t]
            new == [id |-> nextId, msg |-> m, due |-> TRUE]
<1>1. /\ m \in Messages /\ Enqueue(m) /\ \A r \in rows : r.msg # m
  BY DEF Queue, TypeOK, LiveIsNew
<1>2. rows' = Trimmed(m) \cup {new} /\ new.msg = m
  BY <1>1, EnqueueFacts
<1>. HIDE DEF m, new
<1>3. CASE IsTelemetry(m)
  <2>. DEFINE kept == {r \in Trimmed(m) : IsTelemetry(r.msg)}
  <2>1. TelemetryRows' = kept \cup {new}
    BY <1>2, <1>3 DEF TelemetryRows, IsTelemetry
  <2>2. IsFiniteSet(kept) /\ Cardinality(kept) + 1 <= MaxQueue /\ Cardinality(kept) \in Nat
    BY <1>3, TrimMakesRoom, FS_CardinalityType
  <2>3. Cardinality(kept \cup {new}) = IF new \in kept THEN Cardinality(kept)
                                                      ELSE Cardinality(kept) + 1
    BY <2>2, FS_AddElement
  <2>. QED
    BY <2>1, <2>2, <2>3, DeliveryAssumption DEF TelemetryBound
<1>4. CASE ~IsTelemetry(m)
  <2>1. Trimmed(m) = rows
    BY <1>4 DEF Trimmed
  <2>2. TelemetryRows' = TelemetryRows
    BY <1>2, <1>4, <2>1 DEF TelemetryRows, IsTelemetry
  <2>. QED
    BY <2>2 DEF TelemetryBound
<1>. QED
  BY <1>3, <1>4

(* What a step may do to the table.                                         *)
LEMMA RowChanges ==
  ASSUME Bookkeeping, [Next]_vars
  PROVE  \/ rows' = rows
         \/ \E t \in Threads : Queue(t)
         \/ FlushSent
         \/ DueFlagsOnly
<1>1. CASE MakeMain \/ MakeHttp
  BY <1>1 DEF MakeMain, MakeHttp, Make, queueVars
<1>2. CASE Skip \/ Probe \/ FlushClosed \/ FlushRead \/ FlushPost \/ FlushDone \/ GateOpens
  BY <1>2 DEF Skip, Probe, FlushClosed, FlushRead, FlushPost, FlushDone, GateOpens, queueVars
<1>3. ASSUME NEW t \in Threads, Sent(t) \/ Ingest(t) \/ GiveUp(t)
      PROVE  rows' = rows
  BY <1>3 DEF Sent, Ingest, GiveUp, queueVars
<1>4. CASE FlushFailed
  <2>1. PICK r \in Oldest(batch, 1) : rows' = Deferred(r)
    BY <1>4 DEF FlushFailed
  <2>2. r.id \in Nat
    BY OldestIsLeast DEF BatchTracks, TypeOK, Rows, Bookkeeping
  <2>. QED
    BY <2>1, <2>2 DEF Deferred, DueFlagsOnly
<1>5. ASSUME NEW i \in 1..(MaxMessages + 1), RowDue(i)
      PROVE  DueFlagsOnly
  <2>1. rows' = {IF s.id = i THEN [s EXCEPT !.due = TRUE] ELSE s : s \in rows}
    BY <1>5 DEF RowDue
  <2>2. i \in Nat /\ TRUE \in BOOLEAN
    BY DeliveryAssumption
  <2>. QED
    BY <2>1, <2>2 DEF DueFlagsOnly
<1>6. ASSUME NEW m \in late, Arrive(m)
      PROVE  rows' = rows
  BY <1>6 DEF Arrive, queueVars
<1>7. CASE Supersede \/ LinkDown \/ LinkUp \/ Crash \/ UNCHANGED vars
  BY <1>7 DEF Supersede, LinkDown, LinkUp, Crash, vars, queueVars
<1>. QED
  BY <1>1, <1>2, <1>3, <1>4, <1>5, <1>6, <1>7, NextCases

(* enqueue_event keeps the telemetry rows within max_queue_size, for every  *)
(* size and however the two threads and a flush interleave.                 *)
THEOREM SpecTelemetryBound == Spec => []TelemetryBound
<1>1. Bookkeeping /\ TelemetryBound /\ [Next]_vars => TelemetryBound'
  <2>. SUFFICES ASSUME Bookkeeping, TelemetryBound, [Next]_vars PROVE TelemetryBound'
    OBVIOUS
  <2>1. TypeOK /\ QueueKeyed
    BY DEF Bookkeeping
  <2>2. CASE rows' = rows \/ DueFlagsOnly
    BY <2>1, <2>2, NoMoreTelemetry
  <2>3. CASE FlushSent
    <3>1. rows' \subseteq rows
      BY <2>3 DEF FlushSent
    <3>. QED
      BY <2>1, <3>1, NoMoreTelemetry
  <2>4. CASE \E t \in Threads : Queue(t)
    BY <2>4, QueueKeepsBound
  <2>. QED
    BY <2>2, <2>3, <2>4, RowChanges
<1>. QED
  BY TelemetryBoundInit, SpecBookkeeping, <1>1, PTL DEF Spec

-----------------------------------------------------------------------------
(* FlushSent takes out the row of the message that was accepted.            *)
LEMMA FlushSentFacts ==
  ASSUME Bookkeeping, FlushSent
  PROVE  \E r \in batch :
           /\ rows' = {s \in rows : s.id # r.id} /\ batch' = batch \ {r}
           /\ hand["main"] = r.msg /\ effects[r.msg.uid] > 0
           /\ \A s \in rows : s.id = r.id <=> s.msg = r.msg
<1>. USE DEF Bookkeeping
<1>1. PICK r \in Oldest(batch, 1) : /\ rows' = {s \in rows : s.id # r.id}
                                    /\ batch' = batch \ {r}
  BY DEF FlushSent
<1>2. flush = "send" /\ pc["main"] = "accepted"
  BY DEF FlushSent
<1>3. r \in batch
  BY OldestIsLeast DEF BatchTracks
<1>4. hand["main"] = r.msg
  BY <1>2, OldestUnique DEF BatchTracks
<1>5. effects[r.msg.uid] > 0
  BY <1>2, <1>4, ThreadFacts DEF Recording
<1>. QED
  BY <1>1, <1>3, <1>4, <1>5 DEF BatchTracks

(* A message that is not telemetry leaves the table only after the server   *)
(* has recorded it.                                                         *)
THEOREM SpecQueuedSurvives == Spec => QueuedSurvives
<1>. DEFINE Survives ==
       \A r \in rows : \/ IsTelemetry(r.msg)
                       \/ effects[r.msg.uid] > 0
                       \/ \E s \in rows' : s.id = r.id /\ s.msg = r.msg
<1>1. Bookkeeping /\ [Next]_vars => [Survives]_vars
  <2>. SUFFICES ASSUME Bookkeeping, [Next]_vars PROVE Survives
    OBVIOUS
  <2>1. CASE rows' = rows
    BY <2>1
  <2>2. CASE DueFlagsOnly
    BY <2>2, DueFlagFacts DEF Bookkeeping
  <2>3. CASE FlushSent
    BY <2>3, FlushSentFacts
  <2>4. ASSUME NEW t \in Threads, Queue(t) PROVE Survives
    <3>1. Trimmed(hand[t]) \subseteq rows'
      <4>1. hand[t] \in Messages /\ Enqueue(hand[t]) /\ \A r \in rows : r.msg # hand[t]
        BY <2>4 DEF Queue, Bookkeeping, TypeOK, LiveIsNew
      <4>. QED
        BY <4>1, EnqueueFacts DEF Bookkeeping
    <3>. QED
      BY <3>1, TrimmedFacts
  <2>. QED
    BY <2>1, <2>2, <2>3, <2>4, RowChanges
<1>. QED
  BY SpecBookkeeping, <1>1, PTL DEF Spec, QueuedSurvives

-----------------------------------------------------------------------------
(* The refinement mapping, as sets of messages.                             *)
Held == {hand[t] : t \in {u \in Threads : pc[u] # "ready"}} \cup {r.msg : r \in batch}
Kept == {r.msg : r \in rows}
Applied == {m \in minted : effects[m.uid] > 0}
TelemetryMessages == [uid : Nat, kind : TelemetryKinds, seq : Nat]

LEMMA MappedInit == Init => Promise!Init
<1>. SUFFICES ASSUME Init PROVE Promise!Init
  OBVIOUS
<1>1. Kept = minted
  <2>1. CASE rows = {} /\ minted = {}
    BY <2>1 DEF Kept
  <2>2. CASE /\ rows = {[id |-> 1, msg |-> Migrated, due |-> TRUE]}
             /\ minted = {Migrated}
    BY <2>2 DEF Kept
  <2>. QED
    BY <2>1, <2>2 DEF Init
<1>2. Held = {}
  BY DEF Init, Held
<1>3. Applied = {}
  BY DeliveryAssumption DEF Init, Applied, Migrated
<1>. QED
  BY <1>1, <1>2, <1>3 DEF Promise!Init, Kept, Held, Applied

(* The messages in memory: those in a hand and those of the batch.          *)
LEMMA HeldFacts ==
  /\ \A m : m \in Held <=> \/ \E t \in Threads : pc[t] # "ready" /\ hand[t] = m
                           \/ \E r \in batch : r.msg = m
  /\ \A m : m \in Held' <=> \/ \E t \in Threads : pc'[t] # "ready" /\ hand'[t] = m
                            \/ \E r \in batch' : r.msg = m
BY DEF Held

(* A thread that lets go of its message is the only one that had it.        *)
LEMMA HandReleased ==
  ASSUME Bookkeeping, NEW t \in Threads, Live(t), pc[t] # "ready", Finish(t),
         batch' = batch
  PROVE  hand[t] \in Held /\ Held' = Held \ {hand[t]} /\ hand[t] \notin Kept
<1>. USE DEF Bookkeeping
<1>1. /\ pc'[t] = "ready"
      /\ \A u \in Threads \ {t} : hand'[u] = hand[u] /\ pc'[u] = pc[u]
  BY DEF Finish, TypeOK
<1>2. \A u \in Threads \ {t} : pc[u] # "ready" => hand[u] # hand[t]
  BY ThreadFacts DEF LiveIsNew
<1>3. \A r \in rows \cup batch : r.msg # hand[t]
  BY DEF LiveIsNew
<1>4. \A m : m \in Held' <=> m \in Held /\ m # hand[t]
  BY <1>1, <1>2, <1>3, HeldFacts
<1>. QED
  BY <1>3, <1>4, HeldFacts DEF Kept

(* Recording a message at the server is an Apply or no change.              *)
LEMMA RecordMapped ==
  ASSUME Bookkeeping, NEW m \in minted, Record(m), minted' = minted
  PROVE  Applied' = Applied \/ Applied' = Applied \cup {m}
<1>. USE DEF Bookkeeping
<1>1. CASE UNCHANGED effects
  BY <1>1 DEF Applied
<1>2. CASE ~UNCHANGED effects
  <2>1. effects' = [effects EXCEPT ![m.uid] = IF @ < EffectCap THEN @ + 1 ELSE @]
    BY <1>2 DEF Record
  <2>2. /\ m.uid \in 0..MaxMessages
        /\ \A n \in minted : n.uid = m.uid => n = m
    BY DeliveryAssumption DEF Minting, TypeOK, Messages
  <2>3. Accepts(m)
    BY <1>2 DEF Record
  <2>4. effects'[m.uid] > 0
    BY <2>3, RecordFacts
  <2>5. \A n \in minted \ {m} : effects'[n.uid] = effects[n.uid]
    BY <2>1, <2>2 DEF TypeOK
  <2>. QED
    BY <2>4, <2>5 DEF Applied
<1>. QED
  BY <1>1, <1>2

-----------------------------------------------------------------------------
(* The steps of Next, each an action of the promise or a stutter.           *)
Mapped == <<minted, Held, Kept, Applied>>

PromiseStep == [Promise!Next]_(Promise!vars)

(* What each action of the promise says, in terms of the mapped sets.       *)
LEMMA PromiseActions ==
  /\ Mapped' = Mapped => PromiseStep
  /\ \A m : /\ m \in minted' \ minted /\ minted' = minted \cup {m}
            /\ Held' = Held \cup {m} /\ Kept' = Kept /\ Applied' = Applied
            => PromiseStep
  /\ \A m \in Held : \A S \in SUBSET (Kept \cap TelemetryMessages) :
       /\ Kept' = (Kept \ S) \cup {m} /\ Held' = Held \ {m}
       /\ minted' = minted /\ Applied' = Applied
       => PromiseStep
  /\ \A S \in SUBSET Kept :
       /\ Held' = Held \cup S
       /\ minted' = minted /\ Kept' = Kept /\ Applied' = Applied
       => PromiseStep
  /\ \A m \in minted :
       /\ Applied' = Applied \cup {m}
       /\ minted' = minted /\ Held' = Held /\ Kept' = Kept
       => PromiseStep
  /\ \A m \in Held \cap Applied :
       /\ Held' = Held \ {m} /\ Kept' = Kept \ {m}
       /\ minted' = minted /\ Applied' = Applied
       => PromiseStep
  /\ /\ Held' \subseteq Held /\ Held \ Held' \subseteq Kept \cup TelemetryMessages
     /\ minted' = minted /\ Kept' = Kept /\ Applied' = Applied
     => PromiseStep
  /\ /\ Held' = {}
     /\ minted' = minted /\ Kept' = Kept /\ Applied' = Applied
     => PromiseStep
<1>. USE DEF PromiseStep, Promise!Next, Promise!vars, Mapped, Held, Kept, Applied,
             TelemetryMessages
<1>1. Mapped' = Mapped => PromiseStep
  OBVIOUS
<1>2. \A m : /\ m \in minted' \ minted /\ minted' = minted \cup {m}
            /\ Held' = Held \cup {m} /\ Kept' = Kept /\ Applied' = Applied
            => PromiseStep
  BY DEF Promise!Mint
<1>3. \A m \in Held : \A S \in SUBSET (Kept \cap TelemetryMessages) :
       /\ Kept' = (Kept \ S) \cup {m} /\ Held' = Held \ {m}
       /\ minted' = minted /\ Applied' = Applied
       => PromiseStep
  BY DEF Promise!Keep
<1>4. \A S \in SUBSET Kept :
       /\ Held' = Held \cup S
       /\ minted' = minted /\ Kept' = Kept /\ Applied' = Applied
       => PromiseStep
  BY DEF Promise!Fetch
<1>5. \A m \in minted :
       /\ Applied' = Applied \cup {m}
       /\ minted' = minted /\ Held' = Held /\ Kept' = Kept
       => PromiseStep
  BY DEF Promise!Apply
<1>6. \A m \in Held \cap Applied :
       /\ Held' = Held \ {m} /\ Kept' = Kept \ {m}
       /\ minted' = minted /\ Applied' = Applied
       => PromiseStep
  BY DEF Promise!Confirm
<1>7. /\ Held' \subseteq Held /\ Held \ Held' \subseteq Kept \cup TelemetryMessages
      /\ minted' = minted /\ Kept' = Kept /\ Applied' = Applied
      => PromiseStep
  BY DEF Promise!Release
<1>8. /\ Held' = {}
      /\ minted' = minted /\ Kept' = Kept /\ Applied' = Applied
      => PromiseStep
  BY DEF Promise!Crash
<1>. QED
  BY <1>1, <1>2, <1>3, <1>4, <1>5, <1>6, <1>7, <1>8

(* Steps that leave every message where it is.                              *)
LEMMA StutterMapped ==
  ASSUME UNCHANGED <<minted, pc, hand, batch, rows, effects>>
  PROVE  PromiseStep
<1>1. Mapped' = Mapped
  BY DEF Mapped, Held, Kept, Applied
<1>. QED
  BY <1>1, PromiseActions

(* Rows change their due flag and nothing else: the same messages are kept. *)
LEMMA DueFlagKept ==
  ASSUME Bookkeeping, DueFlagsOnly
  PROVE  Kept' = Kept
<1>1. \A m : m \in Kept' <=> m \in Kept
  BY DueFlagFacts DEF Kept, Bookkeeping
<1>. QED
  BY <1>1

LEMMA MakeMapped ==
  ASSUME Bookkeeping, NEW t \in Threads, NEW k, Make(t, k)
  PROVE  PromiseStep
<1>. USE DEF Bookkeeping
<1>. DEFINE m == [uid |-> uid + 1, kind |-> k,
                  seq |-> IF k = "config_status" THEN 0 ELSE NextSequence(k)]
<1>1. /\ pc[t] = "ready" /\ minted' = minted \cup {m}
      /\ hand' = [hand EXCEPT ![t] = m] /\ pc' = [pc EXCEPT ![t] = "posting"]
      /\ uid < MaxMessages
      /\ UNCHANGED <<batch, rows, effects>>
  BY DEF Make, queueVars, serverVars
<1>2. m.uid = uid + 1 /\ uid \in Nat
  BY DeliveryAssumption DEF TypeOK
<1>. HIDE DEF m
<1>3. m \notin minted
  BY <1>2 DEF Minting, TypeOK, Messages
<1>4. /\ hand'[t] = m /\ pc'[t] = "posting"
      /\ \A u \in Threads \ {t} : hand'[u] = hand[u] /\ pc'[u] = pc[u]
  BY <1>1 DEF TypeOK
<1>5. \A n : n \in Held' <=> n \in Held \/ n = m
  BY <1>1, <1>4, HeldFacts
<1>6. effects[m.uid] = 0
  BY <1>1, <1>2, DeliveryAssumption DEF Recording
<1>7. Applied' = Applied
  BY <1>1, <1>6 DEF Applied
<1>8. Kept' = Kept
  BY <1>1 DEF Kept
<1>9. Held' = Held \cup {m}
  BY <1>5
<1>. QED
  BY <1>1, <1>3, <1>7, <1>8, <1>9, PromiseActions

LEMMA SentMapped ==
  ASSUME Bookkeeping, NEW t \in Threads, Sent(t)
  PROVE  PromiseStep
<1>. USE DEF Bookkeeping
<1>1. /\ Live(t) /\ pc[t] = "accepted" /\ Finish(t)
      /\ UNCHANGED <<batch, minted, rows, effects>>
  BY DEF Sent, idVars, queueVars, serverVars
<1>2. hand[t] \in Held /\ Held' = Held \ {hand[t]} /\ hand[t] \notin Kept
  BY <1>1, HandReleased
<1>3. hand[t] \in Applied
  BY <1>1 DEF Applied, Recording, NothingInvented
<1>4. Kept' = Kept /\ Kept = Kept \ {hand[t]} /\ Applied' = Applied
  BY <1>1, <1>2 DEF Kept, Applied
<1>5. Kept' = Kept \ {hand[t]}
  BY <1>4
<1>. QED
  BY <1>1, <1>2, <1>3, <1>4, <1>5, PromiseActions

LEMMA QueueMapped ==
  ASSUME Bookkeeping, NEW t \in Threads, Queue(t)
  PROVE  PromiseStep
<1>. USE DEF Bookkeeping
<1>. DEFINE S == {n \in Kept : ~\E r \in Trimmed(hand[t]) : r.msg = n}
<1>1. /\ Live(t) /\ pc[t] = "failed" /\ Finish(t) /\ Enqueue(hand[t])
      /\ UNCHANGED <<batch, minted, effects>>
  BY DEF Queue, serverVars
<1>2. hand[t] \in Held /\ Held' = Held \ {hand[t]} /\ hand[t] \notin Kept
  BY <1>1, HandReleased
<1>3. rows' = Trimmed(hand[t]) \cup {[id |-> nextId, msg |-> hand[t], due |-> TRUE]}
  <2>1. hand[t] \in Messages /\ \A r \in rows : r.msg # hand[t]
    BY <1>1 DEF LiveIsNew, TypeOK
  <2>. QED
    BY <1>1, <2>1, EnqueueFacts
<1>4. Trimmed(hand[t]) \subseteq rows
  BY TrimmedFacts
<1>5. S \in SUBSET (Kept \cap TelemetryMessages)
  <2>1. \A n \in S : n \in TelemetryMessages
    <3>. SUFFICES ASSUME NEW n \in S PROVE n \in TelemetryMessages
      OBVIOUS
    <3>1. PICK r \in rows : r.msg = n /\ r \notin Trimmed(hand[t])
      BY DEF Kept
    <3>2. IsTelemetry(n) /\ n \in Messages
      BY <3>1, TrimmedFacts DEF TypeOK, Rows
    <3>. QED
      BY <3>2 DEF IsTelemetry, Messages, TelemetryMessages
  <2>. QED
    BY <2>1
<1>6. \A n : n \in Kept' <=> n \in Kept \ S \/ n = hand[t]
  <2>1. \A n : n \in Kept' <=> n = hand[t] \/ \E r \in Trimmed(hand[t]) : r.msg = n
    <3>1. \A r : r \in rows' <=> \/ r \in Trimmed(hand[t])
                               \/ r = [id |-> nextId, msg |-> hand[t], due |-> TRUE]
      BY <1>3
    <3>2. \A n : n \in Kept' <=> \E r : r \in rows' /\ r.msg = n
      BY DEF Kept
    <3>3. [id |-> nextId, msg |-> hand[t], due |-> TRUE].msg = hand[t]
      OBVIOUS
    <3>. QED
      BY <3>1, <3>2, <3>3
  <2>2. \A n : n \in Kept \ S <=> \E r \in Trimmed(hand[t]) : r.msg = n
    BY <1>4 DEF Kept
  <2>. QED
    BY <2>1, <2>2
<1>. HIDE DEF S
<1>7. Kept' = (Kept \ S) \cup {hand[t]} /\ Applied' = Applied
  BY <1>1, <1>6 DEF Applied
<1>. QED
  BY <1>1, <1>2, <1>5, <1>7, PromiseActions

LEMMA IngestMapped ==
  ASSUME Bookkeeping, NEW t \in Threads, Ingest(t)
  PROVE  PromiseStep
<1>. USE DEF Bookkeeping
<1>1. /\ pc[t] = "posting" /\ Record(hand[t])
      /\ pc'[t] \in {"accepted", "failed"}
      /\ \A u \in Threads \ {t} : pc'[u] = pc[u]
      /\ UNCHANGED <<hand, batch, minted, rows>>
  BY DEF Ingest, TypeOK, idVars, queueVars
<1>2. hand[t] \in minted
  BY <1>1 DEF NothingInvented
<1>3. \A n : n \in Held' <=> n \in Held
  BY <1>1, HeldFacts
<1>4. Held' = Held /\ Kept' = Kept
  <2>1. Kept' = Kept
    BY <1>1 DEF Kept
  <2>2. Held' = Held
    BY <1>3
  <2>. QED
    BY <2>1, <2>2
<1>5. Applied' = Applied \/ Applied' = Applied \cup {hand[t]}
  BY <1>1, <1>2, RecordMapped
<1>. QED
  BY <1>1, <1>2, <1>4, <1>5, PromiseActions DEF Mapped

LEMMA ArriveMapped ==
  ASSUME Bookkeeping, NEW m \in late, Arrive(m)
  PROVE  PromiseStep
<1>. USE DEF Bookkeeping
<1>1. Record(m) /\ UNCHANGED <<pc, hand, batch, minted, rows>>
  BY DEF Arrive, agentVars, idVars, queueVars
<1>2. m \in minted
  BY DEF NothingInvented
<1>3. Held' = Held /\ Kept' = Kept
  BY <1>1 DEF Held, Kept
<1>4. Applied' = Applied \/ Applied' = Applied \cup {m}
  BY <1>1, <1>2, RecordMapped
<1>. QED
  BY <1>1, <1>2, <1>3, <1>4, PromiseActions DEF Mapped

LEMMA GiveUpMapped ==
  ASSUME Bookkeeping, NEW t \in Threads, GiveUp(t)
  PROVE  PromiseStep
<1>. USE DEF Bookkeeping
<1>1. /\ pc[t] # "ready" /\ pc'[t] = "failed"
      /\ \A u \in Threads \ {t} : pc'[u] = pc[u]
      /\ UNCHANGED <<hand, batch, minted, rows, effects>>
  BY DEF GiveUp, TypeOK, idVars, queueVars, serverVars
<1>2. \A n : n \in Held' <=> n \in Held
  BY <1>1, HeldFacts
<1>3. Mapped' = Mapped
  BY <1>1, <1>2 DEF Mapped, Kept, Applied
<1>. QED
  BY <1>3, PromiseActions

LEMMA FlushReadMapped ==
  ASSUME Bookkeeping, FlushRead
  PROVE  PromiseStep
<1>. USE DEF Bookkeeping
<1>. DEFINE S == {r.msg : r \in Pending}
<1>1. /\ batch = {} /\ batch' = Pending
      /\ UNCHANGED <<pc, hand, minted, rows, effects>>
  BY DEF FlushRead, BatchTracks, idVars, queueVars, serverVars
<1>2. S \in SUBSET Kept
  BY DEF Pending, Oldest, Kept
<1>3. \A n : n \in Held' <=> n \in Held \/ n \in S
  BY <1>1, HeldFacts
<1>. HIDE DEF S
<1>4. Held' = Held \cup S /\ Kept' = Kept /\ Applied' = Applied
  BY <1>1, <1>3 DEF Kept, Applied
<1>. QED
  BY <1>1, <1>2, <1>4, PromiseActions

(* The main thread takes the first message of the batch in its hand: it was *)
(* held already.                                                            *)
LEMMA FlushPostMapped ==
  ASSUME Bookkeeping, FlushPost
  PROVE  PromiseStep
<1>. USE ThreadFacts DEF Bookkeeping
<1>1. PICK r \in Oldest(batch, 1) :
        /\ hand' = [hand EXCEPT !["main"] = r.msg]
        /\ pc' = [pc EXCEPT !["main"] = IF r.msg.kind = "legacy" THEN "failed"
                                                                 ELSE "posting"]
  BY DEF FlushPost
<1>2. r \in batch /\ pc["main"] = "ready" /\ UNCHANGED <<batch, minted, rows, effects>>
  BY OldestIsLeast DEF FlushPost, BatchTracks, idVars, queueVars, serverVars
<1>3. /\ hand'["main"] = r.msg /\ pc'["main"] # "ready"
      /\ hand'["http"] = hand["http"] /\ pc'["http"] = pc["http"]
  BY <1>1 DEF TypeOK
<1>4. \A n : n \in Held' <=> n \in Held
  BY <1>2, <1>3, HeldFacts
<1>5. Mapped' = Mapped
  <2>1. Held' = Held
    BY <1>4
  <2>2. Kept' = Kept /\ Applied' = Applied
    BY <1>2 DEF Kept, Applied
  <2>. QED
    BY <1>2, <2>1, <2>2 DEF Mapped
<1>. QED
  BY <1>5, PromiseActions

LEMMA FlushSentMapped ==
  ASSUME Bookkeeping, FlushSent
  PROVE  PromiseStep
<1>. USE ThreadFacts DEF Bookkeeping
<1>1. PICK r \in batch :
           /\ rows' = {s \in rows : s.id # r.id} /\ batch' = batch \ {r}
           /\ hand["main"] = r.msg /\ effects[r.msg.uid] > 0
           /\ \A s \in rows : s.id = r.id <=> s.msg = r.msg
  BY FlushSentFacts
<1>2. /\ pc["main"] = "accepted" /\ Finish("main") /\ UNCHANGED <<minted, effects>>
  BY DEF FlushSent, idVars, serverVars
<1>3. pc'["main"] = "ready" /\ hand'["http"] = hand["http"] /\ pc'["http"] = pc["http"]
  BY <1>2 DEF Finish, TypeOK
<1>4. pc["http"] # "ready" => hand["http"] # r.msg
  BY <1>1, <1>2 DEF LiveIsNew
<1>5. \A b \in batch : b.msg = r.msg <=> b = r
  BY <1>1 DEF QueueKeyed
<1>6. \A n : n \in Held' <=> n \in Held /\ n # r.msg
  BY <1>1, <1>3, <1>4, <1>5, HeldFacts
<1>7. r.msg \in Held \cap Applied
  BY <1>1, HeldFacts DEF Applied, NothingInvented
<1>8. \A n : n \in Kept' <=> n \in Kept /\ n # r.msg
  BY <1>1 DEF Kept
<1>9. Held' = Held \ {r.msg} /\ Kept' = Kept \ {r.msg} /\ Applied' = Applied
  BY <1>2, <1>6, <1>8 DEF Applied
<1>. QED
  BY <1>2, <1>7, <1>9, PromiseActions

(* A failed flush forgets its batch; what is not telemetry is in the table. *)
LEMMA FlushFailedMapped ==
  ASSUME Bookkeeping, FlushFailed
  PROVE  PromiseStep
<1>. USE ThreadFacts DEF Bookkeeping
<1>1. PICK r \in Oldest(batch, 1) : rows' = Deferred(r)
  BY DEF FlushFailed
<1>2. /\ flush = "send" /\ pc["main"] = "failed" /\ batch' = {} /\ Finish("main")
      /\ UNCHANGED <<minted, effects>>
  BY DEF FlushFailed, idVars, serverVars
<1>3. DueFlagsOnly
  <2>1. r.id \in Nat
    BY OldestIsLeast DEF BatchTracks, TypeOK, Rows
  <2>. QED
    BY <1>1, <2>1 DEF Deferred, DueFlagsOnly
<1>4. Kept' = Kept
  BY <1>3, DueFlagKept
<1>5. pc'["main"] = "ready" /\ hand'["http"] = hand["http"] /\ pc'["http"] = pc["http"]
  BY <1>2 DEF Finish, TypeOK
<1>6. \A n \in Held' : n \in Held
  BY <1>2, <1>5, HeldFacts
<1>7. \A n \in Held \ Held' : \E b \in batch : b.msg = n
  <2>1. \E b \in batch : hand["main"] = b.msg
    BY <1>2, OldestIsLeast DEF BatchTracks
  <2>. QED
    BY <1>2, <1>5, <2>1, HeldFacts
<1>8. \A b \in batch : b.msg \in Kept \cup TelemetryMessages
  <2>. SUFFICES ASSUME NEW b \in batch PROVE b.msg \in Kept \cup TelemetryMessages
    OBVIOUS
  <2>1. CASE IsTelemetry(b.msg)
    BY <2>1 DEF IsTelemetry, TypeOK, Rows, Messages, TelemetryMessages
  <2>2. CASE \E s \in rows : s.id = b.id
    BY <2>2 DEF BatchTracks, Kept
  <2>. QED
    BY <2>1, <2>2 DEF BatchTracks
<1>9. /\ Held' \subseteq Held /\ Held \ Held' \subseteq Kept \cup TelemetryMessages
      /\ Applied' = Applied
  BY <1>2, <1>6, <1>7, <1>8 DEF Applied
<1>. QED
  BY <1>2, <1>4, <1>9, PromiseActions

LEMMA CrashMapped ==
  ASSUME Crash
  PROVE  PromiseStep
<1>1. /\ pc' = [t \in Threads |-> "ready"] /\ batch' = {}
      /\ UNCHANGED <<minted, rows, effects>>
  BY DEF Crash, idVars, queueVars, serverVars
<1>2. Held' = {} /\ Kept' = Kept /\ Applied' = Applied
  BY <1>1, HeldFacts DEF Kept, Applied
<1>. QED
  BY <1>1, <1>2, PromiseActions

(* Every step is one the promise allows.                                    *)
LEMMA StepMapped == Bookkeeping /\ [Next]_vars => PromiseStep
<1>. SUFFICES ASSUME Bookkeeping, [Next]_vars PROVE PromiseStep
  OBVIOUS
<1>. USE DEF agentVars, idVars, queueVars, serverVars
<1>1. CASE MakeMain \/ MakeHttp
  BY <1>1, MakeMapped, ThreadFacts DEF MakeMain, MakeHttp
<1>2. CASE Skip \/ Probe \/ FlushClosed \/ FlushDone \/ GateOpens
  BY <1>2, StutterMapped DEF Skip, Probe, FlushClosed, FlushDone, GateOpens
<1>3. ASSUME NEW t \in Threads, Sent(t) \/ Queue(t) \/ Ingest(t) \/ GiveUp(t)
      PROVE  PromiseStep
  BY <1>3, SentMapped, QueueMapped, IngestMapped, GiveUpMapped
<1>4. CASE FlushRead \/ FlushPost \/ FlushSent \/ FlushFailed
  BY <1>4, FlushReadMapped, FlushPostMapped, FlushSentMapped, FlushFailedMapped
<1>5. ASSUME NEW i \in 1..(MaxMessages + 1), RowDue(i)
      PROVE  PromiseStep
  <2>1. rows' = {IF s.id = i THEN [s EXCEPT !.due = TRUE] ELSE s : s \in rows}
    BY <1>5 DEF RowDue
  <2>2. i \in Nat /\ TRUE \in BOOLEAN
    BY DeliveryAssumption
  <2>3. DueFlagsOnly
    BY <2>1, <2>2 DEF DueFlagsOnly
  <2>4. Kept' = Kept
    BY <2>3, DueFlagKept
  <2>5. UNCHANGED <<minted, pc, hand, batch, effects>>
    BY <1>5 DEF RowDue
  <2>6. Mapped' = Mapped
    BY <2>4, <2>5 DEF Mapped, Held, Applied
  <2>. QED
    BY <2>6, PromiseActions
<1>6. ASSUME NEW m \in late, Arrive(m)
      PROVE  PromiseStep
  BY <1>6, ArriveMapped
<1>7. CASE Supersede \/ LinkDown \/ LinkUp \/ UNCHANGED vars
  BY <1>7, StutterMapped DEF Supersede, LinkDown, LinkUp, vars
<1>8. CASE Crash
  BY <1>8, CrashMapped
<1>. QED
  BY <1>1, <1>2, <1>3, <1>4, <1>5, <1>6, <1>7, <1>8, NextCases

(* The outbound path keeps the promise of DeliveryPromise: whatever is not  *)
(* telemetry is never lost once it is stored, and leaves memory only stored *)
(* or recorded, but for a crash.                                            *)
THEOREM SpecKeepsPromise == Spec => KeepsPromise
<1>. QED
  BY SpecBookkeeping, MappedInit, StepMapped, PTL
     DEF Spec, KeepsPromise, Promise!Spec, PromiseStep
===============================================================================
