--------------------------- MODULE DeliveryPromise ---------------------------
(***************************************************************************)
(* What the agent's outbound path promises about a message, whatever the   *)
(* queue, the retry timers and the network do.  A message is minted, lives *)
(* in the memory of the thread that handles it, may be kept in the local   *)
(* database, and may be applied by the central server.                     *)
(*                                                                         *)
(*   - a message that is not telemetry leaves the database only after the  *)
(*     server applied it, and leaves memory only when it is in the         *)
(*     database or applied: nothing but a crash loses it, and a crash only *)
(*     before it was stored;                                               *)
(*   - telemetry may be evicted from the database and forgotten.           *)
(***************************************************************************)
CONSTANT Telemetry          \* the messages the bounded queue may discard

VARIABLES minted,           \* every message that ever existed
          held,             \* messages some thread has in memory
          kept,             \* messages stored in the local database
          applied           \* messages the server has recorded

vars == <<minted, held, kept, applied>>

(* The database may hold messages of an earlier run.                       *)
Init == /\ kept = minted
        /\ held = {}
        /\ applied = {}

Mint == /\ \E m \in minted' \ minted : /\ minted' = minted \cup {m}
                                       /\ held' = held \cup {m}
        /\ UNCHANGED <<kept, applied>>

(* Storing one message may evict telemetry, in the same transaction.       *)
Keep == \E m \in held :
          /\ \E S \in SUBSET (kept \cap Telemetry) :
                kept' = (kept \ S) \cup {m}
          /\ held' = held \ {m}
          /\ UNCHANGED <<minted, applied>>

Fetch == /\ \E S \in SUBSET kept : held' = held \cup S
         /\ UNCHANGED <<minted, kept, applied>>

Apply == /\ \E m \in minted : applied' = applied \cup {m}
         /\ UNCHANGED <<minted, held, kept>>

Confirm == \E m \in held \cap applied :
             /\ held' = held \ {m}
             /\ kept' = kept \ {m}
             /\ UNCHANGED <<minted, applied>>

Release == /\ held' \subseteq held
           /\ held \ held' \subseteq kept \cup Telemetry
           /\ UNCHANGED <<minted, kept, applied>>

Crash == /\ held' = {}
         /\ UNCHANGED <<minted, kept, applied>>

Next == Mint \/ Keep \/ Fetch \/ Apply \/ Confirm \/ Release \/ Crash

Spec == Init /\ [][Next]_vars
==============================================================================
