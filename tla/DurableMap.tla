----------------------------- MODULE DurableMap -----------------------------
(***************************************************************************)
(* What the key-value store of database.go promises about crashes when     *)
(* nothing is known of its callers.  disk is what a restart would find.    *)
(* A write changes memory at once and reaches the disk later, if at all;   *)
(* values for one key may reach it in any order.  The promise is in what   *)
(* is missing: the disk never takes a value for a key other than one still *)
(* in flight or the one in memory, no key ever falls back to an older      *)
(* value by itself, a crash changes nothing on disk, and a restart starts  *)
(* from exactly what is there.                                             *)
(***************************************************************************)
CONSTANTS Keys, Cell, NoVal

VARIABLES
    mem,    \* the map
    disk,   \* what a restart would read back
    flight, \* per key, values written to the map and not yet to the disk
    up      \* the process runs

dvars == <<mem, disk, flight, up>>

Blank == [k \in Keys |-> NoVal]
Grounded == [k \in Keys |-> {}]

Init ==
    /\ mem = Blank
    /\ disk = Blank
    /\ flight = Grounded
    /\ up = TRUE

\* One critical section changes any keys; it will log some of them.
Write(new) ==
    /\ up
    /\ mem' = new
    /\ \E L \in SUBSET Keys :
          flight' = [k \in Keys |-> IF k \in L THEN flight[k] \cup {new[k]} ELSE flight[k]]
    /\ UNCHANGED <<disk, up>>

\* A record is appended.  It may stay unreadable, and the same value may
\* have been written by someone else too, who will append it again.
Persist(k, v) ==
    /\ v \in flight[k]
    /\ disk' \in {disk, [disk EXCEPT ![k] = v]}
    /\ flight' \in {flight, [flight EXCEPT ![k] = @ \ {v}]}
    /\ UNCHANGED <<mem, up>>

\* Values on their way are given up: who carried them is gone.
Abandon ==
    /\ up
    /\ flight' \in [Keys -> SUBSET Cell]
    /\ \A k \in Keys : flight'[k] \subseteq flight[k]
    /\ UNCHANGED <<mem, disk, up>>

\* The disk catches up with memory for some keys.
Checkpoint(K) ==
    /\ up
    /\ disk' = [k \in Keys |-> IF k \in K THEN mem[k] ELSE disk[k]]
    /\ UNCHANGED <<mem, flight, up>>

Crash ==
    /\ up
    /\ up' = FALSE
    /\ mem' = Blank
    /\ flight' = Grounded
    /\ UNCHANGED disk

Restart ==
    /\ ~up
    /\ up' = TRUE
    /\ mem' = disk
    /\ UNCHANGED <<disk, flight>>

Next ==
    \/ \E new \in [Keys -> Cell] : Write(new)
    \/ \E k \in Keys, v \in Cell : Persist(k, v)
    \/ Abandon
    \/ \E K \in SUBSET Keys : Checkpoint(K)
    \/ Crash
    \/ Restart

Spec == Init /\ [][Next]_dvars
=============================================================================
