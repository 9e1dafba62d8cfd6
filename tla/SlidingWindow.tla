---------------------------- MODULE SlidingWindow ----------------------------
(***************************************************************************)
(* detect.SlidingWindow: what is remembered of one source in one window, as *)
(* a sequence of entries [t, key] in arrival order.  An entry is expired    *)
(* when it is Window or more old.                                           *)
(***************************************************************************)
EXTENDS Integers, Sequences, FiniteSetsExt

CONSTANTS
    Window,   \* length of the window
    Cap       \* maxEntriesPerIP

Alive(e, now) == e.t > now - Window

(* The loop of pruneLocked: the entries of s that are alive.                *)
LiveEntries(s, now) ==
    LET kept[k \in 0..Len(s)] ==
            IF k = 0 THEN <<>>
            ELSE IF Alive(s[k], now) THEN Append(kept[k - 1], s[k]) ELSE kept[k - 1]
    IN  kept[Len(s)]

(* Mutant: a full window refuses new entries instead of dropping old ones.  *)
AddKeyed_KeepOld(s, now, key) ==
    LET live == LiveEntries(s, now)
    IN  IF Len(live) < Cap THEN Append(live, [t |-> now, key |-> key]) ELSE live

(* Mutant: only the cap drops entries.                                      *)
AddKeyed_NoExpiry(s, now, key) ==
    LET all == Append(s, [t |-> now, key |-> key])
    IN  SubSeq(all, Max({0, Len(all) - Cap}) + 1, Len(all))

(* AddKeyed: append, drop the expired entries (which are the oldest, as     *)
(* entries come in time order) and whatever then exceeds the cap.           *)
AddKeyed(s, now, key) ==
    LET all == Append(LiveEntries(s, now), [t |-> now, key |-> key])
    IN  SubSeq(all, Max({0, Len(all) - Cap}) + 1, Len(all))

(* Count and DistinctCount; the empty key is never counted as distinct.     *)
Count(s, now) == Cardinality({k \in DOMAIN s : Alive(s[k], now)})
DistinctCount(s, now) ==
    Cardinality({s[k].key : k \in {j \in DOMAIN s : Alive(s[j], now) /\ s[j].key # ""}})
=============================================================================
