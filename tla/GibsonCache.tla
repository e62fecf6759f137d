----------------------------- MODULE GibsonCache -----------------------------
(***************************************************************************)
(* What the query core promises about the items clients can observe, with  *)
(* expiry made eager: an entry exists from the write that creates it until *)
(* the second its ttl runs out or an unlocked removal, and a lock keeps    *)
(* everyone from replacing, changing, removing or re-locking the entry     *)
(* while it lasts.  Only a ttl change (TTL, MTTL) and an unlock may touch  *)
(* a locked entry, as spec section 5 says.                                 *)
(*                                                                         *)
(* An entry is [val, born, ttl, lock]: its content, the second its ttl and *)
(* lock clocks start from, its ttl (<= 0: no expiry) and its lock (-1:     *)
(* forever, 0: none, else seconds from born).                              *)
(***************************************************************************)
EXTENDS Integers

CONSTANTS Keys, Absent

VARIABLES now, cache

ExpiredAt(e, t) == e.ttl > 0 /\ t - e.born >= e.ttl
Locked(e)       == e.lock = -1 \/ now - e.born < e.lock
Free(e)         == e = Absent \/ ~Locked(e)

Init == now = 0 /\ cache = [k \in Keys |-> Absent]

\* a second passes and every entry whose ttl ran out is gone
Tick == /\ now' = now + 1
        /\ cache' = [k \in Keys |-> IF cache[k] # Absent /\ ExpiredAt(cache[k], now + 1)
                                    THEN Absent ELSE cache[k]]

(***************************************************************************)
(* What one request may do to the entry of one key e, leaving f.  A       *)
(* pattern request does this to every key at once.                         *)
(***************************************************************************)
Write(e, f)  == Free(e) /\ f # Absent /\ f.born = now /\ f.lock = 0
Update(e, f) == e # Absent /\ ~Locked(e) /\ f # Absent
                /\ f.born = e.born /\ f.ttl = e.ttl /\ f.lock = e.lock
Remove(e, f) == e # Absent /\ ~Locked(e) /\ f = Absent
Retime(e, f) == e # Absent /\ f # Absent
                /\ f.val = e.val /\ f.lock = e.lock /\ f.born = now
Relock(e, f) == e # Absent /\ ~Locked(e) /\ f # Absent
                /\ f.val = e.val /\ f.ttl = e.ttl /\ f.born = now
Unlock(e, f) == e # Absent /\ f # Absent
                /\ f.val = e.val /\ f.ttl = e.ttl /\ f.born = e.born /\ f.lock = 0

KeyStep(e, f) ==
    \/ f = e
    \/ Write(e, f) \/ Update(e, f) \/ Remove(e, f)
    \/ Retime(e, f) \/ Relock(e, f) \/ Unlock(e, f)

Request == /\ now' = now
           /\ \A k \in Keys : KeyStep(cache[k], cache'[k])

Next == Tick \/ Request

Spec == Init /\ [][Next]_<<now, cache>>
=============================================================================
