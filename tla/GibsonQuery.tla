----------------------------- MODULE GibsonQuery -----------------------------
(***************************************************************************)
(* The query-execution core of the Gibson cache, src/src/query.c: the item *)
(* store behind the prefix index, the item lifecycle (lazy TTL expiry,     *)
(* advisory locks, numeric promotion, LZF encoding), every request handler *)
(* that reads or changes it, and the server counters they maintain.        *)
(*                                                                         *)
(* The server is single-threaded: gbProcessQuery runs one handler to       *)
(* completion, pattern walks included, so each request is one atomic step *)
(* and the interleaving of clients is an arbitrary sequence of requests.   *)
(* The only other step is the cron of the event loop advancing            *)
(* server->stats.time by a second.                                         *)
(*                                                                         *)
(* Abstractions.  The index is a function from keys to a slot holding an   *)
(* item or Null (a nulled node and a removed node look the same to the     *)
(* core).  A pattern is the set of keys the index matches, any subset of   *)
(* Keys.  An item's bytes are a member of Values, kept decompressed (LZF   *)
(* is transparent); whether lzf_compress shrinks a value is the codec's    *)
(* verdict LzfShrinks.  last_access_time, the request counter, firstin,    *)
(* lastin, sizeavg and compravg feed only STATS and are left out.        *)
(* memused is a sample of the allocator: one unit per owned data buffer,  *)
(* plus the key copies a pattern search has staged at the time of the     *)
(* sample.                                                                 *)
(***************************************************************************)
EXTENDS Integers, FiniteSets, Sequences

CONSTANTS
    Keys,           \* the keys clients use
    Values,         \* SET/MSET payloads: sequences of one-character strings
    Compression,    \* server->compression: values longer than this are compressed
    LzfShrinks,     \* the values lzf_compress shrinks by at least 4 bytes
    TtlArgs,        \* TTL arguments clients send (already parsed longs)
    LockArgs,       \* LOCK arguments clients send
    MaxItemTtl,     \* server->limits.maxitemttl
    MaxMem,         \* server->limits.maxmem, in allocator units
    MaxTime,        \* bound on server->stats.time (seconds since start)
    LongBits,       \* width of long, for the in-place NUMBER arithmetic
    KeepReplies,    \* whether reply records the last reply (off where no property reads it)
    TrackPeak,      \* whether mempeak is tracked (off where no property reads it)
    MetaArgs,       \* META field names clients send: fields of MetaFields or others
    Patterns,       \* the key sets a pattern can match: subsets of Keys
    Unparsable,     \* {NaN} where clients send arguments gbQueryParseLong rejects, else {}
    Null,           \* an empty slot
    NaN             \* an argument gbQueryParseLong rejects

ASSUME LzfShrinks \subseteq Values
ASSUME TtlArgs \subseteq Int /\ LockArgs \subseteq Int
ASSUME MaxItemTtl \in Nat /\ MaxMem \in Nat /\ MaxTime \in Nat
ASSUME KeepReplies \in BOOLEAN /\ TrackPeak \in BOOLEAN
ASSUME MetaArgs \subseteq STRING
ASSUME Unparsable \subseteq {NaN}
ASSUME Patterns \subseteq SUBSET Keys

\* Only ParseLong and the long wrap-around of QueryParse are used here.
Parse == INSTANCE QueryParse WITH MaxKeySize <- 1, MaxValueSize <- 1, SizeBits <- 8

VARIABLES
    now,            \* server->stats.time
    slot,           \* the index: key -> item or Null
    nitems,         \* server->stats.nitems
    ncompressed,    \* server->stats.ncompressed
    memused,        \* server->stats.memused, last sample of zmem_used()
    mempeak,        \* server->stats.mempeak
    reply           \* the reply the last request enqueued

store == <<slot, nitems, ncompressed, memused, mempeak>>
vars  == <<now, slot, nitems, ncompressed, memused, mempeak, reply>>

Encodings == {"PLAIN", "LZF", "NUMBER"}
Codes     == {"OK", "VAL", "ERR", "ERR_NAN", "ERR_NOT_FOUND", "ERR_LOCKED",
              "ERR_MEM", "GB_ERR", "NONE"}
Ops       == {"GET", "SET", "TTL", "MSET", "MTTL", "MGET", "DEL", "MDEL",
              "INC", "DEC", "MINC", "MDEC", "LOCK", "MLOCK", "UNLOCK",
              "MUNLOCK", "COUNT", "STATS", "PING", "META", "KEYS", "END",
              "UNKNOWN", "NONE"}
Longs     == -(2^(LongBits - 1))..(2^(LongBits - 1) - 1)

\* data is a buffer (bytes) or, for NUMBER, a long stored in the pointer (num)
Item == [bytes: Values \cup {<<>>}, num: Longs, enc: Encodings, time: 0..MaxTime,
         ttl: Int, lock: Int]

MinOf(a, b) == IF a < b THEN a ELSE b

-----------------------------------------------------------------------------
(* Item lifecycle *)

\* the negation of gbIsNodeStillValid / gbIsItemStillValid
Expired(it) == it.ttl > 0 /\ now - it.time >= it.ttl

\* gbItemIsLocked, always called with eta = 0
IsLocked(it) == it.lock = -1 \/ now - it.time < it.lock

Present == {k \in Keys : slot[k] # Null}
Live(k) == slot[k] # Null /\ ~Expired(slot[k])
HeldLocked(k) == slot[k] # Null /\ IsLocked(slot[k])

\* gbSingleSet: compress when longer than the threshold and the codec
\* shrinks it, then gbCreateItem with ttl -1, unlocked, born now
Encode(v) == IF Len(v) > Compression /\ v \in LzfShrinks THEN "LZF" ELSE "PLAIN"
SingleSetItem(v) == [bytes |-> v, num |-> 0, enc |-> Encode(v), time |-> now,
                       ttl |-> -1, lock |-> 0]

\* the owned data buffers, what zmem_used() reports in this model
Footprint(s) == Cardinality({k \in Keys : s[k] # Null /\ s[k].enc # "NUMBER"})

(***************************************************************************)
(* The highest zmem_used() sample a gbCreateItem of the step can take.     *)
(* gbSingleSet creates the new item before it destroys the one it          *)
(* replaces, and a walk destroys expired items between its creations in    *)
(* index order; the order is not modelled, and this is the largest sample  *)
(* any order gives: the last creation replacing a buffer-owning item, with *)
(* the expired items of the walk not yet destroyed.                        *)
(***************************************************************************)
PeakSample(new, created, destroyed, staged) ==
    Footprint(new) + staged
    + Cardinality({k \in destroyed \ created : slot[k].enc # "NUMBER"})
    + (IF \E k \in created \cap destroyed : slot[k].enc # "NUMBER" THEN 1 ELSE 0)

\* gbCreateItem: mempeak follows the samples taken at creation, and only those
NewPeak(new, created, destroyed, staged) ==
    IF ~TrackPeak \/ created = {} THEN mempeak
    ELSE LET m == PeakSample(new, created, destroyed, staged)
         IN  IF m > mempeak THEN m ELSE mempeak

\* mutant of Install: gbDestroyItem without its --ncompressed
InstallKeepingCompressed(new, created, destroyed, sampled, staged) ==
    /\ slot' = new
    /\ nitems' = nitems + Cardinality(created) - Cardinality(destroyed)
    /\ ncompressed' = ncompressed + Cardinality({k \in created : new[k].enc = "LZF"})
    /\ memused' = IF sampled THEN Footprint(new) + staged ELSE memused
    /\ mempeak' = NewPeak(new, created, destroyed, staged)

(***************************************************************************)
(* The counters of gbCreateItem and gbDestroyItem for a step that installs *)
(* store new, creating the items at created and destroying the items of   *)
(* slot at destroyed; memused is re-sampled when sampled, with staged      *)
(* search results still allocated.                                         *)
(***************************************************************************)
Install(new, created, destroyed, sampled, staged) ==
    /\ slot' = new
    /\ nitems' = nitems + Cardinality(created) - Cardinality(destroyed)
    /\ ncompressed' = ncompressed + Cardinality({k \in created : new[k].enc = "LZF"})
                                  - Cardinality({k \in destroyed : slot[k].enc = "LZF"})
    /\ memused' = IF sampled THEN Footprint(new) + staged ELSE memused
    /\ mempeak' = NewPeak(new, created, destroyed, staged)

\* destroy the items at ks and empty their slots
Drop(ks) == Install([k \in Keys |-> IF k \in ks THEN Null ELSE slot[k]], {}, ks, ks # {}, 0)

NoReply == [op |-> "NONE", keys |-> {}, code |-> "NONE", n |-> 0, arg |-> "none"]

\* the reply enqueued for a request whose sub-operation argument is arg
Answer(op, ks, code, n, arg) ==
    reply' = IF KeepReplies THEN [op |-> op, keys |-> ks, code |-> code, n |-> n, arg |-> arg]
             ELSE NoReply

Reply(op, ks, code, n) == Answer(op, ks, code, n, "none")

\* the reply of a pattern handler that counted n matches
CountReply(op, ks, n) == Reply(op, ks, IF n > 0 THEN "VAL" ELSE "ERR_NOT_FOUND", n)

Keep == UNCHANGED store

-----------------------------------------------------------------------------
(* Single-key handlers *)

\* mutant of GET: expiry checked with remove = 0, the item is left behind
GETKeepingExpired(k) ==
    \/ /\ Live(k)
       /\ Keep /\ Reply("GET", {k}, "VAL", 0)
    \/ /\ ~Live(k)
       /\ Keep /\ Reply("GET", {k}, "ERR_NOT_FOUND", 0)

\* gbQueryGetHandler: an expired item is destroyed and reported missing
GET(k) ==
    \/ /\ Live(k)
       /\ Keep /\ Reply("GET", {k}, "VAL", 0)
    \/ /\ ~Live(k)
       /\ Drop({k} \cap Present) /\ Reply("GET", {k}, "ERR_NOT_FOUND", 0)

\* gbQuerySetHandler and gbSingleSet: the lock is checked on whatever item
\* the index holds, expired or not; the old item is destroyed on insert
SET(k, v, t) ==
    \/ /\ memused > MaxMem
       /\ Keep /\ Reply("SET", {k}, "ERR_MEM", 0)
    \/ /\ memused <= MaxMem /\ t = NaN
       /\ Keep /\ Reply("SET", {k}, "ERR_NAN", 0)
    \/ /\ memused <= MaxMem /\ t # NaN
       /\ HeldLocked(k)
       /\ Keep /\ Reply("SET", {k}, "ERR_LOCKED", 0)
    \/ /\ memused <= MaxMem /\ t # NaN
       /\ ~HeldLocked(k)
       /\ LET it == IF t > 0 THEN [SingleSetItem(v) EXCEPT !.ttl = MinOf(MaxItemTtl, t)]
                             ELSE SingleSetItem(v)
          IN  Install([slot EXCEPT ![k] = it], {k}, {k} \cap Present, TRUE, 0)
       /\ Reply("SET", {k}, "VAL", 0)

\* gbQueryTtlHandler: no lock check; the ttl clock (item->time) restarts;
\* the argument is parsed only once the item is found live
TTL(k, t) ==
    \/ /\ Live(k) /\ t = NaN
       /\ Keep /\ Reply("TTL", {k}, "ERR_NAN", 0)
    \/ /\ Live(k) /\ t # NaN
       /\ Install([slot EXCEPT ![k].time = now, ![k].ttl = MinOf(MaxItemTtl, t)],
                  {}, {}, FALSE, 0)
       /\ Reply("TTL", {k}, "OK", 0)
    \/ /\ ~Live(k)
       /\ Drop({k} \cap Present) /\ Reply("TTL", {k}, "ERR_NOT_FOUND", 0)

\* gbQueryDelHandler: the lock is checked before expiry
DEL(k) ==
    \/ /\ slot[k] = Null
       /\ Keep /\ Reply("DEL", {k}, "ERR_NOT_FOUND", 0)
    \/ /\ slot[k] # Null /\ IsLocked(slot[k])
       /\ Keep /\ Reply("DEL", {k}, "ERR_LOCKED", 0)
    \/ /\ slot[k] # Null /\ ~IsLocked(slot[k])
       /\ Drop({k})
       /\ Reply("DEL", {k}, IF Expired(slot[k]) THEN "ERR_NOT_FOUND" ELSE "OK", 0)

\* mutant of INCDEC: the PLAIN buffer is freed but the encoding never set
INCDECKeepingEncoding(k, delta) ==
    LET op == IF delta = 1 THEN "INC" ELSE "DEC"
        it == slot[k]
    IN
    \/ /\ it = Null
       /\ Install([slot EXCEPT ![k] = [bytes |-> <<>>, num |-> 1, enc |-> "NUMBER", time |-> now,
                                       ttl |-> -1, lock |-> 0]], {k}, {}, TRUE, 0)
       /\ Reply(op, {k}, "VAL", 0)
    \/ /\ it # Null /\ Expired(it)
       /\ Drop({k}) /\ Reply(op, {k}, "ERR_NOT_FOUND", 0)
    \/ /\ Live(k) /\ IsLocked(it)
       /\ Keep /\ Reply(op, {k}, "ERR_LOCKED", 0)
    \/ /\ Live(k) /\ ~IsLocked(it) /\ it.enc = "NUMBER"
       /\ Install([slot EXCEPT ![k].num = Parse!LongT(it.num + delta)], {}, {}, FALSE, 0)
       /\ Reply(op, {k}, "VAL", 0)
    \/ /\ Live(k) /\ ~IsLocked(it) /\ it.enc = "PLAIN" /\ Parse!ParseLong(it.bytes).ok
       /\ Install([slot EXCEPT ![k].num = Parse!LongT(Parse!ParseLong(it.bytes).n + delta),
                               ![k].bytes = <<>>], {}, {}, TRUE, 0)
       /\ Reply(op, {k}, "VAL", 0)
    \/ /\ Live(k) /\ ~IsLocked(it)
       /\ \/ it.enc = "LZF"
          \/ it.enc = "PLAIN" /\ ~Parse!ParseLong(it.bytes).ok
       /\ Keep /\ Reply(op, {k}, "ERR_NAN", 0)

\* gbQueryIncDecHandler: an absent key gets a NUMBER item holding 1 whatever
\* the delta, without the memory check of SET; a PLAIN item that parses as
\* a long is promoted to NUMBER, its buffer freed and memused re-sampled
INCDEC(k, delta) ==
    LET op == IF delta = 1 THEN "INC" ELSE "DEC"
        it == slot[k]
    IN
    \/ /\ it = Null
       /\ Install([slot EXCEPT ![k] = [bytes |-> <<>>, num |-> 1, enc |-> "NUMBER", time |-> now,
                                       ttl |-> -1, lock |-> 0]], {k}, {}, TRUE, 0)
       /\ Reply(op, {k}, "VAL", 0)
    \/ /\ it # Null /\ Expired(it)
       /\ Drop({k}) /\ Reply(op, {k}, "ERR_NOT_FOUND", 0)
    \/ /\ Live(k) /\ IsLocked(it)
       /\ Keep /\ Reply(op, {k}, "ERR_LOCKED", 0)
    \/ /\ Live(k) /\ ~IsLocked(it) /\ it.enc = "NUMBER"
       /\ Install([slot EXCEPT ![k].num = Parse!LongT(it.num + delta)], {}, {}, FALSE, 0)
       /\ Reply(op, {k}, "VAL", 0)
    \/ /\ Live(k) /\ ~IsLocked(it) /\ it.enc = "PLAIN" /\ Parse!ParseLong(it.bytes).ok
       /\ Install([slot EXCEPT ![k].num = Parse!LongT(Parse!ParseLong(it.bytes).n + delta),
                               ![k].bytes = <<>>,
                               ![k].enc = "NUMBER"], {}, {}, TRUE, 0)
       /\ Reply(op, {k}, "VAL", 0)
    \/ /\ Live(k) /\ ~IsLocked(it)
       /\ \/ it.enc = "LZF"
          \/ it.enc = "PLAIN" /\ ~Parse!ParseLong(it.bytes).ok
       /\ Keep /\ Reply(op, {k}, "ERR_NAN", 0)

\* mutant of LOCK: item->time is touched (for last_access_time) before the lock test
LOCKTouchingWhenLocked(k, l) ==
    \/ /\ Live(k) /\ l = NaN
       /\ Keep /\ Reply("LOCK", {k}, "ERR_NAN", 0)
    \/ /\ Live(k) /\ l # NaN /\ ~IsLocked(slot[k])
       /\ Install([slot EXCEPT ![k].time = now, ![k].lock = l], {}, {}, FALSE, 0)
       /\ Reply("LOCK", {k}, "OK", 0)
    \/ /\ Live(k) /\ l # NaN /\ IsLocked(slot[k])
       /\ Install([slot EXCEPT ![k].time = now], {}, {}, FALSE, 0)
       /\ Reply("LOCK", {k}, "ERR_LOCKED", 0)
    \/ /\ ~Live(k)
       /\ Drop({k} \cap Present) /\ Reply("LOCK", {k}, "ERR_NOT_FOUND", 0)

\* gbQueryLockHandler: a free item is locked for l seconds from now, which
\* also restarts its ttl clock
LOCK(k, l) ==
    \/ /\ Live(k) /\ l = NaN
       /\ Keep /\ Reply("LOCK", {k}, "ERR_NAN", 0)
    \/ /\ Live(k) /\ l # NaN /\ ~IsLocked(slot[k])
       /\ Install([slot EXCEPT ![k].time = now, ![k].lock = l], {}, {}, FALSE, 0)
       /\ Reply("LOCK", {k}, "OK", 0)
    \/ /\ Live(k) /\ l # NaN /\ IsLocked(slot[k])
       /\ Keep /\ Reply("LOCK", {k}, "ERR_LOCKED", 0)
    \/ /\ ~Live(k)
       /\ Drop({k} \cap Present) /\ Reply("LOCK", {k}, "ERR_NOT_FOUND", 0)

\* gbQueryUnlockHandler: anyone may unlock a live item
UNLOCK(k) ==
    \/ /\ Live(k)
       /\ Install([slot EXCEPT ![k].lock = 0], {}, {}, FALSE, 0)
       /\ Reply("UNLOCK", {k}, "OK", 0)
    \/ /\ ~Live(k)
       /\ Drop({k} \cap Present) /\ Reply("UNLOCK", {k}, "ERR_NOT_FOUND", 0)

\* gbGetItemMeta for the fields the model keeps (size and access are not
\* tracked); "left" is the ttl still to run, -1 for an item without one
MetaFields == {"created", "ttl", "left", "lock"}
MetaValue(it, f) ==
    CASE f = "created" -> it.time
      [] f = "ttl"     -> it.ttl
      [] f = "left"    -> IF it.ttl <= 0 THEN -1 ELSE it.ttl - (now - it.time)
      [] f = "lock"    -> it.lock

\* gbQueryMetaHandler: f is the field name, an unknown one answers ERR
META(k, f) ==
    \/ /\ Live(k) /\ f \in MetaFields
       /\ Keep /\ Answer("META", {k}, "VAL", MetaValue(slot[k], f), f)
    \/ /\ Live(k) /\ f \notin MetaFields
       /\ Keep /\ Answer("META", {k}, "ERR", 0, f)
    \/ /\ ~Live(k)
       /\ Drop({k} \cap Present) /\ Answer("META", {k}, "ERR_NOT_FOUND", 0, f)

-----------------------------------------------------------------------------
(***************************************************************************)
(* Pattern handlers.  The index walk (tr_search_callback and friends)      *)
(* calls the handler's callback on every matched slot holding an item;     *)
(* each callback reads and writes only its own key's slot, so the walk is  *)
(* the simultaneous update of all matched keys, and its count is the       *)
(* number of callbacks that returned 1.  ks is the set of matched keys.    *)
(***************************************************************************)

Walked(ks) == ks \cap Present

\* mutant of MSET: gbMultiSetCallback without its gbItemIsLocked test
MSETIgnoringLocks(ks, v) ==
    \/ /\ memused > MaxMem
       /\ Keep /\ Reply("MSET", ks, "ERR_MEM", 0)
    \/ /\ memused <= MaxMem
       /\ LET free    == Walked(ks)
              expired == {k \in free : Expired(slot[k])}
              set     == free \ expired
          IN  /\ Install([k \in Keys |-> IF k \in expired THEN Null
                                         ELSE IF k \in set THEN SingleSetItem(v)
                                         ELSE slot[k]],
                         set, free, free # {}, 0)
              /\ CountReply("MSET", ks, Cardinality(set))

\* gbQueryMultiSetHandler / gbMultiSetCallback: locked items are skipped
\* before expiry is looked at; the rest are replaced by gbSingleSet
MSET(ks, v) ==
    \/ /\ memused > MaxMem
       /\ Keep /\ Reply("MSET", ks, "ERR_MEM", 0)
    \/ /\ memused <= MaxMem
       /\ LET free    == {k \in Walked(ks) : ~IsLocked(slot[k])}
              expired == {k \in free : Expired(slot[k])}
              set     == free \ expired
          IN  /\ Install([k \in Keys |-> IF k \in expired THEN Null
                                         ELSE IF k \in set THEN SingleSetItem(v)
                                         ELSE slot[k]],
                         set, free, free # {}, 0)
              /\ CountReply("MSET", ks, Cardinality(set))

\* gbQueryMultiTtlHandler: the ttl is parsed before the walk
MTTL(ks, t) ==
    LET expired == {k \in Walked(ks) : Expired(slot[k])}
        valid   == Walked(ks) \ expired
    IN  \/ t = NaN /\ Keep /\ Reply("MTTL", ks, "ERR_NAN", 0)
        \/ /\ t # NaN
           /\ Install([k \in Keys |-> IF k \in expired THEN Null
                                      ELSE IF k \in valid
                                           THEN [slot[k] EXCEPT !.time = now,
                                                                !.ttl = MinOf(MaxItemTtl, t)]
                                      ELSE slot[k]],
                      {}, expired, expired # {}, 0)
           /\ CountReply("MTTL", ks, Cardinality(valid))

\* gbQueryMultiGetHandler: tr_search stages copies of the matched keys, the
\* expired items among them are destroyed (memused sampled while the copies
\* are still allocated), the copies are freed after the reply; a limit that
\* does not parse is NAN before any search
MGET(ks, limit) ==
    LET expired == {k \in Walked(ks) : Expired(slot[k])}
    IN  \/ limit = NaN /\ Keep /\ Reply("MGET", ks, "ERR_NAN", 0)
        \/ /\ limit # NaN
           /\ Install([k \in Keys |-> IF k \in expired THEN Null ELSE slot[k]],
                      {}, expired, expired # {}, Cardinality(Walked(ks)))
           /\ CountReply("MGET", ks, Cardinality(Walked(ks) \ expired))

\* gbQueryMultiDelHandler / gbMultiDelCallback: locked items are skipped,
\* every other matched item is destroyed, only the live ones are counted
MDEL(ks) ==
    LET free == {k \in Walked(ks) : ~IsLocked(slot[k])}
    IN  /\ Drop(free)
        /\ CountReply("MDEL", ks, Cardinality({k \in free : ~Expired(slot[k])}))

(***************************************************************************)
(* gbQueryMultiIncDecHandler / gbMultiIncDecCallback: locked items are     *)
(* skipped before expiry is looked at; a NUMBER item is stepped, a PLAIN   *)
(* one promoted when it parses and skipped otherwise; an LZF item matches  *)
(* neither branch and falls through to "return 1".                        *)
(***************************************************************************)
MINCDEC(ks, delta) ==
    LET op       == IF delta = 1 THEN "MINC" ELSE "MDEC"
        free     == {k \in Walked(ks) : ~IsLocked(slot[k])}
        expired  == {k \in free : Expired(slot[k])}
        valid    == free \ expired
        numbers  == {k \in valid : slot[k].enc = "NUMBER"}
        promoted == {k \in valid : slot[k].enc = "PLAIN" /\ Parse!ParseLong(slot[k].bytes).ok}
        lzf      == {k \in valid : slot[k].enc = "LZF"}
    IN  /\ Install([k \in Keys |->
                     IF k \in expired THEN Null
                     ELSE IF k \in numbers
                          THEN [slot[k] EXCEPT !.num = Parse!LongT(@ + delta)]
                     ELSE IF k \in promoted
                          THEN [slot[k] EXCEPT
                                  !.num   = Parse!LongT(Parse!ParseLong(slot[k].bytes).n + delta),
                                  !.bytes = <<>>,
                                  !.enc  = "NUMBER"]
                     ELSE slot[k]],
                   {}, expired, expired \cup promoted # {}, 0)
        /\ CountReply(op, ks, Cardinality(numbers \cup promoted \cup lzf))

\* gbQueryMultiLockHandler: the lock time is parsed before the walk;
\* gbMultiLockCallback checks expiry first, then the lock
MLOCK(ks, l) ==
    LET expired == {k \in Walked(ks) : Expired(slot[k])}
        locked  == {k \in Walked(ks) \ expired : ~IsLocked(slot[k])}
    IN  \/ l = NaN /\ Keep /\ Reply("MLOCK", ks, "ERR_NAN", 0)
        \/ /\ l # NaN
           /\ Install([k \in Keys |-> IF k \in expired THEN Null
                                      ELSE IF k \in locked
                                           THEN [slot[k] EXCEPT !.time = now, !.lock = l]
                                      ELSE slot[k]],
                      {}, expired, expired # {}, 0)
           /\ CountReply("MLOCK", ks, Cardinality(locked))

\* gbQueryMultiUnlockHandler / gbMultiUnlockCallback
MUNLOCK(ks) ==
    LET expired == {k \in Walked(ks) : Expired(slot[k])}
        valid   == Walked(ks) \ expired
    IN  /\ Install([k \in Keys |-> IF k \in expired THEN Null
                                   ELSE IF k \in valid THEN [slot[k] EXCEPT !.lock = 0]
                                   ELSE slot[k]],
                   {}, expired, expired # {}, 0)
        /\ CountReply("MUNLOCK", ks, Cardinality(valid))

\* gbQueryCountHandler / gbCountCallback: replies VAL even for a zero count
COUNT(ks) ==
    LET expired == {k \in Walked(ks) : Expired(slot[k])}
    IN  /\ Drop(expired)
        /\ Reply("COUNT", ks, "VAL", Cardinality(Walked(ks) \ expired))

\* gbQueryKeysHandler: lists the matched keys without looking at expiry;
\* its volatile items are created and destroyed within the handler
KEYS(ks) == Keep /\ CountReply("KEYS", ks, Cardinality(Walked(ks)))

-----------------------------------------------------------------------------
(* gbProcessQuery and the handlers with no store effect *)

\* gbQueryStatsHandler: the staged volatile items are all destroyed again
STATS == Keep /\ Reply("STATS", {}, "VAL", 0)

PING == Keep /\ Reply("PING", {}, "OK", 0)

\* OP_END: OK with the close-after-reply flag
END == Keep /\ Reply("END", {}, "OK", 0)

\* an unknown opcode: GB_ERR goes back to the caller, nothing is enqueued
UNKNOWN == Keep /\ Reply("UNKNOWN", {}, "GB_ERR", 0)

\* the event-loop cron advancing server->stats.time
Tick == /\ now < MaxTime
        /\ now' = now + 1
        /\ UNCHANGED <<slot, nitems, ncompressed, memused, mempeak, reply>>

Request ==
    \/ \E k \in Keys :
          \/ GET(k) \/ DEL(k) \/ UNLOCK(k)
          \/ \E v \in Values, t \in TtlArgs \cup Unparsable : SET(k, v, t)
          \/ \E t \in TtlArgs \cup Unparsable : TTL(k, t)
          \/ \E d \in {1, -1} : INCDEC(k, d)
          \/ \E l \in LockArgs \cup Unparsable : LOCK(k, l)
          \/ \E f \in MetaArgs : META(k, f)
    \/ \E ks \in Patterns :
          \/ MDEL(ks) \/ MUNLOCK(ks) \/ COUNT(ks) \/ KEYS(ks)
          \/ \E limit \in {-1} \cup Unparsable : MGET(ks, limit)
          \/ \E v \in Values : MSET(ks, v)
          \/ \E t \in TtlArgs \cup Unparsable : MTTL(ks, t)
          \/ \E d \in {1, -1} : MINCDEC(ks, d)
          \/ \E l \in LockArgs \cup Unparsable : MLOCK(ks, l)
    \/ STATS \/ PING \/ END \/ UNKNOWN

Init ==
    /\ now = 0
    /\ slot = [k \in Keys |-> Null]
    /\ nitems = 0
    /\ ncompressed = 0
    /\ memused = 0
    /\ mempeak = 0
    /\ reply = NoReply

Next == (Request /\ UNCHANGED now) \/ Tick

Spec == Init /\ [][Next]_vars

-----------------------------------------------------------------------------
(* Properties *)

TypeOK ==
    /\ now \in 0..MaxTime
    /\ slot \in [Keys -> Item \cup {Null}]
    /\ \A k \in Present : slot[k].enc = "NUMBER" <=> slot[k].bytes = <<>>
    /\ nitems \in Nat /\ ncompressed \in Nat /\ memused \in Nat /\ mempeak \in Nat
    /\ reply \in [op: Ops, keys: SUBSET Keys, code: Codes, n: Int,
                  arg: MetaArgs \cup {"none"}]

(***************************************************************************)
(* The counters kept by gbCreateItem / gbDestroyItem stay exact over any   *)
(* sequence of requests: total_items is the number of items in the index, *)
(* total_compressed_items the number of LZF ones, and memused never        *)
(* under-reports the memory the items own, so the admission check of SET   *)
(* and MSET is never passed on a stale low sample.  Every handler path     *)
(* that creates, replaces, promotes or destroys an item, expiry on access  *)
(* inside pattern walks included, must pair its bookkeeping.               *)
(***************************************************************************)
ItemAccounting ==
    /\ nitems = Cardinality(Present)
    /\ ncompressed = Cardinality({k \in Present : slot[k].enc = "LZF"})
    /\ memused >= Footprint(slot)


(***************************************************************************)
(* Refinement of GibsonCache.  The items a client can observe are the      *)
(* unexpired ones; mapped to them, the lazy expiry of the handlers (an     *)
(* expired item lingers in the index until some access or walk destroys    *)
(* it) is indistinguishable from eager expiry, and every handler respects  *)
(* the locks: whatever order the handlers check lock and expiry in, no     *)
(* request writes, updates, removes or re-locks a live locked item, and no *)
(* expired item comes back.                                                *)
(***************************************************************************)
CacheView ==
    [k \in Keys |-> IF Live(k)
                    THEN [val  |-> <<slot[k].bytes, slot[k].num>>, born |-> slot[k].time,
                          ttl  |-> slot[k].ttl, lock |-> slot[k].lock]
                    ELSE Null]

Cache == INSTANCE GibsonCache WITH cache <- CacheView, Absent <- Null

CacheRefinement == Cache!Spec


(***************************************************************************)
(* Spec section 8, expiry determinism: for an item whose ttl has run out,  *)
(* any single-key access (GET, DEL, TTL, LOCK, UNLOCK, META, INC, DEC)     *)
(* returns NOT_FOUND and removes the item.                                 *)
(***************************************************************************)
ExpiredAccessIsNotFound ==
    [][ \A k \in Keys :
          ( /\ now' = now
            /\ reply'.op \in {"GET", "DEL", "TTL", "LOCK", "UNLOCK", "META", "INC", "DEC"}
            /\ reply'.keys = {k}
            /\ slot[k] # Null /\ Expired(slot[k]) )
          => reply'.code = "ERR_NOT_FOUND" /\ slot'[k] = Null ]_vars

(***************************************************************************)
(* Spec section 8, bulk atomicity is per item: MINC and MDEC report the    *)
(* number of matched items they actually changed.                          *)
(***************************************************************************)
MIncDecCountsChangedItems ==
    [][ now' = now /\ reply'.op \in {"MINC", "MDEC"}
        => reply'.n = Cardinality({k \in reply'.keys : slot'[k] # Null /\ slot'[k] # slot[k]}) ]_vars

(***************************************************************************)
(* Spec section 3: the peak-bytes counter follows every create and destroy,*)
(* so STATS never reports memory_used above memory_peak.  gbCreateItem is  *)
(* the only code that raises server->stats.mempeak, while gbDestroyItem    *)
(* and the INC/DEC promotion re-sample memused as well.                    *)
(***************************************************************************)
MemPeakBoundsMemUsed == mempeak >= memused

(***************************************************************************)
(* Spec sections 3.2 and 6: expiry is detected on access, a walk visiting  *)
(* an expired item destroys it, and a pattern that matches only expired    *)
(* items is NOT_FOUND.  So the pattern reads MGET, COUNT and KEYS report   *)
(* exactly the matched items that are still live.                         *)
(***************************************************************************)
PatternReadsCountLiveItems ==
    [][ now' = now /\ reply'.op \in {"MGET", "COUNT", "KEYS"}
        /\ reply'.code \in {"VAL", "ERR_NOT_FOUND"}
        => reply'.n = Cardinality({k \in reply'.keys : Live(k)}) ]_vars

(***************************************************************************)
(* Spec section 4.5: INC and DEC add the delta to the item's integer, in   *)
(* place for a NUMBER item and after parsing the bytes for a PLAIN one     *)
(* they promote, so the stored integer is the old one moved by exactly     *)
(* one.  The code adds to a long with no overflow check, in both paths.    *)
(***************************************************************************)
IncDecStepsByDelta ==
    [][ \A k \in Keys :
          ( /\ now' = now
            /\ reply'.op \in {"INC", "DEC"} /\ reply'.keys = {k} /\ reply'.code = "VAL"
            /\ slot[k] # Null )
          => slot'[k].num = (IF slot[k].enc = "NUMBER" THEN slot[k].num
                             ELSE Parse!ParseLong(slot[k].bytes).n)
                            + (IF reply'.op = "INC" THEN 1 ELSE -1) ]_vars

(***************************************************************************)
(* Spec section 7: every handler returns exactly one reply and recovers no *)
(* further, and a memory rejection destroys nothing.  A request answered   *)
(* ERR, NAN, MEM or LOCKED leaves every item and every counter as it was;  *)
(* only NOT_FOUND may carry the silent destruction of expired items.  The  *)
(* handlers parse, look up, check expiry and check the lock in different   *)
(* orders, and each error must be returned before the first write.        *)
(***************************************************************************)
ErrorRepliesChangeNothing ==
    [][ now' = now /\ reply'.code \in {"ERR", "ERR_NAN", "ERR_MEM", "ERR_LOCKED"}
        => UNCHANGED store ]_vars

(***************************************************************************)
(* Spec sections 4.4, 4.5 and 8, the single-key handlers against lazy      *)
(* expiry: a value or metadata reply (VAL) is only ever built from a live  *)
(* item (INC/DEC may also create one on an empty slot), and NOT_FOUND is   *)
(* only answered for a key with no live item, whose expired item, if any,  *)
(* is destroyed by the same request.                                       *)
(***************************************************************************)
SingleKeyRepliesMatchExpiry ==
    [][ \A k \in Keys :
          now' = now /\ reply'.keys = {k}
          /\ reply'.op \in {"GET", "DEL", "TTL", "INC", "DEC", "LOCK", "UNLOCK", "META"}
          => /\ reply'.code = "VAL" => slot[k] = Null \/ ~Expired(slot[k])
             /\ reply'.code = "ERR_NOT_FOUND" => ~Live(k) /\ slot'[k] = Null ]_vars
=============================================================================
