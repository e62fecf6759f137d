# TLA+ models of the Gibson query layer

This directory models `src/src/query.c`, the request layer of the Gibson
cache server. It has the payload parsers, the item lifecycle, and every
handler dispatched by `gbProcessQuery`. The modules and runs are listed in
`PROJECT.json`, together with the source lines each definition translates.

## The system

Gibson is a single-threaded, event-driven key/value cache. A client request
is a 2-byte opcode followed by a payload. `gbProcessQuery` dispatches the
request to one handler, and the handler runs to completion before the event
loop serves anything else. A cron callback outside this repository advances
`server->stats.time` once a second.

Parts and how they interact:

| Part | Code | Module |
|---|---|---|
| Payload parsers | `gbQueryParseLong`, `gbParseKeyValue`, `gbParseKeyAndOptionalValue`, `gbParseTtlKeyValue` | `QueryParse` |
| Item lifecycle, stats counters | `gbCreateItem`, `gbDestroyItem`, `gbItemIsLocked`, `gbIsNodeStillValid`, `gbIsItemStillValid`, `gbSingleSet` | `GibsonQuery` |
| Single-key handlers | GET SET TTL DEL INC DEC LOCK UNLOCK META | `GibsonQuery` |
| Pattern handlers (`tr_search_callback` walks) | MSET MTTL MGET MDEL MINC MDEC MLOCK MUNLOCK COUNT KEYS | `GibsonQuery` |
| Dispatcher | `gbProcessQuery`, STATS, PING, END, unknown opcodes | `GibsonQuery` |
| Client-visible contract | spec sections 5 and 8 | `GibsonCache` |

Handlers parse their payload with the parsers. They then look items up in
the trie, which is not in this repository. An item is either PLAIN, LZF or
NUMBER. It carries one `time` field, from which both its ttl and its lock
are counted. Expiry is lazy: an item whose ttl has run out is destroyed by
the next handler that touches it. Locks are advisory. An item is locked when
`lock == -1` or when `now - time < lock`. Every create, destroy, promotion and
`zmem_used()` sample updates the counters `nitems`, `ncompressed` and
`memused`.

## Modules

- **QueryParse** defines the parsers as pure operators on a payload, which is
  a sequence of one-character strings. `size_t` arithmetic wraps modulo
  `2^SizeBits`. `long` arithmetic wraps modulo `2^LongBits`, the outcome the
  builds produce for the undefined signed overflow. Each parser returns what
  the C function writes through its out-pointers.
- **GibsonQuery** is the store and every handler. Its state:
  - `now`: `server->stats.time`.
  - `slot`: the trie as key → item or `Null`.
  - `nitems`, `ncompressed`, `memused`, `mempeak`: the stats. `mempeak` is
    tracked only when `TrackPeak` is TRUE, to keep the other runs small.
  - `reply`: the last reply's opcode, keys, code, number (a count, or the
    value META returns) and sub-operation argument (the META field). It is
    kept only when `KeepReplies` is TRUE.

  A client argument that `gbQueryParseLong` rejects is the model value
  `NaN`. It is passed to SET, TTL, LOCK, MTTL, MLOCK and MGET, and each
  takes its NAN branch at the point where its handler parses.

  META takes the field `gbGetItemMeta` selects: `created`, `ttl`, `left`,
  `lock`, or an unknown name that answers ERR. `MetaValue` computes the
  returned long as the code does, `left` from `server->stats.time`. The
  `size`, `encoding` and `access` fields are not enumerated. The model does
  not track the stored byte count or `last_access_time`, and it keeps the
  encoding as a name, not as the `GB_ENC_*` number.

  Each handler is one action. Its branches are the handler's `if`/`else`
  paths, in the code's order, so the lock is checked before expiry where
  the code does so. A pattern is any subset of the keys. A walk updates
  every matched present key at once. This is sound because a callback only
  touches its own node, and the handler's reply counts what the callbacks
  returned. `Install` is the shared bookkeeping of `gbCreateItem` and
  `gbDestroyItem`. When the code calls `zmem_used()`, memused is re-sampled
  as one unit per non-NUMBER item plus the key copies a search has staged.
  `gbCreateItem` raises `mempeak` to its sample. `PeakSample` is the
  highest sample a creation of the step can take. `gbSingleSet` creates
  the new item before destroying the one it replaces, and the index order
  of a walk is not modelled, so this is an over-approximation. A peak that
  is too high can only hide a `MemPeakBoundsMemUsed` violation, never
  invent one. `Tick` is the cron tick, bounded by `MaxTime`.
- **GibsonCache** is the abstract contract, with eager expiry. An entry
  exists until its ttl runs out or it is removed while unlocked. While a lock
  holds, only a ttl change or an unlock may touch the entry.
  `GibsonQuery!CacheView` maps the concrete state to it. Items whose ttl ran
  out are hidden, and a NUMBER item's value is its number.
- **MCGibsonQuery**, **MCQueryParse** and **MCParseLong** instantiate the
  modules for TLC.

## Runs

| Run | Checks | Result |
|---|---|---|
| `gibson_core` (`MCGibsonQuery.cfg`) | `TypeOK`, `ItemAccounting`, `CacheRefinement` | pass, about 150k distinct states |
| `parse_long` (`MCParseLong.cfg`) | `ParseLongRoundTrip` | pass, 256 states |
| `gibson_replies` (`MCGibsonQuery_replies.cfg`) | `ErrorRepliesChangeNothing`, `SingleKeyRepliesMatchExpiry` | pass, about 44k states |
| `expiry_vs_lock` (`MCGibsonQuery_expiry.cfg`) | `ExpiredAccessIsNotFound` | violation |
| `mincdec_count` (`MCGibsonQuery_mincount.cfg`) | `MIncDecCountsChangedItems` | violation |
| `value_overread` | `ValueWithinPayload` | violation |
| `parse_long_spec` | `ParseLongAcceptsSpecNumerals` | violation |
| `set_key_clamp` | `SetKeyClampedToMaxKeySize` | violation |
| `value_after_space` | `ValueFollowsSpace` | violation |
| `mempeak_stale` (`MCGibsonQuery_mempeak.cfg`) | `MemPeakBoundsMemUsed` | violation |
| `keys_expired` (`MCGibsonQuery_keys.cfg`) | `PatternReadsCountLiveItems` | violation |
| `inc_wrap` (`MCGibsonQuery_incwrap.cfg`) | `IncDecStepsByDelta` | violation |

What the passing runs show:

- `ItemAccounting`: after any sequence of requests and ticks, `nitems` is
  the number of items in the store and `ncompressed` the number of LZF
  items. `memused` never under-reports what items own. The sequences include
  expiry inside walks, promotion by INC and replacement by SET.
- `CacheRefinement`: every request and tick is a step of `GibsonCache`. No
  handler changes, replaces, removes or re-locks a locked live item. No
  expired item becomes visible again, and every creation starts a fresh
  clock.
- `ParseLongRoundTrip`: every `long` printed by `%ld` parses back to itself.
- `ErrorRepliesChangeNothing`: a request answered ERR, NAN, MEM or LOCKED
  changes no item and no counter. This covers every order in which the
  handlers parse, look up, check expiry and check the lock. LOCK, for
  example, touches the item before its lock test.
- `SingleKeyRepliesMatchExpiry`: a single-key handler answers VAL only from
  a live item, or from a fresh item INC/DEC creates. It answers NOT_FOUND
  only when no live item exists, and then the expired item is destroyed in
  the same request. The converse, that every expired item is answered
  NOT_FOUND, fails for DEL (`expiry_vs_lock`).

What the violations show:

- **`value_overread`** is a code bug. With a key and no value byte,
  `size - klen - 1` underflows (query.c:305, 357). The parser then reports a
  value of `maxvaluesize` bytes that starts past the end of the request.
- **`parse_long_spec`**: a leading `'0'` short-circuits the parser, so `"0-"`
  parses as 0 (query.c:51). Spec 4.1 says a non-digit aborts with NAN. (A
  lone `"-"` also parses as 0, but the spec's wording, a sign and then
  digits, does not clearly exclude it, so the property does not count it.)
- **`set_key_clamp`**: the ttl of SET consumes the key's `maxkeysize` budget
  (query.c:343).
- **`expiry_vs_lock`**: DEL on an item whose ttl expired but whose lock
  still holds answers `ERR_LOCKED` and keeps the item (query.c:758).
- **`mincdec_count`**: MINC and MDEC count LZF items they do not change. An
  LZF item falls through to `return 1` (query.c:939). An unparsable PLAIN
  item returns 0 (936) and is not counted.
- **`value_after_space`**: `*klen = p++ - *key` (query.c:246, 297) skips a
  byte even when the key was cut at `maxkeysize`. The rest of the key then
  becomes the value: MGET `"abcd7"` with maxkeysize 3 reads limit `"7"`.
- **`mempeak_stale`**: only `gbCreateItem` raises `mempeak` (query.c:142).
  Suppose MGET destroys an expired item while the copies of the matched
  keys are still allocated. The sample then exceeds the peak, and STATS
  reports `memory_used > memory_peak`. Spec section 3 says the peak updates
  on every create and destroy.
- **`keys_expired`**: KEYS never checks expiry (query.c:1353). After SET and a
  tick past the ttl, KEYS answers VAL and counts the expired item, which
  stays allocated. The property covers only the counting replies (VAL and
  NOT_FOUND), and MGET and COUNT satisfy it.
- **`inc_wrap`** is a code bug. INC and DEC add the delta to a long with no
  overflow check. This holds both when they promote a PLAIN numeral
  (query.c:871) and in place on a NUMBER item (865; MINC and MDEC at 920).
  In the trace, SET `"3"` is followed by INC. The promotion then stores -4
  in a 3-bit long. The overflow is signed, so undefined in C, and the builds
  wrap. Spec 4.1 asks for saturation or rejection.

Every property of a passing run has a mutant in `PROJECT.json`, and TLC
finds the property violated under it:

| Mutant | Property it violates |
|---|---|
| `INCDECKeepingEncoding` | `TypeOK` |
| `InstallKeepingCompressed` | `ItemAccounting` |
| `MSETIgnoringLocks` | `CacheRefinement` |
| `ParseLongUnsigned` | `ParseLongRoundTrip` |
| `GETKeepingExpired` | `SingleKeyRepliesMatchExpiry` |
| `LOCKTouchingWhenLocked` | `ErrorRepliesChangeNothing` |

## Bounds

`gibson_core` uses the following bounds:

- Two keys, under key symmetry.
- Three values:
  - `"3"`, a numeral INC promotes;
  - `"x"`, which is not a numeral;
  - a 5-byte value above `Compression = 4` that compresses to LZF.
- ttl arguments {-1, 1, 3} and lock arguments {-1, 2}.
- `MaxItemTtl = 2`, so the ttl clamp fires.
- `MaxMem = 1`, so both branches of the memory admission check happen.
- `MaxTime = 3`, so items can expire after a lock, a re-lock or a TTL.
- `LongBits = 3`, so INC and DEC wrap within reach.

The core run records no replies, so it leaves out three kinds of input
that would only add stuttering steps (`MCGibsonQuery.tla` says why each is
one):
- rejected arguments (`Unparsable = {}`);
- patterns that match no key (`Patterns` without `{}`);
- all but one known META field (`MetaArgs`).

Leaving them out does not change what the run reaches: the full input sets
give the same 150,193 distinct states. It only cuts the successors TLC
generates, from about 19 million to about 14 million, and the run's time
from about 3 minutes to under 2. `gibson_replies` and the violation runs
enumerate every input.

Across the passing runs, coverage output shows that every action and every
disjunct fires.

`gibson_replies` records replies, which multiplies the state space. With
two keys the run does not finish in 20 minutes, so it uses one key and
otherwise the same bounds. Its two properties are per key, and with one
key the pattern handlers still see both an empty and a full match.

The parser runs take every payload of up to 5 bytes over an alphabet of
space, digits, `-` and a letter, with `MaxKeySize = 3`. That is enough for a
key, a ttl and a value to compete for the budget.

## Fairness and liveness

No liveness property is checked, and no fairness is assumed. Expiry is lazy
by design, so an expired item is only reclaimed when something touches it.
A timed lock ends by the arithmetic of `gbItemIsLocked` alone, once the
clock passes its deadline. Each handler is one atomic step of a
single-threaded loop and never waits, so nothing can starve.

## Not modelled

- The trie, the reply encoder, the network layer, LZF, `zmem` and `opool`.
  They are not in this repository.
- STATS averages and reply formatting.
- The `last_access_time` fields, which no decision reads.
- Payloads the key parsers reject (the `ERR` branch of every handler). That
  branch returns before any lookup. The parsers themselves are checked in
  `MCQueryParse`.

No memory bound is checked. INC and DEC on absent keys skip the admission
check (query.c:842), and MSET checks it once per walk (query.c:516). The spec
makes no stronger promise: spec 7 calls memory limits advisory.

META compares the field name with `strncmp` over
`min(mlen, strlen(field))` (query.c:1263). So a prefix or an extension of a
field name is accepted: `"l"` reads `left` and `"sizes"` reads `size`. Spec
4.4 says an unknown field is ERR. The model abstracts the name to the field
it selects, so no run checks this.

COUNT replies `VAL 0` for a pattern with no live match (query.c:1173). Spec
4.6 says such a reply is NOT_FOUND, but the spec's own COUNT example expects
VAL. The model follows the code, and no property is checked.

## Plan for later sittings

1. The META name matching over name byte sequences, if a run can be freed
   for it.
2. Larger instances of the core run (three keys) once the state space allows.
