--------------------------- MODULE MCGibsonQuery ---------------------------
(***************************************************************************)
(* A small instance of GibsonQuery for TLC.                                *)
(*   - two keys, symmetric: handlers never compare keys except for         *)
(*     equality and patterns range over every subset of them;              *)
(*   - a numeric payload "3" (INC from it reaches the long boundary of a   *)
(*     3-bit long and wraps), a non-numeric one, and a 5-byte numeric one  *)
(*     above the compression threshold that the codec shrinks (LZF);       *)
(*   - ttl arguments below, at and above maxitemttl = 2, including -1;     *)
(*   - lock arguments -1 (forever) and 2 seconds;                       *)
(*   - maxmem of one buffer, so the MEM admission path is reached;         *)
(*   - time up to 3 seconds, enough for a 2-second ttl or lock to run out  *)
(*     after being restarted once.                                         *)
(***************************************************************************)
EXTENDS GibsonQuery, TLC

CONSTANTS k1, k2

MCKeys == {k1, k2}
MCValues == {<<"3">>, <<"x">>, <<"5", "5", "5", "5", "5">>}
MCLzfShrinks == {<<"5", "5", "5", "5", "5">>}
MCTtlArgs == {-1, 1, 3}
MCLockArgs == {-1, 2}
\* every field META answers, and one name it does not know
MCMetaArgs == {"created", "ttl", "left", "lock", "other"}
\* where replies are not recorded the field only decides VAL or ERR, and
\* both come with the same store step, so one known field is enough
MCStoreMetaArgs == {"left", "other"}
\* every pattern, the empty match included, and a rejected argument
MCPatterns == SUBSET Keys
MCUnparsable == {NaN}
(***************************************************************************)
(* Where replies are not recorded, a request with a rejected argument or a *)
(* pattern that matches no key leaves the store as it is (its error or     *)
(* NOT_FOUND reply is all it does, which ErrorRepliesChangeNothing checks  *)
(* with replies recorded): it is a stuttering step, which [][Next]_vars    *)
(* admits anyway, so leaving it out changes neither the reachable states   *)
(* nor the steps that change them, only the work of generating them.       *)
(***************************************************************************)
MCMatchingPatterns == SUBSET Keys \ {{}}
MCSymmetry == Permutations(MCKeys)
=============================================================================
