---------------------------- MODULE MCParseLong -----------------------------
(***************************************************************************)
(* Checks gbQueryParseLong against a reference formatter over every long   *)
(* of a LongBits-wide machine: one state per value.                        *)
(***************************************************************************)
EXTENDS QueryParse

LongRange == -(2^(LongBits - 1))..(2^(LongBits - 1) - 1)

DigitChar(d) == <<"0","1","2","3","4","5","6","7","8","9">>[d + 1]

\* sprintf( s, "%ld", m ) for m >= 0, the reference the parser must invert
RECURSIVE Unsigned(_)
Unsigned(m) == IF m < 10 THEN <<DigitChar(m)>>
               ELSE Unsigned(m \div 10) \o <<DigitChar(m % 10)>>

Decimal(m) == IF m < 0 THEN <<"-">> \o Unsigned(-m) ELSE Unsigned(m)

VARIABLE n

Init == n \in LongRange
Next == UNCHANGED n
Spec == Init /\ [][Next]_n



(***************************************************************************)
(* Every long printed in decimal parses back to itself, LONG_MIN included  *)
(* (its magnitude overflows and wraps back to LONG_MIN).  This is what     *)
(* makes INC/DEC on an item SET from a printed number, and TTL/LOCK        *)
(* arguments, read the number the client sent.                             *)
(***************************************************************************)
ParseLongRoundTrip == ParseLong(Decimal(n)) = [ok |-> TRUE, n |-> n]
=============================================================================
