----------------------------- MODULE QueryParse -----------------------------
(***************************************************************************)
(* The request-payload parsers of src/src/query.c, as pure operators.      *)
(*                                                                         *)
(* A payload is the request buffer after the 2-byte opcode: a sequence of  *)
(* one-character strings, Len(buf) = client->buffer_size - sizeof(short).  *)
(* Lengths are size_t and wrap modulo 2^SizeBits; parsed integers are      *)
(* long and wrap modulo 2^LongBits (signed overflow is undefined in C; the *)
(* builds the server is compiled with wrap, which is the outcome used).    *)
(* Every parser returns a record: ok is its return value, the lengths are  *)
(* what it writes through its out-pointers, and vstart is the 1-based      *)
(* index of the byte that *value points at.                                *)
(***************************************************************************)
EXTENDS Integers, SequencesExt

CONSTANTS
    MaxKeySize,     \* server->limits.maxkeysize
    MaxValueSize,   \* server->limits.maxvaluesize
    SizeBits,       \* width of size_t
    LongBits        \* width of long

ASSUME MaxKeySize \in Nat \ {0} /\ MaxValueSize \in Nat \ {0}
ASSUME SizeBits \in Nat \ {0} /\ LongBits \in Nat \ {0}
ASSUME MaxValueSize < 2^SizeBits

SizeT(x) == x % 2^SizeBits
LongT(x) == ((x + 2^(LongBits - 1)) % 2^LongBits) - 2^(LongBits - 1)

MinOf(a, b) == IF a < b THEN a ELSE b          \* the min() macro of query.c

DigitValue == [c \in {"0","1","2","3","4","5","6","7","8","9"} |->
                 CHOOSE d \in 0..9 : <<"0","1","2","3","4","5","6","7","8","9">>[d + 1] = c]

\* mutant of ParseLong: the sign is parsed but never applied (*l = n)
ParseLongUnsigned(v) ==
    LET start  == IF v[1] = "-" THEN 2 ELSE 1
        digits == SubSeq(v, start, Len(v))
    IN  IF v[1] = "0" THEN [ok |-> TRUE, n |-> 0]
        ELSE IF \A i \in DOMAIN digits : digits[i] \in DOMAIN DigitValue
        THEN [ok |-> TRUE,
              n  |-> LongT(FoldLeft(LAMBDA acc, c : LongT(acc * 10 + DigitValue[c]),
                                    0, digits))]
        ELSE [ok |-> FALSE, n |-> 0]

(***************************************************************************)
(* gbQueryParseLong: a leading '0' short-circuits to 0 whatever follows; a *)
(* leading '-' sets the sign; every other byte must be a digit, and the    *)
(* value is accumulated as n*10 + digit in a long.                         *)
(***************************************************************************)
ParseLong(v) ==
    LET start  == IF v[1] = "-" THEN 2 ELSE 1
        digits == SubSeq(v, start, Len(v))
        sign   == IF v[1] = "-" THEN -1 ELSE 1
    IN  IF v[1] = "0" THEN [ok |-> TRUE, n |-> 0]
        ELSE IF \A i \in DOMAIN digits : digits[i] \in DOMAIN DigitValue
        THEN [ok |-> TRUE,
              n  |-> LongT(sign * FoldLeft(LAMBDA acc, c : LongT(acc * 10 + DigitValue[c]),
                                           0, digits))]
        ELSE [ok |-> FALSE, n |-> 0]

(***************************************************************************)
(* The scanning loop shared by the parsers,                                *)
(*     while( i++ < end && *p != ' ' ) ++p;                                *)
(* counts the non-space bytes from position from on, stopping at limit.    *)
(***************************************************************************)
TokenLen(buf, from, limit) ==
    IF limit <= 0 THEN 0
    ELSE Min({j \in 0..limit : j = limit \/ buf[from + j] = " "})

(* gbParseKeyValue; withValue is FALSE where the handler passes value = NULL. *)
ParseKeyValue(buf, withValue) ==
    LET size == Len(buf)
        klen == TokenLen(buf, 1, MinOf(size, MaxKeySize))
        vlen == MinOf(SizeT(size - klen - 1), MaxValueSize)
    IN  [ok     |-> klen > 0 /\ (withValue => vlen > 0),
         klen   |-> klen,
         vstart |-> klen + 2,
         vlen   |-> IF withValue THEN vlen ELSE 0]

(* gbParseKeyAndOptionalValue: the value is absent when no byte follows the key. *)
ParseKeyAndOptionalValue(buf) ==
    LET size    == Len(buf)
        klen    == TokenLen(buf, 1, MinOf(size, MaxKeySize))
        left    == SizeT(size - klen)
        present == left > 0
        vlen    == IF present THEN MinOf(SizeT(left - 1), MaxValueSize) ELSE 0
    IN  [ok      |-> klen > 0 /\ ~(present /\ vlen <= 0),
         klen    |-> klen,
         present |-> present,
         vstart  |-> klen + 2,
         vlen    |-> vlen]

(***************************************************************************)
(* gbParseTtlKeyValue: the key loop continues the counter i of the ttl     *)
(* loop against the same end, so the ttl, its space and the key share one  *)
(* budget of min(size, maxkeysize) bytes.                                  *)
(***************************************************************************)
ParseTtlKeyValue(buf) ==
    LET size   == Len(buf)
        end    == MinOf(size, MaxKeySize)
        ttllen == TokenLen(buf, 1, end)
        klen   == TokenLen(buf, ttllen + 2, end - ttllen - 1)
        vlen   == MinOf(SizeT(size - ttllen - klen - 2), MaxValueSize)
    IN  [ok     |-> ttllen > 0 /\ klen > 0 /\ vlen > 0,
         ttllen |-> ttllen,
         kstart |-> ttllen + 2,
         klen   |-> klen,
         vstart |-> ttllen + klen + 3,
         vlen   |-> vlen]

=============================================================================
