---------------------------- MODULE MCQueryParse ----------------------------
(***************************************************************************)
(* Runs the parsers of QueryParse on every payload up to MaxLen bytes over *)
(* a small alphabet: a space, two digits, a sign and a letter.  Each state *)
(* is one payload, so an invariant is checked against every payload.       *)
(***************************************************************************)
EXTENDS QueryParse

CONSTANT MaxLen

Alphabet == {" ", "0", "7", "-", "x"}

Payloads == UNION {[1..len -> Alphabet] : len \in 1..MaxLen}

VARIABLE buf

Init == buf \in Payloads
Next == UNCHANGED buf
Spec == Init /\ [][Next]_buf

TypeOK == buf \in Payloads

(***************************************************************************)
(* Spec 4.1: a parsed value is the rest of the payload after the key, of   *)
(* length L - klen - 1 (resp. L - ttllen - klen - 2 for SET).  Here: every *)
(* value that gbParseKeyValue and gbParseTtlKeyValue accept lies inside    *)
(* the payload, so no handler reads past the request buffer.               *)
(***************************************************************************)
ValueWithinPayload ==
    /\ LET r == ParseKeyValue(buf, TRUE)
       IN  r.ok => r.vstart + r.vlen - 1 <= Len(buf)
    /\ LET r == ParseTtlKeyValue(buf)
       IN  r.ok => r.vstart + r.vlen - 1 <= Len(buf)

(***************************************************************************)
(* Spec 4.1: gbQueryParseLong accepts an optional leading '-' followed by  *)
(* ASCII digits only, "0" being a short-circuit zero, and answers NAN for  *)
(* anything else.  Here: the code accepts exactly those payloads.          *)
(***************************************************************************)
SpecNumeral(v) ==
    \/ v = <<"0">>
    \/ LET digits == IF v[1] = "-" THEN SubSeq(v, 2, Len(v)) ELSE v
       IN  \A i \in DOMAIN digits : digits[i] \in DOMAIN DigitValue

ParseLongAcceptsSpecNumerals == ParseLong(buf).ok <=> SpecNumeral(buf)

(***************************************************************************)
(* Spec 4.1 and 8 (key size clamping): the key of a SET payload            *)
(* "ttl key value" is the token after the ttl, truncated to maxkeysize     *)
(* bytes only, and the value starts right after the space that ends it.    *)
(***************************************************************************)
SetKeyClampedToMaxKeySize ==
    LET r     == ParseTtlKeyValue(buf)
        token == TokenLen(buf, r.ttllen + 2, Len(buf) - r.ttllen - 1)
    IN  r.ok => r.klen = MinOf(token, MaxKeySize)

(***************************************************************************)
(* Spec 4.1: the value is the remainder after the single space that ends   *)
(* the key, and a key longer than maxkeysize is truncated.  Here: a value  *)
(* that gbParseKeyValue or gbParseKeyAndOptionalValue hands to MSET, MTTL, *)
(* MLOCK, LOCK, META or MGET is always preceded by a space in the payload. *)
(* *klen = p++ - *key skips one byte whether or not it is the space.       *)
(***************************************************************************)
ValueFollowsSpace ==
    /\ LET r == ParseKeyValue(buf, TRUE)
       IN  r.ok /\ r.vstart - 1 <= Len(buf) => buf[r.vstart - 1] = " "
    /\ LET r == ParseKeyAndOptionalValue(buf)
       IN  r.ok /\ r.present /\ r.vstart - 1 <= Len(buf) => buf[r.vstart - 1] = " "
=============================================================================
