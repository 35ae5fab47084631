------------------------------ MODULE Responses ------------------------------
(***************************************************************************)
(* protocol/response.rs: one line from the server, parsed.  A tag has a    *)
(* fixed list of arguments; the last keeps its commas; every argument that *)
(* is not a number is percent-decoded, but for the values of an update.    *)
(***************************************************************************)
EXTENDS Requests

CONSTANTS MaxU32, MaxU64, MaxI64   \* the widths a number is parsed in

ASSUME WidthAssumption == MaxU32 \in Nat /\ MaxU64 \in Nat /\ MaxI64 \in Nat

(* How each argument of a tag is read.                                     *)
SubscriptionTags ==
    "U" :> <<"u32", "u32", "raw">> @@ "SUBOK" :> <<"u32", "u32", "u32">>
    @@ "SUBCMD" :> <<"u32", "u32", "u32", "u32", "u32">> @@ "UNSUB" :> <<"u32">>
    @@ "EOS" :> <<"u32", "u32">> @@ "CS" :> <<"u32", "u32">>
    @@ "OV" :> <<"u32", "u32", "u64">> @@ "CONF" :> <<"u32", "frequency", "filtering">>
MessageTags ==
    "MSGDONE" :> <<"sequence", "u64", "text">>
    @@ "MSGFAIL" :> <<"sequence", "u64", "i64", "text">>
SessionTags ==
    "CONS" :> <<"bandwidth">> @@ "SYNC" :> <<"u64">> @@ "CLIENTIP" :> <<"text">>
    @@ "SERVNAME" :> <<"text">> @@ "PROG" :> <<"u64">> @@ "NOOP" :> <<"text">>
    @@ "PROBE" :> << >> @@ "LOOP" :> <<"u64">> @@ "END" :> <<"i64", "text">>
RequestTags ==
    "CONOK" :> <<"text", "u64", "u64", "link">> @@ "CONERR" :> <<"i64", "text">>
    @@ "REQOK" :> <<"text">> @@ "REQERR" :> <<"text", "i64", "text">>
    @@ "ERROR" :> <<"i64", "text">> @@ "WSOK" :> << >>
Signature == SubscriptionTags @@ MessageTags @@ SessionTags @@ RequestTags

-----------------------------------------------------------------------------
(* number: a sign, then digits, and no more than the type holds.           *)

DigitValue == [d \in Digits |-> CHOOSE n \in 0 .. 9 : ToString(n) = d]
Magnitude(digits) == Scan(LAMBDA sum, d : sum * 10 + DigitValue[d], 0, digits)

NotNumeric == [ok |-> FALSE, reason |-> "not numeric"]
Read(value) == [ok |-> TRUE, value |-> value]
Number(text, lowest, highest) ==
    LET signed == text # << >> /\ text[1] \in {"+"} \cup (IF lowest < 0 THEN {"-"} ELSE {})
        digits == IF signed THEN Tail(text) ELSE text
        value  == (IF signed /\ text[1] = "-" THEN -1 ELSE 1) * Magnitude(digits)
    IN  IF AllDigits(digits) /\ value \in lowest .. highest THEN Read(value) ELSE NotNumeric

(* What is not one of the words or a decimal number is kept as it came.    *)
Limit(text, words) ==
    IF text \in words THEN [is |-> text[1]]
    ELSE IF IsDecimalNumber(text) THEN [is |-> "limited", by |-> text]
    ELSE [is |-> "unrecognized", literal |-> text]
MaxFrequency(text) == Limit(text, {Word("unlimited")})
Bandwidth(text) == Limit(text, {Word("unlimited"), Word("unmanaged")})
Filtering(text) ==
    IF text \in {Word("filtered"), Word("unfiltered")} THEN [is |-> text[1]]
    ELSE [is |-> "unrecognized", literal |-> text]
UnlessStar(text) == IF text = <<"*">> THEN Absent ELSE Given(text)

Textual(sort, decoded) ==
    IF ~decoded.ok THEN decoded
    ELSE CASE sort = "text" -> Read(decoded.text)
           [] sort = "frequency" -> Read(MaxFrequency(decoded.text))
           [] sort = "filtering" -> Read(Filtering(decoded.text))
           [] sort = "bandwidth" -> Read(Bandwidth(decoded.text))
           [] OTHER -> Read(UnlessStar(decoded.text))   \* a sequence, a control link

Argument(sort, text) ==
    CASE sort = "raw" -> Read(text)
      [] sort = "u32" -> Number(text, 0, MaxU32)
      [] sort = "u64" -> Number(text, 0, MaxU64)
      [] sort = "i64" -> Number(text, -MaxI64 - 1, MaxI64)
      [] OTHER -> Textual(sort, PercentDecode(text))

-----------------------------------------------------------------------------
(* One line end is tolerated, no more.                                     *)
StripTerminator(line) ==
    IF IsSuffix(<<CR, LF>>, line) THEN SubSeq(line, 1, Len(line) - 2)
    ELSE IF line # << >> /\ Last(line) \in {CR, LF} THEN Front(line)
    ELSE line

Commas(text) == {k \in DOMAIN text : text[k] = ","}
\* Every comma parts.
SplitAll(count, text) ==
    LET part(state, octet) ==
            IF octet = "," THEN Append(state, << >>)
            ELSE [state EXCEPT ![Len(state)] = Append(@, octet)]
    IN  Scan(part, << << >> >>, text)

(* splitn: the first count - 1 commas part, the others belong to the last. *)
SplitFixed(count, text) ==
    LET part(state, octet) ==
            IF octet = "," /\ Len(state) < count THEN Append(state, << >>)
            ELSE [state EXCEPT ![Len(state)] = Append(@, octet)]
    IN  Scan(part, << << >> >>, text)

Malformed(reason) == [ok |-> FALSE, reason |-> reason]

ParseLine(raw) ==
    LET line  == StripTerminator(raw)
        comma == Commas(line) # {}
        at    == CHOOSE k \in Commas(line) : \A j \in Commas(line) : k <= j
        tag   == IF comma THEN SubSeq(line, 1, at - 1) ELSE line
        rest  == IF comma THEN SubSeq(line, at + 1, Len(line)) ELSE << >>
    IN  IF ~(Len(tag) = 1 /\ tag[1] \in DOMAIN Signature) THEN Malformed("unknown tag")
        ELSE LET sorts == IF tag[1] = "REQOK" /\ ~comma THEN << >> ELSE Signature[tag[1]]
                 parts == IF comma THEN SplitFixed(Len(sorts), rest) ELSE << >>
                 read  == [k \in DOMAIN sorts |-> Argument(sorts[k], parts[k])]
             IN  IF (comma /\ sorts = << >>) \/ Len(parts) # Len(sorts)
                 THEN Malformed("argument count")
                 ELSE IF \E k \in DOMAIN read : ~read[k].ok THEN Malformed("argument")
                 ELSE [ok |-> TRUE, tag |-> tag[1],
                       arguments |-> [k \in DOMAIN read |-> read[k].value]]
=============================================================================
