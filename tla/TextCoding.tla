------------------------------ MODULE TextCoding ------------------------------
(***************************************************************************)
(* protocol/escaping.rs: the percent-encoding a value travels in, and its  *)
(* decoding.  A text is a sequence of octets, an octet a string; Codes     *)
(* gives the two hexadecimal digits of those that have to be encoded.      *)
(***************************************************************************)
EXTENDS Naturals, Sequences, SequencesExt, TLC

CR == "CR"
LF == "LF"
Lead == "lead"    \* C3, the first octet of a two-octet character
Tail2 == "tail"   \* A9, its second
Nul == "NUL"

Codes ==
    "%" :> <<"2", "5">> @@ "&" :> <<"2", "6">> @@ "=" :> <<"3", "D">> @@ " " :> <<"2", "0">>
    @@ "+" :> <<"2", "B">> @@ "," :> <<"2", "C">> @@ "*" :> <<"2", "A">>
    @@ Nul :> <<"0", "0">> @@ CR :> <<"0", "D">> @@ LF :> <<"0", "A">> @@ Lead :> <<"C", "3">> @@ Tail2 :> <<"A", "9">>

Lower == "A" :> "a" @@ "B" :> "b" @@ "C" :> "c" @@ "D" :> "d"
Digits == {"0", "1", "2", "3", "4", "5", "6", "7", "8", "9"}
HexDigits == Digits \cup DOMAIN Lower \cup {Lower[d] : d \in DOMAIN Lower}
HexValue(d) == IF \E u \in DOMAIN Lower : Lower[u] = d
               THEN CHOOSE u \in DOMAIN Lower : Lower[u] = d ELSE d

\* A plus left as it is.
UnreservedPlus(octet) == octet \notin DOMAIN Codes \ {"+"}

(* Letters, digits and - . _ ~ stand for themselves, but may be encoded.   *)
Unreserved(octet) == octet \notin DOMAIN Codes
AllCodes == Codes @@ "a" :> <<"6", "1">> @@ "A" :> <<"4", "1">>

(* Left to right over a text: FoldLeft, for texts of some length.          *)
Scan(Step(_, _), start, text) ==
    LET upTo[k \in 0 .. Len(text)] ==
            IF k = 0 THEN start ELSE Step(upTo[k - 1], text[k])
    IN  upTo[Len(text)]

EncodeFormValue(text) ==
    IF \A k \in DOMAIN text : Unreserved(text[k]) THEN text
    ELSE FlattenSeq([k \in DOMAIN text |->
        IF Unreserved(text[k]) THEN <<text[k]>> ELSE <<"%">> \o Codes[text[k]]])

-----------------------------------------------------------------------------
IsUtf8(text) ==
    \A k \in DOMAIN text :
        /\ text[k] = Lead  => k < Len(text) /\ text[k + 1] = Tail2
        /\ text[k] = Tail2 => k > 1 /\ text[k - 1] = Lead

Escaping(reason) == [ok |-> FALSE, reason |-> reason]
Plain(text) == [ok |-> TRUE, text |-> text]

OctetOf(high, low) == CHOOSE o \in DOMAIN AllCodes : AllCodes[o] = <<HexValue(high), HexValue(low)>>

(* One octet more: a "%" is held until both its digits are there.  A plus  *)
(* is a plus.                                                              *)
DecodeStep(state, octet) ==
    IF ~state.ok THEN state
    ELSE IF state.held = << >> /\ octet # "%" THEN [state EXCEPT !.text = Append(@, octet)]
    ELSE IF Len(state.held) < 2 THEN [state EXCEPT !.held = Append(@, octet)]
    ELSE IF {state.held[2], octet} \subseteq HexDigits
    THEN [state EXCEPT !.text = Append(@, OctetOf(state.held[2], octet)), !.held = << >>]
    ELSE Escaping("not hex")

\* A plus read as a space.
DecodePlus(text) == Plain([k \in DOMAIN text |-> IF text[k] = "+" THEN " " ELSE text[k]])

PercentDecode(text) ==
    LET end == Scan(DecodeStep, [ok |-> TRUE, text |-> << >>, held |-> << >>], text)
    IN  IF \A k \in DOMAIN text : text[k] # "%" THEN Plain(text)
        ELSE IF ~end.ok THEN end
        ELSE IF end.held # << >> THEN Escaping("truncated")
        ELSE IF ~IsUtf8(end.text) THEN Escaping("not UTF-8")
        ELSE Plain(end.text)
=============================================================================
