------------------------------- MODULE HttpBody -------------------------------
(***************************************************************************)
(* transport/http.rs, response bodies: how a body is framed and how much   *)
(* of it the octets at hand yield.                                         *)
(***************************************************************************)
EXTENDS LineFraming, FiniteSetsExt

CONSTANTS
    MaxHeaderBytes,   \* MAX_CHUNK_HEADER_BYTES
    MaxU64

ASSUME HttpBodyAssumption == MaxHeaderBytes \in Nat /\ MaxU64 \in Nat

(* BodyFraming *)
OfLength(n) == [is |-> "length", left |-> n]
UntilClose  == [is |-> "untilClose"]
Chunked     == [is |-> "chunked", at |-> "size", left |-> 0]
NoFraming   == [is |-> "refused"]

(* A header is [name, value]; the value of a Transfer-Encoding is its set  *)
(* of codings.  Chunked wins over a length, and the last length counts.    *)
FramingFromHeaders(headers) ==
    LET valuesOf(name) == LET of == SelectSeq(headers, LAMBDA h : h.name = name)
                          IN  [k \in DOMAIN of |-> of[k].value]
        lengths == valuesOf("content-length")
    IN  IF \E k \in DOMAIN lengths : lengths[k] \notin 0 .. MaxU64 THEN NoFraming
        ELSE IF \E c \in Range(valuesOf("transfer-encoding")) : "chunked" \in c THEN Chunked
        ELSE IF lengths # << >> THEN OfLength(Last(lengths))
        ELSE UntilClose

-----------------------------------------------------------------------------
(* Chunked::decode *)

(* The place of the first CR-LF, and 0 if there is none.                   *)
FindCrlf(bytes) ==
    LET places == {k \in 1 .. Len(bytes) - 1 : bytes[k] = CR /\ bytes[k + 1] = LF}
    IN  IF places = {} THEN 0 ELSE Min(places)

HexDigits == <<"0", "1", "2", "3", "4", "5", "6", "7", "8", "9", "a", "b", "c", "d", "e", "f">>
HexValue(octet) == CHOOSE v \in 0 .. 15 : HexDigits[v + 1] = octet

BadSize == MaxU64 + 1

(* White space at either end goes. *)
Trimmed(text) ==
    LET kept == {k \in DOMAIN text : text[k] # " "}
    IN  IF kept = {} THEN << >> ELSE SubSeq(text, Min(kept), Max(kept))

(* Hexadecimal digits, up to an optional chunk extension.                  *)
UpToMark(line, marks) == IF marks = {} THEN line ELSE SubSeq(line, 1, Min(marks) - 1)
FromHex(hex) ==
    IF hex = << >> \/ \E k \in DOMAIN hex : hex[k] \notin Range(HexDigits) THEN BadSize
    ELSE Min({FoldLeft(LAMBDA sum, o : sum * 16 + HexValue(o), 0, hex), BadSize})
ParseChunkSize(line) == FromHex(Trimmed(UpToMark(line, {k \in DOMAIN line : line[k] = ";"})))

Beyond(bytes, n) == SubSeq(bytes, n + 1, Len(bytes))

Spoilt(run) == [run EXCEPT !.ok = FALSE]

(* A framing line that is not all there: wait for it, within the bound.    *)
Awaits(run) == IF Len(run.rest) > MaxHeaderBytes THEN Spoilt(run) ELSE run

(* One pass of the decoder's loop over [ok, at, left, rest, out].           *)
Sized(run, eol, size) ==
    IF size = BadSize THEN Spoilt(run)
    ELSE [run EXCEPT !.rest = Beyond(@, eol + 1), !.left = size,
                     !.at = IF size = 0 THEN "trailer" ELSE "data"]
Taken(run, take) ==
    [run EXCEPT !.out = @ \o SubSeq(run.rest, 1, take), !.rest = Beyond(@, take),
                !.left = @ - take, !.at = IF take = run.left THEN "crlf" ELSE @]
TurnAt(run, eol) ==
    CASE ~run.ok -> run
      [] run.ok /\ run.at \in {"size", "trailer"} /\ eol = 0 -> Awaits(run)
      [] run.ok /\ run.at = "size" /\ eol > 0 ->
            Sized(run, eol, ParseChunkSize(SubSeq(run.rest, 1, eol - 1)))
      [] run.ok /\ run.at = "data" -> Taken(run, Min({run.left, Len(run.rest)}))
      [] run.ok /\ run.at = "crlf" ->
            IF Len(run.rest) < 2 THEN run
            ELSE [run EXCEPT !.rest = Beyond(@, 2), !.at = "size"]
      [] run.ok /\ run.at = "trailer" /\ eol > 0 ->
            [run EXCEPT !.rest = Beyond(@, eol + 1), !.at = IF eol = 1 THEN "done" ELSE @]
      [] OTHER -> run
Turn(run) == TurnAt(run, FindCrlf(run.rest))

(* Every pass that changes anything consumes an octet, so there are at     *)
(* most as many as there are octets.                                       *)
DecodeChunked(framing, pending) ==
    LET end == FoldLeft(LAMBDA run, o : Turn(run),
                        [ok |-> TRUE, at |-> framing.at, left |-> framing.left,
                         rest |-> pending, out |-> << >>], pending)
    IN  [ok |-> end.ok, out |-> end.out, pending |-> end.rest, done |-> end.at = "done",
         framing |-> [framing EXCEPT !.at = end.at, !.left = end.left]]

(* decode_body: what the octets at hand yield.                             *)
DecodeBody(framing, pending) ==
    LET take == Min({framing.left, Len(pending)})
    IN  CASE framing.is = "length" ->
                [ok |-> TRUE, out |-> SubSeq(pending, 1, take), pending |-> Beyond(pending, take),
                 framing |-> OfLength(framing.left - take), done |-> take = framing.left]
          [] framing.is = "untilClose" ->
                [ok |-> TRUE, out |-> pending, pending |-> << >>, framing |-> framing, done |-> FALSE]
          [] framing.is = "chunked" -> DecodeChunked(framing, pending)

(* read_chunk, the socket at its end: is the body complete?                *)
CompleteAtEof(framing) ==
    \/ framing.is = "untilClose"
    \/ framing.is = "length" /\ framing.left = 0
    \/ framing.is = "chunked" /\ framing.at = "done"
=============================================================================
