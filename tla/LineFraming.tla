----------------------------- MODULE LineFraming -----------------------------
(***************************************************************************)
(* transport/framing.rs: octets in, lines out.  An octet is a string; CR,  *)
(* LF and the two octets of a two-octet character stand out.               *)
(*                                                                         *)
(* The mark up to which the code has searched a fragment only saves work:  *)
(* it is at the fragment's end between any two calls.                      *)
(***************************************************************************)
EXTENDS Naturals, Sequences, SequencesExt

CONSTANT MaxLineBytes   \* MAX_LINE_BYTES: the longest fragment held

ASSUME MaxLineBytesAssumption == MaxLineBytes \in Nat

CR == "CR"
LF == "LF"
Lead == "lead"   \* the first octet of a two-octet character
Tail2 == "tail"  \* and its second

(* What next_line gives: a line, an error, or the end of the stream.       *)
Line(text)    == [is |-> "line", text |-> text]
Failure(kind) == [is |-> "error", kind |-> kind]
End           == [is |-> "end"]

IsUtf8(text) ==
    \A k \in DOMAIN text :
        /\ text[k] = Lead  => k < Len(text) /\ text[k + 1] = Tail2
        /\ text[k] = Tail2 => k > 1 /\ text[k - 1] = Lead

Decoded(text) == IF IsUtf8(text) THEN Line(text) ELSE Failure("malformed")

StripCr(raw) == IF raw # << >> /\ Last(raw) = CR THEN Front(raw) ELSE raw

-----------------------------------------------------------------------------
(* LineBuffer *)

EmptyBuffer == [partial |-> << >>, ready |-> << >>]

(* Empty lines are dropped: no TLCP line has an empty tag.                 *)
Kept(raw) == IF StripCr(raw) = << >> THEN << >> ELSE <<StripCr(raw)>>

Absorb(buffer, octet) ==
    IF octet = LF
    THEN [partial |-> << >>, ready |-> buffer.ready \o Kept(buffer.partial)]
    ELSE [buffer EXCEPT !.partial = Append(@, octet)]

\* No bound on the fragment.
PushUnbounded(buffer, bytes) == [ok |-> TRUE, buffer |-> FoldLeft(Absorb, buffer, bytes)]
(* push_bytes: a fragment past the bound empties the buffer, lines and all. *)
PushBytes(buffer, bytes) ==
    LET full == FoldLeft(Absorb, buffer, bytes)
    IN  IF Len(full.partial) > MaxLineBytes
        THEN [ok |-> FALSE, buffer |-> EmptyBuffer]
        ELSE [ok |-> TRUE, buffer |-> full]

PopLine(buffer) ==
    [item |-> Decoded(Head(buffer.ready)), buffer |-> [buffer EXCEPT !.ready = Tail(@)]]

(* flush_partial: the fragment is the last line of a body that is complete. *)
FlushPartial(buffer) ==
    LET final == Kept(buffer.partial)
    IN  [items |-> [k \in DOMAIN final |-> Decoded(final[k])],
         buffer |-> [buffer EXCEPT !.partial = << >>]]

(* discard_partial: a fragment left when the stream ends is not acted on.  *)
DiscardPartial(buffer) ==
    [held |-> buffer.partial # << >>, buffer |-> [buffer EXCEPT !.partial = << >>]]

(* split_body_lines: a control response, whose end ends its last line.     *)
SplitBodyLines(body) ==
    LET split == FoldLeft(Absorb, EmptyBuffer, body)
    IN  split.ready \o Kept(split.partial)
=============================================================================
