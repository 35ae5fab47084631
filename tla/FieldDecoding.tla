---------------------------- MODULE FieldDecoding ----------------------------
(***************************************************************************)
(* What the value list of a U notification does to the fields of one item: *)
(* subscription/update.rs, with the diff formats of protocol/diff.rs.      *)
(*                                                                         *)
(* A text is a sequence of characters.  A token is the class the decoder   *)
(* sorts it into: the whole-token markers, a run of unchanged fields, a    *)
(* diff with its tag and payload, content (percent-decoded already; see    *)
(* TextCoding), or "malformed" for a token the decoder refuses by shape.   *)
(*                                                                         *)
(* JSON is reduced to what separates the two diff formats: characters in   *)
(* Insignificant are white space, a document is the text without them, and *)
(* writing a document back never puts them in again.                       *)
(***************************************************************************)
EXTENDS Naturals, Sequences, SequencesExt

CONSTANTS
    Insignificant,   \* characters a JSON document does not keep
    Astral,          \* characters whose UTF-16 encoding is a surrogate pair
    Radix,           \* letters of the alphabet counts are written in; 26 in the code
    JsonPatch,       \* is the optional json-patch feature compiled in?
    MaxUsize         \* the largest usize, for the checked arithmetic

ASSUME JsonPatchAssumption == JsonPatch \in BOOLEAN
ASSUME MaxUsizeAssumption == MaxUsize \in Nat
ASSUME RadixAssumption == Radix \in Nat \ {0}

-----------------------------------------------------------------------------
(* Field slots *)

Unset == [is |-> "unset"]
Null  == [is |-> "null"]
Value(text, form) == [is |-> "text", text |-> text, form |-> form]
AsSent(text) == Value(text, "AsSent")

(* Only a field some update has set can be left unchanged. *)
HasBaseline(slot) == slot.is # "unset"

(* A new item has no value in any field. *)
NewItem(fieldCount) == [f \in 1 .. fieldCount |-> Unset]

(* What the caller reads: a field never set reads as null. *)
Shown(slot) == IF slot.is = "text" THEN [is |-> "text", text |-> slot.text] ELSE Null

-----------------------------------------------------------------------------
(* Diff formats.  A payload is a sequence of sections [count, text]; their  *)
(* types follow the cycle COPY, ADD, DEL, and only ADD carries a text.  A   *)
(* count is written in letters [capital, place].                            *)

Refused == [ok |-> FALSE]
Text(text) == [ok |-> TRUE, text |-> text]

(* An encoded integer: capital letters, then one small letter.  A capital   *)
(* weighs its place in the alphabet plus one, the small letter its place.   *)
Weigh(sum, l) ==
    LET next == sum.value * Radix + l.place + (IF l.capital THEN 1 ELSE 0)
    IN  IF sum.ok /\ next <= MaxUsize THEN [ok |-> TRUE, value |-> next]
        ELSE [ok |-> FALSE, value |-> 0]

DecodeEncodedInteger(letters) ==
    IF /\ letters # << >>
       /\ \A k \in DOMAIN letters : letters[k].capital <=> k < Len(letters)
    THEN FoldLeft(Weigh, [ok |-> TRUE, value |-> 0], letters)
    ELSE Refused

SectionType(k) == CASE k % 3 = 1 -> "copy" [] k % 3 = 2 -> "add" [] OTHER -> "del"

(* The payload parses: at least one section, every count a number, every    *)
(* ADD as long as it says.                                                  *)
Instructions(payload) ==
    [k \in DOMAIN payload |->
        [op |-> SectionType(k), count |-> DecodeEncodedInteger(payload[k].count).value,
         text |-> payload[k].text]]

Parses(payload) ==
    /\ payload # << >>
    /\ \A k \in DOMAIN payload :
          /\ DecodeEncodedInteger(payload[k].count).ok
          /\ SectionType(k) = "add" => Len(payload[k].text) = Instructions(payload)[k].count

(* One instruction on [at: position in the base, text: result so far].      *)
Perform(base, run, i) ==
    IF ~run.ok THEN run
    ELSE CASE i.op = "copy" ->
                IF run.at + i.count > Len(base) THEN Refused
                ELSE [run EXCEPT !.text = @ \o SubSeq(base, run.at + 1, run.at + i.count),
                                 !.at = @ + i.count]
           [] i.op = "add" -> [run EXCEPT !.text = @ \o i.text]
           [] i.op = "del" ->
                IF run.at + i.count > MaxUsize THEN Refused ELSE [run EXCEPT !.at = @ + i.count]

Assemble(base, instructions) ==
    LET end == FoldLeft(LAMBDA run, i : Perform(base, run, i),
                        [ok |-> TRUE, at |-> 0, text |-> << >>], instructions)
    IN  IF end.ok THEN Text(end.text) ELSE Refused

HasAstral(text) == \E k \in DOMAIN text : text[k] \in Astral

(* The T format: positions in the characters themselves.                    *)
ApplyTlcpDiff(base, payload) ==
    IF \/ HasAstral(base)
       \/ \E k \in DOMAIN payload : HasAstral(payload[k].text)
       \/ ~Parses(payload)
    THEN Refused
    ELSE Assemble(base, Instructions(payload))

(* The P format works on the parsed document and writes it back compactly.  *)
Keep(kept, character) == IF character \in Insignificant THEN kept ELSE Append(kept, character)
Document(text) == FoldLeft(Keep, << >>, text)

ApplyJsonPatch(base, payload) ==
    IF Document(base) = << >> \/ ~Parses(payload)
    THEN Refused
    ELSE Assemble(Document(base), Instructions(payload))

(* The decoders of this build: the one list from which both the formats     *)
(* advertised to the server and the dispatch on a tag are derived.          *)
TlcpDiff == [tag |-> "T", needsBaseAsSent |-> TRUE, resultForm |-> "AsSent"]
Rfc6902  == [tag |-> "P", needsBaseAsSent |-> FALSE, resultForm |-> "ClientDerived"]
DiffDecoders == IF JsonPatch THEN <<TlcpDiff, Rfc6902>> ELSE <<TlcpDiff>>

SupportedDiffs == {DiffDecoders[k].tag : k \in DOMAIN DiffDecoders}

DecoderFor(tag) == CHOOSE d \in Range(DiffDecoders) : d.tag = tag

\* Any text is a base.
AnyText(decoder, slot) == slot.is = "text"
(* A value this client spelled itself is no base for a character diff.      *)
DiffableBase(decoder, slot) ==
    /\ slot.is = "text"
    /\ slot.form = "AsSent" \/ ~decoder.needsBaseAsSent

ApplyDiff(slot, tag, payload) ==
    IF tag \notin SupportedDiffs THEN Refused
    ELSE IF ~DiffableBase(DecoderFor(tag), slot) THEN Refused
    ELSE IF tag = "T" THEN ApplyTlcpDiff(slot.text, payload)
    ELSE ApplyJsonPatch(slot.text, payload)

-----------------------------------------------------------------------------
(* Tokens *)

Same         == [is |-> "same"]
NullMark     == [is |-> "null"]
EmptyMark    == [is |-> "empty"]
Content(text) == [is |-> "content", text |-> text]
UnchangedRun(count) == [is |-> "run", count |-> count]
Diff(tag, payload) == [is |-> "diff", tag |-> tag, payload |-> payload]
Malformed    == [is |-> "malformed"]

(* One field takes a new value and the pointer moves past it.               *)
Stage(done, slot) ==
    [done EXCEPT !.fields[done.at] = slot, !.changed = @ \union {done.at}, !.at = @ + 1]

(* Fields are left as they are, which needs a value in each of them.        *)
Skip(done, count) ==
    IF /\ done.at + count <= Len(done.fields) + 1
       /\ \A f \in done.at .. (done.at + count - 1) : HasBaseline(done.fields[f])
    THEN [done EXCEPT !.at = @ + count]
    ELSE Refused

(* One token of the list.  The base of a diff is the value the item had     *)
(* before the list: the pointer only moves forward.                         *)
Take(done, token) ==
    IF ~done.ok THEN done
    ELSE IF done.at > Len(done.fields) THEN Refused
    ELSE CASE token.is = "same"    -> Skip(done, 1)
           [] token.is = "run"     -> Skip(done, token.count)
           [] token.is = "null"    -> Stage(done, Null)
           [] token.is = "empty"   -> Stage(done, AsSent(<< >>))
           [] token.is = "content" -> Stage(done, AsSent(token.text))
           [] token.is = "diff"    ->
                LET new == ApplyDiff(done.fields[done.at], token.tag, token.payload)
                IN  IF new.ok THEN Stage(done, Value(new.text, DecoderFor(token.tag).resultForm))
                              ELSE Refused
           [] OTHER                -> Refused

(* The whole list: all of it, exactly as wide as the schema, or none.       *)
Decode(fields, tokens) ==
    LET end == FoldLeft(Take, [ok |-> TRUE, at |-> 1, fields |-> fields, changed |-> {}], tokens)
    IN  IF end.ok /\ end.at = Len(fields) + 1 THEN end ELSE Refused
=============================================================================
