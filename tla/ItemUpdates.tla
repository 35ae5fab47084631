----------------------------- MODULE ItemUpdates -----------------------------
(***************************************************************************)
(* What the caller holds of one update: subscription/item_update.rs.  An   *)
(* update is [schema, item, kind, values, changed]; values carries every   *)
(* field of the item after the update, changed the positions the update    *)
(* had a token for.  Positions count from 1, as the public accessors do.   *)
(***************************************************************************)
EXTENDS FieldDecoding

(* A name the caller declared, or the position standing in for one.         *)
Declared(name) == [text |-> name, declared |-> TRUE]
Positional(position) == [text |-> ToString(position), declared |-> FALSE]

(* Declared names are a prefix of the positions the server announced; names *)
(* beyond the count are ignored.                                            *)
NamePositions(count, declared) ==
    [p \in 1 .. count |-> IF p <= Len(declared) THEN Declared(declared[p]) ELSE Positional(p)]

NoCommandFields == [key |-> 0, command |-> 0]

\* The two positions of SUBCMD taken in the wrong order.
SchemaSwapped(itemCount, fieldCount, itemNames, fieldNames, commandFields) ==
    [items |-> NamePositions(itemCount, itemNames),
     fields |-> NamePositions(fieldCount, fieldNames),
     keyField |-> commandFields.command, commandField |-> commandFields.key]
Schema(itemCount, fieldCount, itemNames, fieldNames, commandFields) ==
    [items |-> NamePositions(itemCount, itemNames),
     fields |-> NamePositions(fieldCount, fieldNames),
     keyField |-> commandFields.key, commandField |-> commandFields.command]

IsCommandMode(schema) == schema.keyField # 0 /\ schema.commandField # 0

ItemUpdate(schema, item, kind, fields, changed) ==
    [schema |-> schema, item |-> item, kind |-> kind,
     values |-> [p \in DOMAIN fields |-> Shown(fields[p])], changed |-> changed]

NoField == [is |-> "no field"]

Field(update, position) ==
    IF position \in DOMAIN update.values THEN update.values[position] ELSE NoField

ItemName(update) == update.schema.items[update.item].text

(* The first position the caller declared under this name; a stand-in is    *)
(* never a key.  0: no such field.                                          *)
FieldPosition(update, name) ==
    LET named == {p \in DOMAIN update.schema.fields :
                    update.schema.fields[p] = Declared(name)}
    IN  IF named = {} THEN 0 ELSE CHOOSE p \in named : \A q \in named : p <= q

FieldByName(update, name) == Field(update, FieldPosition(update, name))

IsFieldChanged(update, position) == position \in update.changed

(* The row a COMMAND update is about, and what it did to it.  Literals are  *)
(* compared without regard to case; anything else is handed on as it is.    *)
Key(update) == Field(update, update.schema.keyField)

CONSTANT Literals   \* "ADD", "UPDATE" and "DELETE" to the spellings that mean them

FromWire(text) ==
    IF \E name \in DOMAIN Literals : text \in Literals[name]
    THEN CHOOSE name \in DOMAIN Literals : text \in Literals[name]
    ELSE "Unrecognized"

Command(update) ==
    LET value == Field(update, update.schema.commandField)
    IN  IF value.is = "text" THEN FromWire(value.text) ELSE "none"

IsCommandChanged(update) == IsFieldChanged(update, update.schema.commandField)
=============================================================================
