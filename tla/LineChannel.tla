----------------------------- MODULE LineChannel -----------------------------
(***************************************************************************)
(* What the session may rely on of a transport (transport/mod.rs): the     *)
(* lines of one stream connection, in order and none left out, then how it *)
(* ended; and every answer to a control request that has its own           *)
(* connection, exactly once.  Octets, frames and sockets are out of sight. *)
(***************************************************************************)
EXTENDS Naturals, Sequences

CONSTANT Items   \* what next_line may give, end and no-answer-yet apart

VARIABLES
    due,      \* of the open stream connection, what is still to be given
    ends,     \* and how it ends when that has been given
    answers,  \* control responses not yet given
    gave      \* what the last call gave

EndOf   == [is |-> "end"]
Nothing == [is |-> "nothing"]

(* How a connection may end.  "garbled": framing the client refuses, which *)
(* may cost it lines received with it.  "torn": an orderly end in the      *)
(* middle of a line.  "severed": the client's own write failed.            *)
Endings == {"never", "clean", "torn", "severed", "broken", "garbled"}

Init == due = << >> /\ ends = "never" /\ answers = << >> /\ gave = Nothing

(* Whatever the connection before held is gone.                            *)
Opens == due' \in Seq(Items) /\ ends' \in Endings /\ gave' = Nothing /\ UNCHANGED answers

Answers == /\ answers' \in Seq(Items) /\ Len(answers) <= Len(answers')
           /\ SubSeq(answers', 1, Len(answers)) = answers
           /\ gave' = Nothing /\ UNCHANGED <<due, ends>>

GivesAnswer == /\ answers # << >>
               /\ gave' = Head(answers) /\ answers' = Tail(answers)
               /\ UNCHANGED <<due, ends>>

Gives == /\ answers = << >> /\ due # << >>
         /\ gave' = Head(due) /\ due' = Tail(due)
         /\ UNCHANGED <<ends, answers>>

(* The clean end: only when everything has been given.                     *)
Finishes == /\ answers = << >> /\ due = << >>
            /\ ends \in {"clean", "torn", "severed", "garbled"}
            /\ gave' = EndOf
            /\ UNCHANGED <<due, ends, answers>>

(* An error comes after every line that was complete, or with refused      *)
(* framing in the place of some.                                           *)
Fails == /\ answers = << >>
         /\ \/ ends \in {"broken", "torn"} /\ due = << >>
            \/ ends = "garbled"
         /\ gave'.is = "error"
         /\ due' = << >>
         /\ UNCHANGED <<ends, answers>>

Waits == gave' = Nothing /\ UNCHANGED <<due, ends, answers>>

(* A write that fails for good costs what had not arrived.                 *)
Severs == /\ \E n \in 0 .. Len(due) : due' = SubSeq(due, 1, n)
          /\ ends' = "severed" /\ gave' = Nothing /\ UNCHANGED answers

Closes == due' = << >> /\ ends' = "never" /\ answers' = << >> /\ gave' = Nothing

Next == Opens \/ Answers \/ GivesAnswer \/ Gives \/ Finishes \/ Fails \/ Waits
        \/ Severs \/ Closes

Spec == Init /\ [][Next]_<<due, ends, answers, gave>>
=============================================================================
