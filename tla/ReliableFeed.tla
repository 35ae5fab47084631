----------------------------- MODULE ReliableFeed -----------------------------
(***************************************************************************)
(* What the caller of the client is promised about the data notifications  *)
(* of a session, whatever happens to the connections that carry them: they *)
(* reach it in the order the server numbered them, none twice and none     *)
(* skipped, unless the step that breaks the order says so - a Gap, or a    *)
(* Bound whose kind is a new session, where the count starts over.         *)
(***************************************************************************)
EXTENDS Naturals

VARIABLES
  epoch,   (* How many sessions the caller has been told of.           *)
  last,    (* The position of the last notification delivered in it.   *)
  handed,  (* The one the last step delivered, 0 if it delivered none. *)
  told     (* What the last step told the caller of continuity.        *)
vars == <<epoch, last, handed, told>>

Init == epoch = 0 /\ last = 0 /\ handed = 0 /\ told = "nothing"

Deliver ==
  /\ handed' = last + 1
  /\ last' = handed'
  /\ told' = "nothing"
  /\ UNCHANGED epoch

ReportGap ==
  /\ last' > last /\ handed' = 0
  /\ told' = "gap"
  /\ UNCHANGED epoch

ReportReplacement ==
  /\ epoch' = epoch + 1 /\ last' = 0 /\ handed' = 0
  /\ told' = "replaced"

\* Everything else the driver does leaves the feed where it was.
Quiet == handed' = 0 /\ told' = "nothing" /\ UNCHANGED <<epoch, last>>

Next == Deliver \/ ReportGap \/ ReportReplacement \/ Quiet
Spec == Init /\ [][Next]_vars
=============================================================================
