------------------------------ MODULE RowLedger ------------------------------
(***************************************************************************)
(* What the metrics aggregator promises about the row of a frame, with no  *)
(* locks and no buffers.  A row is opened once.  It is completed or        *)
(* dropped; a complete row is never dropped, and is written once.          *)
(***************************************************************************)
CONSTANT Frames

VARIABLE row                             \* row[f]: what became of frame f

Init == row = [f \in Frames |-> "none"]

Becomes(F, s) == row' = [f \in Frames |-> IF f \in F THEN s ELSE row[f]]

Open(f)     == row[f] = "none" /\ Becomes({f}, "open")
Complete(f) == row[f] = "open" /\ Becomes({f}, "complete")
Write(F)    == (\A f \in F : row[f] = "complete") /\ Becomes(F, "written")
Drop(F)     == (\A f \in F : row[f] = "open") /\ Becomes(F, "dropped")

\* A row is opened at the price of others, when there are too many.
Replace(f, F) ==
  /\ row[f] = "none" /\ \A g \in F : row[g] = "open"
  /\ row' = [g \in Frames |-> CASE g = f -> "open" [] g \in F -> "dropped" [] OTHER -> row[g]]

Next ==
  \/ \E f \in Frames : Open(f) \/ Complete(f)
  \/ \E F \in SUBSET Frames : Write(F) \/ Drop(F)
  \/ \E f \in Frames, F \in SUBSET Frames : Replace(f, F)

Spec == Init /\ [][Next]_row
=============================================================================
