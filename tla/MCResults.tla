----------------------------- MODULE MCResults ------------------------------
(***************************************************************************)
(* Results with two clients, a simple and an accumulating query, and two   *)
(* messages that their node published again after a crash.                 *)
(***************************************************************************)
EXTENDS ResultsInv

M(q, n, c, p) == [query |-> q, id |-> n, client |-> c, part |-> p]

MCFeed ==
  << M("q4", 0, "A", 1), M("q1", 0, "A", 7), M("q4", 1, "A", 2), M("q4", 2, "A", EndOfFile),
     M("q4", 1, "A", 2), M("q4", 2, "A", EndOfFile), M("q1", 1, "B", 8),
     M("q4", 3, "B", EndOfFile) >>
=============================================================================
