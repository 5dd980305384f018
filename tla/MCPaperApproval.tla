--------------------------- MODULE MCPaperApproval ---------------------------
(***************************************************************************)
(* Model-checking instance of PaperApproval.                               *)
(***************************************************************************)
EXTENDS PaperApproval, TLC

\* Clients and requests are interchangeable; reviewers are too.
Symmetry ==
  Permutations(Clients) \cup Permutations(Requests) \cup Permutations(Reviewers)

=============================================================================
