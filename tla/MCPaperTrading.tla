--------------------------- MODULE MCPaperTrading ---------------------------
(***************************************************************************)
(* Values for model checking PaperTrading.                                 *)
(***************************************************************************)
EXTENDS PaperTrading, TLC

\* One order per request.
OneRequestEach == CHOOSE f \in [Orders -> Requests] :
                    \A o1, o2 \in Orders : o1 # o2 => f[o1] # f[o2]

TwoEach == [o \in Orders |-> 2]

BothVerdicts == [run \in Orders \X Simulations |-> BOOLEAN]

Symmetry == Permutations(Reviewers) \cup Permutations(Deciders)

=============================================================================
