----------------------- MODULE MCPaperExecutionStore -----------------------
(***************************************************************************)
(* Values for model checking PaperExecutionStore.                          *)
(***************************************************************************)
EXTENDS PaperExecutionStore

CONSTANTS o1, o2

\* The smallest quantity, where a partial fill fills nothing, and one where
\* it fills something.
Quantities == [o \in Orders |-> IF o = o1 THEN 2 ELSE 1]

\* The quotes of the acknowledged orders age between calls.
MixedWhenAcknowledged ==
  [run \in Run |->
     IF SimulationOf(run) = "acknowledge" THEN BOOLEAN ELSE {TRUE}]

ApprovedOnly == [run \in Run |-> {TRUE}]

=============================================================================
