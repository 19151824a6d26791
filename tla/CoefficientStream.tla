-------------------------- MODULE CoefficientStream --------------------------
(***************************************************************************)
(* What sender and receiver agree on: the coefficients of a seed are one   *)
(* sequence, of which each takes the next when it needs one more.  There   *)
(* is no matrix here; Coefficients is shown to implement this.             *)
(***************************************************************************)
EXTENDS Sequences

CONSTANTS
  States,     \* the states of a generator
  Step(_),    \* what a step of it makes of a state
  Output(_)   \* the coefficient that belongs to a state

VARIABLES
  state,      \* the state of the generator
  drawn       \* the coefficients taken so far

svars == <<state, drawn>>

Init == state \in States /\ drawn = <<>>

\* The generator is seeded, and made to run, before the first coefficient only.
Prepare ==
  /\ drawn = <<>>
  /\ state' \in States
  /\ UNCHANGED drawn

\* A coefficient is what one step of the generator makes, and none is left out.
Draw ==
  /\ state' = Step(state)
  /\ drawn' = Append(drawn, Output(state'))

Spec == Init /\ [][Prepare \/ Draw]_svars
=============================================================================
