-------------------------- MODULE MCBlockRecovery ---------------------------
(***************************************************************************)
(* Instances of BlockRecovery over the field with four elements.           *)
(***************************************************************************)
EXTENDS BlockRecovery, SmallField

\* Each redundance symbol r combines the source symbols with the r-th row of
\* one of these: rows that are independent, that are not, and with a zero.
Rows == {<<1, 2, 2, 1>>, <<1, 2, 2, 3>>, <<3, 0, 1, 2>>}
SomeCoefficients ==
  {[r \in Redundance |-> [s \in Sources(0) |-> m[1 + ((2 * r + s) % 4)]]] : m \in Rows}

\* Nothing, one symbol, two of either kind, and three, which is more than two
\* redundance symbols can repair.
SomeLosses == {{}, {0}, {1}, {0, 1}, {0, 2}, {1, 2}, {0, 1, 3}}

\* The symbols of a message: all different from zero, and with a zero. Which
\* redundance symbols come out as zero depends on the coefficients.
SomeMessages ==
  { [k \in Blocks |-> [s \in Sources(k) |-> 1 + ((k + s) % 3)]],
    [k \in Blocks |-> [s \in Sources(k) |-> 1 + ((k + 2 * s) % 3)]],
    [k \in Blocks |-> [s \in Sources(k) |-> (3 * k + s) % 4]] }
=============================================================================
