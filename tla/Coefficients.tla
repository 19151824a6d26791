---------------------------- MODULE Coefficients ----------------------------
(***************************************************************************)
(* gen_coefs of system.c with the generator that processBlocks seeds for   *)
(* it: tinymt32_init mixes the seed, certifies the state and runs it for a *)
(* while; gen_coefs, which is given a copy of the generator, fills a       *)
(* matrix row by row with the low byte of one output each.                 *)
(***************************************************************************)
EXTENDS TinyMT

CONSTANTS
  Seeds,     \* the seeds that the headers of the files hold
  Shapes     \* pairs of numbers of rows and columns: nss and nrs of gen_coefs

MIN_LOOP == 8
PRE_LOOP == 8

ASSUME CoefficientsAssumption ==
  /\ Seeds \subseteq Word
  /\ Shapes \subseteq Nat \X Nat

VARIABLES
  phase,      \* the function or loop being executed
  seed,       \* the seed
  nss, nrs,   \* the number of rows and of columns
  i,          \* the loop variable of tinymt32_init
  status,     \* status of the generator, then of gen_coefs's copy
  res         \* the rows made so far

vars == <<phase, seed, nss, nrs, i, status, res>>

Init ==
  /\ seed \in Seeds
  /\ \E shape \in Shapes : nss = shape[1] /\ nrs = shape[2]
  /\ phase = "mix" /\ i = 1
  /\ status = SeedState(seed)
  /\ res = <<>>

-----------------------------------------------------------------------------

Mix ==
  /\ phase = "mix"
  /\ i < MIN_LOOP
  /\ status' = Mixed(status, i)
  /\ i' = i + 1
  /\ UNCHANGED <<phase, seed, nss, nrs, res>>

Certify ==
  /\ phase = "mix"
  /\ i >= MIN_LOOP
  /\ status' = Certified(status)
  /\ i' = 0
  /\ phase' = "run"
  /\ UNCHANGED <<seed, nss, nrs, res>>

PreLoop ==
  /\ phase = "run"
  /\ i < PRE_LOOP
  /\ status' = NextState(status)
  /\ i' = i + 1
  /\ UNCHANGED <<phase, seed, nss, nrs, res>>

\* gen_coefs is called and allocates the matrix.
CallGenCoefs ==
  /\ phase = "run"
  /\ i >= PRE_LOOP
  /\ phase' = "rows"
  /\ UNCHANGED <<seed, nss, nrs, i, status, res>>

\* j <= nrs instead of j < nrs.
RowOverrun == \A r \in DOMAIN res : Len(res[r]) > nrs

\* The inner loop has ended for every row that was begun.
RowDone    == \A r \in DOMAIN res : Len(res[r]) >= nrs

NewRow ==
  /\ phase = "rows"
  /\ RowDone /\ Len(res) < nss
  /\ res' = Append(res, <<>>)
  /\ UNCHANGED <<phase, seed, nss, nrs, i, status>>

\* What is kept of an output of the generator.
Coef(s) == LowByte(Tempered(s))

\* The row is filled from its end.
PlacedFirst(row, coef) == <<coef>> \o row

Placed(row, coef) == Append(row, coef)

\* tinymt32_generate_uint32
NextCoef ==
  /\ phase = "rows"
  /\ ~ RowDone
  /\ status' = NextState(status)
  /\ res' = [res EXCEPT ![Len(res)] = Placed(@, Coef(status'))]
  /\ UNCHANGED <<phase, seed, nss, nrs, i>>

\* A malloc of the matrix or of a row fails; what was allocated is not freed.
GenCoefsFails ==
  /\ \/ phase = "run" /\ i >= PRE_LOOP
     \/ phase = "rows" /\ RowDone /\ Len(res) < nss
  /\ phase' = "null"
  /\ UNCHANGED <<seed, nss, nrs, i, status, res>>

GenCoefsReturns ==
  /\ phase = "rows"
  /\ RowDone /\ Len(res) >= nss
  /\ phase' = "done"
  /\ UNCHANGED <<seed, nss, nrs, i, status, res>>

Returned == phase \in {"done", "null"} /\ UNCHANGED vars

Next ==
  \/ Mix \/ Certify \/ PreLoop
  \/ CallGenCoefs \/ NewRow \/ NextCoef \/ GenCoefsFails \/ GenCoefsReturns
  \/ Returned

Spec == Init /\ [][Next]_vars

-----------------------------------------------------------------------------

\* Types of the variables.
TypeOK ==
  /\ phase \in {"mix", "run", "rows", "done", "null"}
  /\ seed \in Word /\ nss \in Nat /\ nrs \in Nat
  /\ i \in 0 .. 8
  /\ status \in State
  /\ Len(res) <= nss
  /\ \A r \in DOMAIN res : Len(res[r]) <= nrs

\* The low bytes of the first outputs for the seed 42.
TestSeed == Small(42)
TestVector == <<171, 165, 55, 61, 69, 143, 152, 158, 168, 64, 5, 91, 215, 134>>

\* The coefficients of the seed 42, taken row by row, are those that
\* tests/test_tinymt32.c:16 expects of the generator, whatever the shape of
\* the matrix: the sender counts on the same numbers in the same places.
MatchesVector ==
  seed = TestSeed =>
    \A r \in DOMAIN res : \A c \in DOMAIN res[r] :
      (r - 1) * nrs + c <= Len(TestVector) =>
        res[r][c] = TestVector[(r - 1) * nrs + c]

\* The coefficients in a matrix with rows of n, row by row; the last row may not
\* be complete.
Count(m, n)    == IF m = <<>> THEN 0 ELSE (Len(m) - 1) * n + Len(m[Len(m)])
RowByRow(m, n) ==
  [k \in 1 .. Count(m, n) |-> m[((k - 1) \div n) + 1][((k - 1) % n) + 1]]

\* From every seed and for a matrix of any shape, gen_coefs takes the next
\* coefficient of one sequence for the next place of the matrix, leaves none out
\* and seeds the generator once: nothing but the seed has to be sent along.
Stream == INSTANCE CoefficientStream WITH
  States <- State,
  Step   <- NextState,
  Output <- Coef,
  state  <- status,
  drawn  <- RowByRow(res, nrs)

StreamSpec == Stream!Spec

\* From the certification on the state is never the one that next_state maps to
\* itself, in which every coefficient is the same: from no seed and
\* however large the matrix is.
NeverStuck == phase # "mix" => ~ AllZero(status)
=============================================================================
