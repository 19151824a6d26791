# A formal model of fec

fec decodes a directory of messages that were sent with forward erasure
correction. Every file holds a header and, block after block, source symbols
and redundance symbols; a symbol that was lost on the way is all zeros. fec
finds the lost symbols, solves a linear system over GF(256) to recover them and
appends one record per file (length of the name, length of the message, name,
bytes) to an output stream. Worker threads share the list of files and the
stream.

Paths of source files are relative to the repository's `src/` and named as in
`PROJECT.json`: `main.c`, `my_threads.c`, `message.c`, `block.c`, `system.c`,
`tinymt32.c` and their headers.

## 1. Inventory

| Component | State | Operations | Modelled in |
|---|---|---|---|
| main and workers (`main.c`, `my_threads.c`) | `t_args` (nextFile, numberFiles, filenames, two semaphores), each worker's `fileNumber` and place | readDir, my_sem_init, pthread_create, pthread_join, sem_destroy, free, fclose; getNextFile, processFile | `WorkerPool`, promise in `DecodeArchive` |
| linear systems (`system.c`) | `A`, `B`, loop variables | forward reduction, allocation of `temp`, backward reduction | `Gaussian`, as a function in `Elimination` |
| field tables (`gf256_tables.h`) | none | multiplication, inverse | `ByteField` (laws), `TableField` (the tables) |
| recovery (`block.c`) | symbols of every block, `lost_indexes`, `A`, `b`, coefficients | verifyBlock, makeLinearSystem, fillLostSymbol, processBlocks | `BlockRecovery`, with the elimination itself in `Decoder` |
| files and records (`message.c`) | header, list of blocks, offset, bytes written | openFile, makeBlockList, writeToFile | `MessageLayout` |
| directory listing (`message.c`, readDir) | numberFiles, filenames, place in the directory | count, allocate, rewind, fill | `DirectoryListing` |
| command line (`main.c`, parse_args) and start of main | `args`, the files opened | options -n, -v, -f, the directory; parse_args, readDir, my_sem_init | `Arguments`, composed in `Startup` |
| coefficients (`tinymt32.c`, gen_coefs) | 128 bits of generator state, the matrix | init, next_state, temper, one row after the other | `TinyMT`, `Coefficients`, promise in `CoefficientStream` |
| printing, portability macros, tests, scripts | | | not modelled |

How they interact. main parses its arguments, lists the directory, creates the
semaphores, starts the workers and joins them one by one. A worker loops: getNextFile (shared index
under `semaphore_read`, but tested before the semaphore is taken), openFile
(private message), processBlocks (private message), writeToFile (shared stream
under `semaphore_writing`), free of its name in the shared array. The only
shared state is in `t_args` and the stream, so everything after openFile is
sequential, apart from the order of the records, and is modelled one file
at a time.

What is hard about it, with the properties aimed at it (`PROJECT.json` has every
hazard with its line):

* Check, then act: getNextFile tests `nextFile` outside the lock (`OverrunBound`,
  and the refuted `NeverExceeds`).
* Records are several fwrites on one stream (`RecordsContiguous`), names are freed
  in an array others index (`NameAlive`), main tears down what workers used
  (`DestroyedIdle`).
* Every function that "returns -1" is declared `uint32_t` and tested with `< 0`:
  no error of processBlocks, makeLinearSystem, the elimination or writeToFile is
  ever seen. The models keep the failure and go on, as the program does
  (`FilesAccounted`, `OnlyLostFilled`, `CrashCause`).
* A worker returns on the first bad file and nobody takes its place
  (`FilesAccounted`: with as many bad files as workers main returns 0 and the
  rest of the directory was never opened); the error path of writeToFile
  would leave with the semaphore taken if it were ever taken (`SemaphoresHeld`,
  `Termination`).
* The elimination multiplies the pivot row in place, has no pivoting, and uses
  0 as the inverse of 0 (`SolutionKept`, `Solved`, `ZeroedStaysLost`).
* Lost redundance symbols, more losses than redundance, symbols that were sent as
  zero (`Restored`, `CrashCause`); columns of the matrix that hold what malloc returned,
  which must not cost a block that could be solved (`FewLossesRestored`).
* Sizes at exact multiples, 32-bit products and sums, a 64-bit length truncated to 32
  bits, a block count truncated to 8, an empty message without a first block; sizes of 0
  and files shorter than their header says, none of which is tested for
  (`RecordLength`, `CopiesInside`, `WrittenInOrder`, `CrashCause`).
* A system that was not solved is reported to nobody: what it leaves in the block
  must not pass for a symbol (`UnsolvedShows`, `KeepsContract`).
* readDir reads the directory twice while others change it, takes an error of readdir
  for the end of the directory, and takes two off the count for the dot entries (`OverrunBounded`, `GapBounded`, `FilledInOrder`,
  `UntouchedComplete`); main does not look at what it returned (`PoolReady`).
* -n is stored in a uint8_t before it is tested, -f empties a file before the next
  argument is looked at, and a getopt that stops at the first operand misses the
  options README.md puts behind it (`ThreadCount`, `StreamChosen`).
* Sender and receiver must draw the same coefficients in the same places
  (`MatchesVector`, `StreamSpec`), and the generator has a state it never leaves (`NeverStuck`).

## 2. Modules

### WorkerPool, DecodeArchive, MCWorkerPool

`WorkerPool` models main after parse_args and the workers, one action per access
to shared state. `mainPc` is main's phase and `mainIdx` its loop index; `pc[t]` is
the statement worker `t` is at: `check` is the unguarded test of line 15,
`waitRead`, `take`, `bump`, `postRead` are lines 18 to 21, so reading and
incrementing the index are two steps; `process` is openFile and processBlocks,
`waitWrite`, `write` (one step per fwrite), `postWrite` and `free` the rest of the
loop. `filenames[f]` says whether a slot was allocated, never set, or freed.
`output` is the sequence of fwrites. `Crash` covers what is undefined: the use of
an index past the array or of a slot that was never filled. Every exit of main is
an action; when main returns or exits, the workers stop where they are.
`unrepaired` and `truncated` record failures the program itself does not see.

`DecodeArchive` is the promise: names are taken once, in order, and each ends in
a whole record, a cut record or a lost worker. It knows no semaphores and no
pieces of records. `ArchiveSpec` maps `taken` to the indices below `nextFile`,
`whole` to records whose last fwrite is in the output, `cut` to `truncated`, and
`lost` to the names workers returned NULL on.

### ByteField, SmallField, TableField, Gaussian, MCGaussian

`ByteField` declares the field by its laws: addition is the exclusive or, `Mul` and
`Inv` the two tables, and the inverse of zero is zero. Every module that computes with
symbols is written for any such field. Every byte of a symbol is treated alike, so one
element stands for a symbol. `SmallField` is the field of four elements, the smallest of
characteristic 2 that has an element other than 0 and 1, which TLC uses.

`TableField` is the field of `gf256_tables.h`: a byte is the set of its bits that are 1, the
product is that of polynomials over two elements modulo x^8 + x^4 + x^3 + x^2 + 1, and the
inverse is the element whose product with the given one is 1 (0 for 0). That the
definitions obey `FieldAssumption` is proved (section 5).

`Gaussian` is gf_256_gaussian_elimination, one step for each iteration of an
inner loop, with its in-place multiplication of the pivot row, the backward
reduction that updates a single entry of a row, and the failing malloc. It takes the
vector operations from `Elimination`. `given` is the matrix the function was called
with, `x` the vector of lost symbols from which the right side was made, `zeroed` the
rows that were multiplied by zero, `singular` whether the first system had other
solutions; all four are there for the properties only. `Lhs(row, y)` is the left side of an
equation, the sum of `row[c] * y[c]`. `MCGaussian` chooses the first rows, and for
gauss_zero_factor the systems of two equations whose first pivot is not zero.

### Elimination

The same function as folds over its loops, for a caller that wants its result in one
step. `AsFunction` of `Gaussian` compares the two: what the loops leave is what
`Elimination` computes from the matrix they began with, with the rows that were
multiplied by zero, and also when the malloc between the two reductions fails.

### BlockRecovery, MCBlockRecovery

`BlockRecovery` is processBlocks. `symb` is the symbol list of each block, `sent`
what was sent, `lost[k]` what verifyBlock found zero; `phase` is the part of the
loop body. Losing symbols and sending zero symbols are choices of `Init`.
`MakeLinearSystem` leaves the columns of lost redundance symbols undetermined,
`MakeSystemPastEnd` is the case of more unknowns than redundance, in which memory
past the arrays is read. Each malloc may fail, and where the code compares an
unsigned -1 with zero the model goes on with a system that makes no sense. `b`
holds the right side and then, as in the code, the result. The
elimination is used through what the runs and proofs of `Gaussian` show: the one
solution if no row was multiplied by zero (`Eliminate`), and otherwise anything
(`EliminateWrong`), which is more than the function can return. `solved` and
`starved` are history.

### Decoder, MCDecoder

`Decoder` composes the two: the actions of `BlockRecovery`, with `Elimination` in the
place of its contract. Which losses are repaired is now a matter of the
coefficients, of the order of the rows and of what malloc left in the columns of lost
redundance symbols. `KeepsContract` says that `BlockRecovery`, with the contract, is
implemented: a block counts as solved only if it got the one solution of its
system. `UnsolvedShows` and `FewLossesRestored` could not be stated with the contract alone. The
second is what a receiver may count on: a block that lost one source symbol, or two, is
restored whenever the coefficients of the lost symbols (`FewLost`) keep zeros out of the
elimination. No other coefficient, no symbol that arrived, no other block and nothing
malloc left in the matrix has a say in it.

### MessageLayout, MCMessageLayout

`MessageLayout` follows one file through openFile, makeBlockList and writeToFile.
A byte is its position in the file, so `written` can be compared with the
message. `BlockBytes`, `LastBytes`, `LastBytesSeen`, `NumberBlocks`, `LastBlockSize`
and `Padding` are the computations of the code with their widths; `Modulus` is
2^32. The operators under "The file" (`PayloadSize`, `PlaceOf`) describe
the encoder, which is not in the repository; the four files of `binary_example`
have exactly the size `PayloadSize` gives. Recovery is left to `BlockRecovery`:
no byte is lost in this module. The sizes of a header may be 0 or wrap, and `available`,
what follows the header in the file, may be less than `PayloadSize`: nothing in openFile
tests either. `Listed` is how many symbols of a block are listed, a sum of two uint32_t.
`Crashes` are the ways the process may end: a block of 0 bytes modulo 2^32 to divide by,
a copy from behind the file, a symbol behind the list of a block whose number of symbols
has wrapped, the first entry of an empty list of blocks, freeMessage(NULL).
`WrappedPlace` is where the 32-bit offset points
in a file of 2^32 bytes or more, and `WholeBlocksOff` says when the truncated length
still gives the right last block.

### Arguments, DirectoryListing, Startup, MCStartup

`Arguments` is parse_args with the two kinds of getopt there are (`permutes`): an
argument is a record saying what getopt makes of it, `parsed` how far it has come, and
`opened` the files that -f has emptied. `Stored` is the uint8_t of `nb_threads`.

`DirectoryListing` is readDir over a directory that other programs change
(`CreateName`, `RemoveName`). What readdir may return next is `Unread`, what it may
not leave out is `Owed`: POSIX leaves open whether names that came or went since the
directory was opened or rewound (`fresh`) are returned. readdir may also return NULL for
an error, which both loops take for the end: `cut` remembers the passes that ended before
everything owed was returned. `numberFiles` starts
at -2 as a uint32_t. `FillSlot` stores a name in slot `i` and is not stopped by the end
of the array: a write behind it changes no slot and may end the process.

`Startup` puts them together as main does and ends, if it comes that far, in the state
that `WorkerPool` begins with (`PoolReady`: a worker at least, an index that cannot
reach the value for "no file", live names first and then unset ones).

### TinyMT, Coefficients, CoefficientStream, MCCoefficients

`TinyMT` is the generator on full 32-bit words; a word is the set of its bits
that are 1, so shifts, masks and exclusive or are set operations and the
provers can follow them. `Coefficients` runs tinymt32_init and then gen_coefs, which
draws the matrix row by row from a copy of the generator. `CoefficientStream` is what
the sender and the receiver have to agree on: there is one sequence of states, and each
draw takes the next one and appends its output to the coefficients drawn so far. It
knows no rows, no mixing and no failing malloc; `StreamSpec` maps `drawn` to the rows of
the matrix one behind the other. `BlockRecovery` keeps taking
its matrices from a set, since it uses nothing of the generator but the fixed matrix.

### Operators for mutations

An operator such as `TwoPermits`, `FactorUpsideDown` or `LastBlockCut` stands just
before the operator it is a plausible mistake of. No action uses it; putting it in the
place of its neighbour makes the property named in `PROJECT.json` fail.

## 3. Runs

| Run | Instance | Question | Distinct states |
|---|---|---|---|
| pool_safety | 2 files, 3 workers | claims, semaphores, names, teardown, overrun bound, account of files | 1,878,593 |
| pool_live | 2 files, 2 verbose workers, 1 symbol | records not mixed, termination, refinement of the archive | 460,597 |
| gauss | 3x3 systems with 4 kinds of first row | which systems are solved, stale upper part, chains of pivots, the function against the loops | 491,520 |
| recover | blocks of 2 and 1 source symbols, 2 redundance symbols each | what is restored, always restored after few losses, never touched, visibly unsolved, and may crash; refinement of the contract | 842,184 |
| layout | 4891 headers and files | bytes copied and written, what ends the process | 311,431 |
| startup | 22 command lines, 2 names, 3 changes | threads, stream, slots of the array, state handed to the workers | 1,385,380 |
| generator | 5 seeds, 5 shapes of matrix | the coefficients are those the sender draws, refinement of the stream | 755 |

Runs that show the code and its documentation disagree, each with one property
taken from the quoted line:

| Run | What happens |
|---|---|
| pool_overrun | two workers pass the test for the last name; one gets the index numberFiles (`my_threads.h:8`) |
| gauss_zero_factor | a zero entry below a pivot that is not zero wipes out the pivot's equation of a regular system (`system.h:67`) |
| recover_count | a multiple of 256 blocks is truncated to 0 blocks (`block.h:59`, `:62`) |
| recover_lost_repair | a lost redundance symbol is used as the right side of an equation (`block.h:34`) |
| layout_exact | a message that ends with a full symbol loses it, or its last block if that is full (`message.h:73`) |

The test files of `binary_example` do not meet layout_exact: none of their
lengths is a multiple of the symbol size.

### Bounds and why they are enough

* `NumberFiles`, `NbThreads`: interference needs two workers, the overrun grows
  with the third. With two files a worker comes back for another file while a
  claim is pending, and with three workers two are past the test at the end. The
  theorems of section 5 cover all other numbers.
* `UintMax` is 15 in the runs: larger than any index reached (at most
  `NumberFiles + NbThreads - 1`, which `PoolAssumption` states) and distinct from it,
  as 2^32 - 1 is in the program.
* `SymbolWrites` is 0 or 1: a record has three or four parts, so first, middle and
  last ones.
* `N` is 3 (2 in gauss_zero_factor): a row is the target of two pivots, is a pivot after
  being a target, and has stale entries in the backward reduction. The proofs
  cover every `N`.
* `CountModulus` is 2^8 in the program and in the passing run; recover_count uses 2
  so that two blocks are enough to wrap.
* Blocks of at most two source and two redundance symbols. `Losses` has no loss,
  losses of one kind and of both, as many as can be repaired and more. The three
  coefficient matrices have independent rows, dependent rows and a zero. One of the three
  messages contains zero symbols; the other two have none among their source symbols, so
  that losing one symbol or two is all that is lost, and differ in the symbols the
  coefficients multiply. `Garbage`, what memory from malloc may
  hold, is 0 or another value.
* `Modulus` is 64: block sizes 0, 1, 2, 3, 8, 62 and symbol sizes 0, 1, 2, 3, 8, 9 give
  products that are 0, fit, wrap to 0 and wrap to another value, and a block of 62 with its
  redundance a number of symbols that wraps; message sizes cover empty, partial and full
  symbols and blocks and three sizes above the modulus. A file is complete, or lacks one
  byte or nine (a whole symbol of any size) at its end.
  The invariants about bytes say for which sizes they hold (`Fits`, `BlocksFit`,
  `WholeBlocksOff`), and beyond 2^32 bytes what is written instead. layout_exact has
  complete files only.
* `Byte` is 8 in startup: -n 8 asks for 0 threads, -n 9 for 1, -n -1 for 7. The command
  lines have each option before and behind the directory, twice, wrong and missing.
* Two names and `MaxChanges` 3: a name can be created, removed and created again
  between and within the two passes, with every set of dot entries, and either pass may
  end early. `Modulus` 32 is
  larger than every count and is met by the -2 the count starts from.
* The seeds are 0, 1, 42 (that of `tests/test_tinymt32.c`), the highest bit and all bits;
  the words have all 32 bits. The shapes are one row, one column, no column and more.
  The run follows one sequence for every seed and shape; that no other seed comes to
  the state of zeros is proved.

Deadlock is checked in every run: a state in which the program has ended has an
explicit stuttering step, any other state without a step is an error.

### Fairness

`Spec` of `WorkerPool` assumes weak fairness of main and of each worker, because the
operating system schedules every runnable thread; only `Termination` in pool_live
depends on it. Weak fairness is enough although workers wait for semaphores: each
worker passes each semaphore a finite number of times and nobody holds one for
ever, so a waiting step is in the end enabled for good. Nothing is assumed about
which call succeeds or fails. The other modules
state safety only: their loops are bounded by their counters, except the two passes of
readDir, which end only if other programs stop creating names, and nothing in the code
makes them stop.

## 4. Properties

* `WorkerPool`: `TypeOK`, `UniqueClaim`, `SemaphoresHeld`, `OverrunBound`, `NameAlive`,
  `RecordsContiguous`, `DestroyedIdle`, `FilesAccounted`, `Termination`, `ArchiveSpec`.
* `Gaussian`: `TypeOK`, `SolutionKept` (the forward reduction may lose equations
  and never makes one up), `Solved`, `ZeroedStaysLost` (an unsolved symbol comes
  out as zero, still marked lost, rather than as a wrong value), `AsFunction`.
* `BlockRecovery`: `TypeOK`, `Restored`, `OnlyLostFilled`, `CrashCause`; with `Decoder`
  `KeepsContract`, `UnsolvedShows` (if every call succeeds, a block whose system was
  not solved still has a symbol that reads as lost) and `FewLossesRestored` (if every call
  succeeds, a block that lost one source symbol or two is restored when the coefficients of
  those symbols are not 0 and, of two, their determinant is not).
* `MessageLayout`: `TypeOK`, `CopiesInside`, `WrittenInOrder`, `RecordLength` (the
  exact number of bytes a record lacks), `CrashCause` (if every size fits, only a file
  that is too short, an empty message or a lack of memory ends the process; what sizes of
  0 and products that wrap do is in the other actions and not bounded by it).
* `Startup`: `TypeOK`, `ThreadCount` (never 0 threads, and as many as asked for where a
  uint8_t holds that: a negative number or one above 255 is not refused, as the message of
  `main.c:53` would have it, but reduced modulo 256, so that -1 starts 255 threads and 300
  starts 44),
  `StreamChosen`, `OverrunBounded` and `GapBounded` (which also says that `numberFiles` does
  not wrap when both dot entries are returned and the counting was not cut short),
  `FilledInOrder`, `UntouchedComplete`, `PoolReady`.
* `Coefficients`: `TypeOK`, `MatchesVector`, `StreamSpec` (every step of the two loops
  draws the next coefficient into the next place, or changes nothing that the sender
  has to agree on); `NeverStuck` is proved.

`ZeroedStaysLost` and `OnlyLostFilled` are about one function each. They do not
add up to "fec never writes a wrong symbol": recover_lost_repair refutes that.

## 5. Proofs

`tlapm` checks every theorem for all values of the constants.

* `WorkerPoolProofs`, from `PoolAssumption` (at least one worker, and
  `NumberFiles + NbThreads` within a uint32_t). The properties are not inductive:
  nothing in `UniqueClaim` says that the worker about to read `nextFile` is alone, and
  `OverrunBound` does not see the workers that passed the test and have not
  taken their index. `PoolInv` adds who holds each semaphore (`ReadInv`, `WriteInv`),
  which workers exist in which phase of main (`MainInv`), that indices handed out are
  below `nextFile` (`ClaimInv`), that `nextFile` plus the number of workers past the test
  is at most `NumberFiles + NbThreads - 1` (`IndexInv`), and that a worker's name is
  live (`NameInv`). From `PoolInvariant` follow `TypeCorrect`, `OverrunBounded`,
  `ClaimsUnique`, `SemaphoresReturned`, `NamesAlive` and `DestroyedUnused`. Two more parts
  stand on `PoolInv`:
  - Records. `RecordInv` adds to `RecordsContiguous` what the last fwrite on the stream is:
    the previous part of its own record while a worker is writing one (`WriterInv`),
    otherwise the end of a record (`IdleInv`). `RecordsNotMixed` covers verbose workers
    that print on the same stream and fwrites that fail.
  - Accounts. `OwnerInv` says that every index below `nextFile` ended or is held by a busy
    worker, and not both; `DeadInv`, `HandedInv` and `DoneInv` keep that account apart
    for workers that returned. From `AccountInvariant` follow `EveryFileAccounted` and the
    refinement `ImplementsArchive`: initial states map to initial states, and each step
    of the threads is a step of `DecodeArchive` or a stutter.
* `FieldProofs`. The first part has facts of the field and the laws of sums (`SumOf`), from
  `ByteFieldAssumption`. `SumOf` folds over a set, and what holds of it is proved without
  induction over data: the finite sets are well ordered by inclusion, so if a fact failed
  there would be a smallest set for which it fails, and taking one member out of that
  contradicts it. `RuleExists` and `RuleUnique` justify the recursive definition that way,
  `TotalRemove`, `TotalSplit` and `TotalReindex` are the laws.
  The second part proves, from nothing, that `TableField` obeys `ByteFieldAssumption`
  (`TablesFormField`). Going through the 256^3 triples of a law is out of the question, so
  everything is reduced to doubling: an additive function that commutes with doubling is
  a multiplication, which gives the distributive, commutative and associative laws. For
  the inverses: squaring is additive, an element that is its own square is 0 or 1, and
  eight squarings give every element back, so the product of all the squares of an
  element is its own square, hence 1 unless it is 0, and the element has an inverse.
* `GaussianProofs`, from `ByteFieldAssumption` and `GaussianAssumption` (the size is not
  0). `GaussInv` describes the matrix: clear below the diagonal as far
  as the loops have come, unit rows behind the backward reduction (although
  the code never clears the entries right of a pivot itself, they are cleared when
  their own column is the pivot column), the lost symbols solve every row, and a
  zeroed row is zero. From `GaussInvariant` follow `GaussTypes`, `SolutionsKept`,
  `EliminationSolves` and `ZeroedRowsStayLost`. `LoopsComputeFunction` proves `AsFunction`:
  `FunctionInv` says that at every place in the loops (`ForwardAt`, `BackwardAt`) the
  arrays are those a run of `Elimination`'s loops leads to, in the sense of the
  next item, so at the end there is nothing left but the function's result.
* `EliminationProofs`, from `ByteFieldAssumption`. `Elimination` folds over the rows of a loop in
  their order, and what the fold does for any number of rows cannot be proved by
  induction over data. Instead: if the fold did something else there would be a smallest number
  of rows for which it did, and taking the last row away contradicts that; the same
  argument gives every invariant of a loop. `Leads` says that a loop takes one system to
  another and comes through a third after `k` iterations. `ZeroedRowsEndZero` and
  `ResolvedSolves` are what the function promises for systems of any size: a row
  that was multiplied by zero has the symbol zero at the end, and if there was none, the
  result is the one solution of the system. The second rests on each iteration
  having an inverse as long as its factor is not zero, so that equations are neither
  lost nor made up, and on the pivot row being clear right of the pivot when the
  backward reduction comes to it, so that a single entry is all it has to update.
  `SmallSystemsSolved` is the converse for small systems: one equation whose coefficient is
  not 0, or two whose first coefficients and whose determinant are not 0, are solved
  without multiplying a row by zero. With a zero below the pivot that is false
  (gauss_zero_factor).
* `DecoderProofs`, from `BlockAssumption` and `ByteFieldAssumption`. The first part is about
  `BlockRecovery`. `RecoverInv` adds
  to `CrashCause` that the loop stays inside the list and that what was found lost in the
  current block is still zero; from it follow `CrashesCaused` and, with `FillKeeps`,
  `OthersUntouched`. `RecoverTypes` and `BlocksRestored` (`Restored`) use the sums of
  `FieldProofs`. `RestoreInv` says that blocks
  not repaired yet hold what arrived (`Received`), that a block which lost source symbols
  only has a system that the symbols sent solve (`SystemRight`: what is taken off the
  redundance symbol is the sum of the symbols that arrived, and adding it twice
  cancels), and that each block behind the loop is as `Restored` says (`BlocksRight`).
  In the second part the two halves meet: `ResolvedSolves` is what `BlockRecovery` supposes of an
  elimination, so every step of the decoder with the code of the elimination is a step of
  `BlockRecovery` (`ContractKept`), and `BlocksRestored`, `CrashesCaused`, `OthersUntouched` and
  `RecoverTypes` carry over to it (`DecoderRestores`, `DecoderCrashes`,
  `DecoderKeepsOthers`, `DecoderTypes`). With `LoopsComputeFunction` the chain is whole: the
  loops of system.c compute the function, the function keeps the contract, and with the
  contract processBlocks restores the blocks. `UnsolvedShown` needs the code and not only the
  contract. `ShowInv` says that with memory and enough redundance the system is filled
  before it is solved (`SystemFilled`), that the result of one that was not solved has a
  zero (`ZeroInResult`, from `ZeroedRowsEndZero`) and that fillLostSymbol put that zero
  where the block still reads as lost (`BlocksShow`). `FewRestored` needs the code as well.
  `FewInv` says that the matrix of a block with one or two lost source symbols holds exactly
  the coefficients of those symbols (`SystemGood`, from `MatrixFilled`: with no redundance
  symbol lost, no column is left as malloc returned it), that its elimination meets no
  zero (`ResultGood`, from `SmallSystemsSolved`) and that every such block behind the loop
  counts as solved (`BlocksGood`); `BlocksRestored` does the rest.
* `CoefficientsProofs`: `GeneratorNeverStuck`. A word equal to itself shifted by one is zero
  (`LeftChain`, `RightChain`), so next_state maps no other state to the state of zeros, and
  the certification replaces that one. No assumption on the seed. `MatrixFits` is `TypeOK`:
  no row and no coefficient is written behind the memory allocated for it.
  `ImplementsStream` is the refinement of `CoefficientStream`; its middle is `RowByRow`,
  the rows one behind the other, and what appending to the last row does to it.
* `StartupProofs`, from `ArgumentsAssumption` (nb_threads is wider than its initial value 4),
  `ListingAssumption` and `StartupAssumption` (the number of names and changes stays
  below 2^32). `CountInv` and `FillInv` relate the counter of either pass to the names that
  may still be read (`Unread`) and have to be (`Owed`), up to the names created and removed,
  as far as an error of readdir leaves them in relation, and to the dot entries already
  counted, which keep `numberFiles` from wrapping;
  `SlotInv` and `UntouchedInv` are about the contents of the slots, `ArgInv` about the options
  handled so far, `MainInv` ties the parts together. From them follow `StartupTypes`,
  `ThreadsChosen`, `StreamOfLast`, `ListingOverrun`, `ListingGap`, `ListingInOrder`,
  `ListingComplete` and `StartsPool`.
* `MessageLayoutProofs`, from `LayoutAssumption` (the fields of the header are within their
  types, 0 as well; the size of the message is any number, far below 2^64; the file may
  lack any number of bytes). The first part is arithmetic: uniqueness of quotient and remainder,
  products that keep an order, rounding up. `CutInv` and `WriteInv` say where the loops of
  makeBlockList and writeToFile are and what they have done, `CopyInv` from where each symbol
  was copied, `WrittenInv` what is in the record, `EndInv` how the process can have
  ended. From `LayoutInvariant` follow `LayoutTypes`, `CopiesStayInside`, `BytesInOrder`,
  `RecordLengths` and `LayoutCrashes`, for every header and file. `HeaderHolds` and
  `HeaderFits` say that no size is 0 once the division has been passed, or if every size fits.

Only model-checked: `Termination`, because liveness under fairness is out of the provers'
reach (`SemaphoresReturned` is the part of it that is safety), and `MatchesVector`, which
compares outputs of single seeds with constants. Of every other property that holds there is
a theorem.

`ByteFieldAssumption` is not taken on trust: `TablesFormField` proves it of `TableField`.
What remains is that the header holds what `TableField` says: the 65,536 entries of the
multiplication table and the 256 of the inverse table were compared with `MulGF256` and
`InvGF256` once, outside the runs, and all agree.

## 6. Not modelled

* Printing, except that verbose workers print on the stream they may share with
  the records (`DebugToOutput`); freeBlock and freeMessage (memory that is released and
  never used again); the gf_256_inv_vector functions and the vector operations that
  return a new vector, which only tests call and which touch no state.
* The byte order of the header fields (`portable_endian.h`), which `MessageLayout` takes
  as converted, and the definitions of `portable_semaphore.h` that choose between
  the platforms.
* The entries of the two tables one by one: `MulGF256` and `InvGF256` are the rules they
  follow. The header is two thirds of the lines of the repository; most of the
  rest is the vendored CUnit, which is not part of the program, as are the tests and
  scripts. That is why the definitions cover a small share of all lines although
  they stand for nearly every function of the program.
* Liveness of readDir, see Fairness. Crash and restart: nothing is persisted and nothing
  resumed; a record that was cut short is part of the models (`FilesAccounted`).

## 7. Plan

Done, in this order: `DecodeArchive` and `WorkerPool` (the concurrent core) with proofs of
its invariants; `Gaussian` with proofs; `BlockRecovery` and `MessageLayout`; then
the records and accounts in `WorkerPoolProofs`, `Arguments`, `DirectoryListing` and
`Startup` with proofs, `TinyMT` and `Coefficients` with a proof, `Elimination` and the
composition `Decoder`, `MessageLayoutProofs`, and the sums and `BlocksRestored`; then
`EliminationProofs`, `LoopsComputeFunction`, `DecoderProofs`, `CoefficientStream` with its
refinement, and `SemaphoresReturned`; then `FieldProofs`, with the sum as the left side of an
equation and the field laws of the tables, `SmallSystemsSolved` and `FewLossesRestored`.

Left: a condition like `FewLost` for three losses and more. It is no longer a matter of the
determinants alone, since each zero met on the way loses an equation, so it would have
to follow the elimination through every pivot.
