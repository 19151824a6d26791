----------------------------- MODULE Arguments ------------------------------
(***************************************************************************)
(* parse_args of main.c and what main does with its result.  getopt is the *)
(* one of the system: it looks for options behind the input directory as   *)
(* well, as GNU's does, or stops at the first argument that is no option.  *)
(* An argument is a record that says what getopt makes of it.              *)
(***************************************************************************)
EXTENDS Integers, Sequences, FiniteSetsExt

CONSTANTS
  CommandLines,   \* the sequences of arguments the program is called with
  Byte            \* a uint8_t holds 0 .. Byte - 1: 2^8

\* -n has a value, what atoi makes of its text; -f has a file.
Option   == {"n", "v", "f", "?"}
Argument == [kind : {"n"}, value : Int] \cup [kind : {"f"}, file : STRING \ {"stdout"}]
            \cup [kind : {"v", "?", "operand"}]

ASSUME ArgumentsAssumption ==
  /\ Byte \in Nat /\ Byte > 4
  /\ CommandLines \subseteq Seq(Argument)

VARIABLES
  argv,           \* the command line
  permutes,       \* getopt looks behind operands
  parsed,         \* how many arguments have been looked at
  nb_threads, verbose, output_stream,   \* fields of args
  opened,         \* the files opened, and emptied, for writing
  ret             \* what parse_args returned

argVars == <<argv, permutes, parsed, nb_threads, verbose, output_stream, opened, ret>>

\* The default values of the arguments.
ParseInit ==
  /\ argv \in CommandLines /\ permutes \in BOOLEAN
  /\ parsed = 0
  /\ nb_threads = 4 /\ verbose = FALSE /\ output_stream = "stdout"
  /\ opened = {}
  /\ ret = "none"

-----------------------------------------------------------------------------

\* The options getopt returns, by their place in argv.
Options ==
  {k \in DOMAIN argv :
     /\ argv[k].kind \in Option
     /\ permutes \/ \A l \in 1 .. k - 1 : argv[l].kind # "operand"}

Left == {k \in Options : k > parsed}

\* getopt returns this option.
Returns(kind) ==
  /\ ret = "none"
  /\ Left # {}
  /\ argv[Min(Left)].kind = kind
  /\ parsed' = Min(Left)

\* A field as wide as the value.
StoredWide(value) == value

Stored(value) == value % Byte

\* A test of the value itself.
AcceptedBeforeStored(value) == value # 0

\* The value is stored in a uint8_t before it is compared with 0.
Accepted(value) == Stored(value) # 0

OptionN ==
  /\ Returns("n")
  /\ nb_threads' = Stored(argv[Min(Left)].value)
  /\ ret' = IF Accepted(argv[Min(Left)].value) THEN ret ELSE "error"
  /\ UNCHANGED <<argv, permutes, verbose, output_stream, opened>>

OptionV ==
  /\ Returns("v")
  /\ verbose' = TRUE
  /\ UNCHANGED <<argv, permutes, nb_threads, output_stream, opened, ret>>

\* The first -f is the one that counts.
FirstStream(file) == IF output_stream = "stdout" THEN file ELSE output_stream

\* A second -f replaces the stream of the first, which stays open.
Stream(file) == file

\* fopen empties the file.
OptionF ==
  /\ Returns("f")
  /\ output_stream' = Stream(argv[Min(Left)].file)
  /\ opened' = opened \cup {argv[Min(Left)].file}
  /\ UNCHANGED <<argv, permutes, nb_threads, verbose, ret>>

\* fopen fails, and output_stream becomes NULL.
OptionFFails ==
  /\ Returns("f")
  /\ output_stream' = "null"
  /\ ret' = "error"
  /\ UNCHANGED <<argv, permutes, nb_threads, verbose, opened>>

\* An unknown option, or one without its value: the usage is printed.
OptionUnknown ==
  /\ Returns("?")
  /\ ret' = "usage"
  /\ UNCHANGED <<argv, permutes, nb_threads, verbose, output_stream, opened>>

\* There is no operand, or opendir fails, or it is opened.
InputDirectory ==
  /\ ret = "none"
  /\ Left = {}
  /\ ret' \in IF Options = DOMAIN argv THEN {"error"} ELSE {"error", "ok"}
  /\ UNCHANGED <<argv, permutes, parsed, nb_threads, verbose, output_stream, opened>>

ParseNext ==
  \/ OptionN \/ OptionV \/ OptionF \/ OptionFFails \/ OptionUnknown
  \/ InputDirectory

-----------------------------------------------------------------------------

Handled(kind) == {k \in Options : k <= parsed /\ argv[k].kind = kind}

\* What the last -n asks for.
Asked == argv[Max(Handled("n"))].value

\* Whatever -n is given, the program never starts with 0 threads; it starts with 4
\* by default, and with as many as the last -n asks for if a uint8_t holds that.
\* Other values main.c:53 calls an error ("must be a positive integer"), but the
\* program accepts them unless they are multiples of 2^8: -1 starts 255 threads.
ThreadCount ==
  ret = "ok" =>
    /\ nb_threads \in 1 .. Byte - 1
    /\ Handled("n") = {} => nb_threads = 4
    /\ Handled("n") # {} /\ Asked \in 1 .. Byte - 1 => nb_threads = Asked

\* The records go to the file of the last -f that getopt sees, or to stdout;
\* the files of the others, and all of them when an argument is wrong, have been
\* emptied for nothing.  A getopt that stops at the first operand sees no -f
\* behind the directory, where the README of the program puts it.
StreamChosen ==
  /\ ret = "ok" =>
       output_stream = (IF Handled("f") = {} THEN "stdout"
                        ELSE argv[Max(Handled("f"))].file)
  /\ output_stream # "null" => opened = {argv[k].file : k \in Handled("f")}
=============================================================================
