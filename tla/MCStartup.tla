----------------------------- MODULE MCStartup ------------------------------
(***************************************************************************)
(* Command lines and directories for Startup.  With a uint8_t of 3 bits,   *)
(* -n 8 asks for as many threads as it can count, and -n -1 for 7.         *)
(***************************************************************************)
EXTENDS Startup

Dir     == [kind |-> "operand"]
N(v)    == [kind |-> "n", value |-> v]
F(f)    == [kind |-> "f", file |-> f]
Verbose == [kind |-> "v"]
Unknown == [kind |-> "?"]

\* The program's README puts the directory first, its usage text last.
SomeCommandLines ==
  {<<>>, <<Dir>>, <<Unknown, Dir>>, <<Dir, Dir>>, <<Verbose>>,
   <<Dir, F("out"), N(3)>>, <<F("out"), N(3), Dir>>, <<F("out"), Unknown, Dir>>,
   <<F("out"), F("log"), Dir>>, <<N(9), F("out"), Dir>>, <<F("out"), N(0), Dir>>}
  \cup {<<N(v), Dir>> : v \in {-1, 0, 1, 8, 9}}
  \cup {<<N(v), N(w), Dir>> : v \in {2, 8}, w \in {0, 7, 9}}

SomeDotListings == {{}, {".."}, Dot}
=============================================================================
