---------------------------- MODULE CmdlineParser ----------------------------
(***************************************************************************)
(* CmdlineParser::parse.  The tokens before the first separator are DPDK's *)
(* and passed over; each one after it must be the name of an argument, and *)
(* takes the next token as its value unless that begins with a dash.       *)
(* ConfigManager::init then looks at the value of --help.                  *)
(*                                                                         *)
(* A token is the separator "--", an argument (its long or short name), or *)
(* one of Values; the values in Dashed begin with a dash.                  *)
(***************************************************************************)
EXTENDS Naturals, Sequences

CONSTANTS Args,          \* arguments_, by long_name
          Required,      \* those with the flag required
          Default,       \* value of each before the command line is parsed
          Values,        \* tokens that name no argument
          Dashed,        \* those of them that begin with a dash
          TrueValues,    \* those that get<bool> takes for true
          Help,          \* the argument --help
          Separator,
          Empty,         \* the empty string, a value no token has
          MaxTokens      \* bound: tokens on the command line

Tokens == Args \cup Values \cup {Separator}

ASSUME ParserAssumption ==
          /\ Separator \notin Args \cup Values /\ Empty \notin Tokens
          /\ Args \cap Values = {} /\ Dashed \subseteq Values
          /\ Required \subseteq Args /\ Help \in Args
          /\ TrueValues \subseteq Values \ Dashed
          /\ Default \in [Args -> Values \cup {Empty}]
          /\ MaxTokens \in Nat

VARIABLES argv,          \* the tokens after the program's name
          i,             \* index of the token to look at
          found, value,  \* fields of the arguments
          status         \* "start", "parse", "ok", "run", "help", or why it was refused

vars == <<argv, i, found, value, status>>

Init == /\ \E n \in 0..MaxTokens : argv \in [1..n -> Tokens]
        /\ i = 1
        /\ found = {} /\ value = Default
        /\ status = "start"

-----------------------------------------------------------------------------
Separators == {j \in 1..Len(argv) : argv[j] = Separator}

\* Every name of an argument begins with a dash, and the separator does.
BeginsWithDash(t) == t \notin Values \ Dashed

\* Is there a token behind j that may be a value?
ValueFollows(j) == j + 1 <= Len(argv) /\ ~BeginsWithDash(argv[j + 1])

\* Steps 1 and 2: the first separator; without one there must be no token.
FindSeparator ==
   /\ status = "start"
   /\ IF Separators = {}
      THEN /\ status' = IF argv = << >> THEN "parse" ELSE "no separator"
           /\ i' = i
      ELSE /\ i' = (CHOOSE j \in Separators : \A k \in Separators : j <= k) + 1
           /\ status' = "parse"
   /\ UNCHANGED <<argv, found, value>>

\* Mutants of TakeOption: the first value given to an argument stays; an option
\* without a value skips the next token too.
TakeOptionLate ==
   /\ status = "parse" /\ i <= Len(argv) /\ argv[i] \in Args
   /\ LET arg == argv[i]
      IN  /\ found' = found \cup {arg}
          /\ IF ValueFollows(i)
             THEN /\ value' = IF arg \in found THEN value ELSE [value EXCEPT ![arg] = argv[i + 1]]
                  /\ i' = i + 2
                  /\ UNCHANGED status
             ELSE IF arg \in Required /\ value[arg] = Empty
             THEN status' = "no value" /\ UNCHANGED <<value, i>>
             ELSE i' = i + 1 /\ UNCHANGED <<value, status>>
   /\ UNCHANGED argv

TakeOptionPastEnd ==
   /\ status = "parse" /\ i <= Len(argv) /\ argv[i] \in Args
   /\ LET arg == argv[i]
      IN  /\ found' = found \cup {arg}
          /\ IF ValueFollows(i)
             THEN /\ value' = [value EXCEPT ![arg] = argv[i + 1]]
                  /\ i' = i + 2
                  /\ UNCHANGED status
             ELSE IF arg \in Required /\ value[arg] = Empty
             THEN status' = "no value" /\ UNCHANGED <<value, i>>
             ELSE i' = i + 2 /\ UNCHANGED <<value, status>>
   /\ UNCHANGED argv

\* Step 3, for a token that names an argument.
TakeOption ==
   /\ status = "parse" /\ i <= Len(argv) /\ argv[i] \in Args
   /\ LET arg == argv[i]
      IN  /\ found' = found \cup {arg}
          /\ IF ValueFollows(i)
             THEN /\ value' = [value EXCEPT ![arg] = argv[i + 1]]
                  /\ i' = i + 2
                  /\ UNCHANGED status
             ELSE IF arg \in Required /\ value[arg] = Empty
             THEN status' = "no value" /\ UNCHANGED <<value, i>>
             ELSE i' = i + 1 /\ UNCHANGED <<value, status>>
   /\ UNCHANGED argv

\* Mutant of Reject: an unknown token is passed over.
RejectNothing == /\ status = "parse" /\ i <= Len(argv) /\ argv[i] \notin Args
                 /\ i' = i + 1
                 /\ UNCHANGED <<argv, found, value, status>>

\* Step 3, for any other token.
Reject == /\ status = "parse" /\ i <= Len(argv) /\ argv[i] \notin Args
          /\ status' = "unknown"
          /\ UNCHANGED <<argv, i, found, value>>

\* Step 4: the required arguments are there.
Finish == /\ status = "parse" /\ i > Len(argv)
          /\ status' = IF Required \subseteq found THEN "ok" ELSE "missing"
          /\ UNCHANGED <<argv, i, found, value>>

\* get<bool>: the value says so.
GetBool(arg) == value[arg] \in TrueValues

\* ConfigManager::init: the usage is shown, and the program ends, if --help says
\* so.  (It does the same, after an error message, if parse refused.)
Configure == /\ status = "ok"
             /\ status' = IF GetBool(Help) THEN "help" ELSE "run"
             /\ UNCHANGED <<argv, i, found, value>>

Next == FindSeparator \/ TakeOption \/ Reject \/ Finish \/ Configure

Spec == Init /\ [][Next]_vars

-----------------------------------------------------------------------------
TypeOK == /\ argv \in Seq(Tokens)
          /\ i \in 1..(Len(argv) + 1)
          /\ found \subseteq Args
          /\ value \in [Args -> Values \cup {Empty}]
          /\ status \in {"start", "parse", "ok", "run", "help", "no separator",
                         "no value", "unknown", "missing"}

Done == status \notin {"start", "parse"}
Accepted == status \in {"ok", "run", "help"}

\* The same command line read as a whole: the options are the tokens behind the
\* first separator that begin with a dash; any other token must follow one.
AppTokens == {j \in 1..Len(argv) : \E k \in Separators : k < j}
Options == {j \in AppTokens : BeginsWithDash(argv[j])}
Given(arg) == {j \in Options : argv[j] = arg}

WellFormed ==
   /\ argv # << >> => Separators # {}
   /\ \A j \in Options : argv[j] \in Args
   /\ AppTokens \ Options \subseteq {j + 1 : j \in Options}
   /\ \A arg \in Required : /\ Given(arg) # {}
                            /\ Default[arg] = Empty =>
                                  \A j \in Given(arg) :
                                     \E k \in Given(arg) : k <= j /\ ValueFollows(k)

\* A command line is accepted exactly when every token has its place: parse
\* neither takes an option for a value nor a value for an option.
AcceptsWellFormed == Done => (Accepted <=> WellFormed)

\* The value of an argument is the last that the command line gives it; an
\* occurrence without a value changes nothing.
MeansWhatItSays ==
   Accepted =>
      /\ found = {argv[j] : j \in Options}
      /\ \A arg \in Args :
            LET valued == {j \in Given(arg) : ValueFollows(j)}
            IN  IF valued = {} THEN value[arg] = Default[arg]
                ELSE \E j \in valued : /\ \A k \in valued : k <= j
                                       /\ value[arg] = argv[j + 1]
=============================================================================
