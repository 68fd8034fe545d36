-------------------------- MODULE CmdlineParserProof --------------------------
(***************************************************************************)
(* Proofs about CmdlineParser, for any arguments and any command line.     *)
(***************************************************************************)
EXTENDS CmdlineParser, WellFoundedInduction, TLAPS

\* What parse has read: the options before i, each with what it names.
OptionsRead == {j \in Options : j < i}

\* The loop is behind the first separator and not at the value of an option.
AtToken ==
   /\ argv # << >> => \E k \in Separators : k < i
   /\ \A j \in Options : j + 1 = i /\ i <= Len(argv) => BeginsWithDash(argv[i])

\* What it has read would be well formed if the command line ended here.
ReadWellFormed ==
   /\ \A j \in OptionsRead : argv[j] \in Args
   /\ \A j \in AppTokens \ Options : j < i => \E k \in Options : j = k + 1
   /\ \A arg \in Required : Default[arg] = Empty =>
         \A j \in Given(arg) : j < i => \E k \in Given(arg) : k <= j /\ ValueFollows(k)

\* The occurrences of an argument before i that have a value, and what they mean.
ValuedRead(arg) == {j \in Given(arg) : j < i /\ ValueFollows(j)}
ReadValues ==
   \A arg \in Args :
      \/ ValuedRead(arg) = {} /\ value[arg] = Default[arg]
      \/ \E j \in ValuedRead(arg) : /\ \A k \in ValuedRead(arg) : k <= j
                                    /\ value[arg] = argv[j + 1]

Prefix == /\ AtToken /\ ReadWellFormed /\ ReadValues
          /\ found = {argv[j] : j \in OptionsRead}

IndInv == /\ TypeOK
          /\ status = "start" => i = 1 /\ found = {} /\ value = Default
          /\ status = "parse" => Prefix
          /\ AcceptsWellFormed
          /\ MeansWhatItSays

-----------------------------------------------------------------------------
\* Every nonempty set of natural numbers has a least element.
LEMMA LeastElement ==
   ASSUME NEW T, T \subseteq Nat, T # {}
   PROVE  \E m \in T : \A k \in T : m <= k
<1> DEFINE R == OpToRel(<, Nat)
<1>1. \A x, y \in Nat : x < y => <<x, y>> \in R
   BY DEF OpToRel
<1>2. IsWellFoundedOn(R, Nat)
   BY NatLessThanWellFounded
<1> HIDE DEF R
<1>3. PICK m \in T : \A k \in T : ~(<<k, m>> \in R)
   BY <1>2, WFMin
<1>4. \A k \in T : ~(k < m)
   BY <1>1, <1>3
<1> QED BY <1>3, <1>4

\* What the command line is made of.
LEMMA Argv ==
   ASSUME argv \in Seq(Tokens)
   PROVE  /\ Len(argv) \in Nat /\ \A j \in 1..Len(argv) : argv[j] \in Tokens
          /\ argv = << >> <=> Len(argv) = 0
          /\ Separators \subseteq 1..Len(argv) /\ AppTokens \subseteq 1..Len(argv)
          /\ Options \subseteq AppTokens
BY DEF Separators, AppTokens, Options

\* The tokens by their kind: an argument begins with a dash, and so does the separator.
LEMMA Kinds ==
   ASSUME NEW t \in Tokens
   PROVE  /\ t \in Args \/ t = Separator => BeginsWithDash(t)
          /\ ~BeginsWithDash(t) => t \in Values \ Dashed
          /\ t # Empty
BY ParserAssumption DEF Tokens, BeginsWithDash

LEMMA InitInv == Init => IndInv
<1> SUFFICES ASSUME Init PROVE IndInv
   OBVIOUS
<1>1. argv \in Seq(Tokens)
   <2>1. PICK n \in 0..MaxTokens : argv \in [1..n -> Tokens]
      BY DEF Init
   <2>2. n \in Nat
      BY ParserAssumption, <2>1
   <2> QED BY <2>1, <2>2
<1>2. TypeOK
   <2>1. Len(argv) \in Nat
      BY <1>1
   <2>2. 1 \in 1..(Len(argv) + 1)
      BY <2>1
   <2> QED BY <1>1, <2>2, ParserAssumption DEF Init, TypeOK
<1> QED BY <1>2 DEF Init, IndInv, AcceptsWellFormed, MeansWhatItSays, Done, Accepted

-----------------------------------------------------------------------------
\* Behind the first separator nothing has been read.
LEMMA FindSeparatorInv == IndInv /\ FindSeparator => IndInv'
<1> SUFFICES ASSUME IndInv, FindSeparator PROVE IndInv'
   OBVIOUS
<1>1. /\ status = "start" /\ i = 1 /\ found = {} /\ value = Default /\ TypeOK
      /\ argv' = argv /\ found' = found /\ value' = value
   BY DEF IndInv, FindSeparator
<1>2. /\ Len(argv) \in Nat /\ Separators \subseteq 1..Len(argv)
      /\ AppTokens \subseteq 1..Len(argv) /\ Options \subseteq AppTokens
      /\ argv = << >> <=> Len(argv) = 0
   BY <1>1, Argv DEF TypeOK
<1>3. UNCHANGED <<Separators, AppTokens, Options>>
   BY <1>1 DEF Separators, AppTokens, Options
<1>4. CASE Separators = {} /\ argv # << >>
   <2>1. status' = "no separator" /\ i' = i
      BY <1>4 DEF FindSeparator
   <2>2. ~WellFormed'
      BY <1>1, <1>3, <1>4 DEF WellFormed
   <2> QED BY <1>1, <2>1, <2>2 DEF IndInv, TypeOK, AcceptsWellFormed, MeansWhatItSays,
                                   Done, Accepted
<1>5. CASE ~(Separators = {} /\ argv # << >>)
   <2>1. /\ status' = "parse" /\ i' \in 1..(Len(argv) + 1)
         /\ argv # << >> => \E k \in Separators : i' = k + 1
         /\ \A j \in AppTokens : j >= i'
      <3>1. CASE Separators = {}
         <4>1. AppTokens = {}
            BY <3>1 DEF AppTokens
         <4>2. argv = << >> /\ status' = "parse" /\ i' = i
            BY <1>5, <3>1 DEF FindSeparator
         <4> QED BY <1>1, <1>2, <4>1, <4>2
      <3>2. CASE Separators # {}
         <4>1. \E m \in Separators : \A k \in Separators : m <= k
            <5>1. Separators \subseteq Nat
               BY <1>2
            <5> QED BY <3>2, <5>1, LeastElement
         <4> DEFINE m == CHOOSE j \in Separators : \A k \in Separators : j <= k
         <4>2. m \in Separators /\ \A k \in Separators : m <= k
            BY <4>1
         <4>3. i' = m + 1 /\ status' = "parse"
            BY <3>2 DEF FindSeparator
         <4> HIDE DEF m
         <4>4. m \in 1..Len(argv)
            BY <1>2, <4>2
         <4>5. \A j \in AppTokens : j >= m + 1
            <5> SUFFICES ASSUME NEW j \in AppTokens PROVE j >= m + 1
               OBVIOUS
            <5>1. PICK k \in Separators : k < j
               BY DEF AppTokens
            <5>2. j \in 1..Len(argv) /\ k \in 1..Len(argv) /\ m <= k
               BY <1>2, <4>2
            <5> QED BY <1>2, <4>4, <5>1, <5>2
         <4> QED BY <1>2, <4>2, <4>3, <4>4, <4>5
      <3> QED BY <3>1, <3>2
   <2>2. \A j \in AppTokens' : ~(j < i') /\ ~(j + 1 = i') /\ j \in Nat
      <3> SUFFICES ASSUME NEW j \in AppTokens
                   PROVE  ~(j < i') /\ ~(j + 1 = i') /\ j \in Nat
         BY <1>3
      <3>1. j \in Nat /\ i' \in Nat /\ j >= i'
         BY <1>2, <2>1
      <3> QED BY <3>1
   <2>3. Options' \subseteq AppTokens'
      BY <1>2, <1>3
   <2>4. AtToken'
      <3>1. \A k \in Separators : i' = k + 1 => k < i'
         BY <1>2, <2>1
      <3>2. argv' # << >> => \E k \in Separators' : k < i'
         BY <1>1, <1>3, <2>1, <3>1
      <3> QED BY <2>2, <2>3, <3>2 DEF AtToken
   <2>5. OptionsRead' = {} /\ \A arg : ValuedRead(arg)' = {}
      <3>1. \A j \in Options' : ~(j < i')
         BY <2>2, <2>3
      <3>2. \A arg : Given(arg)' \subseteq Options'
         BY DEF Given
      <3>3. OptionsRead' = {}
         BY <3>1 DEF OptionsRead
      <3>4. \A arg : ValuedRead(arg)' = {}
         BY <3>1, <3>2 DEF ValuedRead
      <3> QED BY <3>3, <3>4
   <2>6. ReadWellFormed'
      <3>1. \A arg : \A j \in Given(arg)' : ~(j < i')
         BY <2>2, <2>3 DEF Given
      <3> QED BY <2>2, <2>5, <3>1 DEF ReadWellFormed
   <2>7. ReadValues' /\ found' = {argv'[j] : j \in OptionsRead'}
      BY <1>1, <2>5 DEF ReadValues
   <2>8. TypeOK'
      BY <1>1, <2>1 DEF TypeOK
   <2> QED BY <2>1, <2>4, <2>6, <2>7, <2>8
           DEF IndInv, Prefix, AcceptsWellFormed, MeansWhatItSays, Done, Accepted
<1> QED BY <1>4, <1>5

\* The token at i, in a loop that has not ended.
LEMMA AtI ==
   ASSUME IndInv, status = "parse", i <= Len(argv)
   PROVE  /\ TypeOK /\ Prefix /\ Len(argv) \in Nat /\ i \in 1..Len(argv)
          /\ argv[i] \in Tokens
          /\ i \in AppTokens /\ \A j \in AppTokens : j \in Nat
          /\ \A j \in AppTokens : j + 1 \in 1..Len(argv) => j + 1 \in AppTokens
<1>1. TypeOK /\ Prefix
   BY DEF IndInv
<1>2. /\ Len(argv) \in Nat /\ \A j \in 1..Len(argv) : argv[j] \in Tokens
      /\ (argv = << >> <=> Len(argv) = 0) /\ Separators \subseteq 1..Len(argv)
      /\ AppTokens \subseteq 1..Len(argv)
   BY <1>1, Argv DEF TypeOK
<1>3. i \in 1..Len(argv)
   BY <1>1, <1>2 DEF TypeOK
<1>4. i \in AppTokens
   <2>1. argv # << >>
      BY <1>2, <1>3
   <2> QED BY <1>1, <1>3, <2>1 DEF Prefix, AtToken, AppTokens
<1>5. \A j \in AppTokens : j + 1 \in 1..Len(argv) => j + 1 \in AppTokens
   <2>1. \A k \in Separators : \A j \in AppTokens : k \in Nat /\ j \in Nat
      BY <1>2
   <2> SUFFICES ASSUME NEW j \in AppTokens, j + 1 \in 1..Len(argv)
                PROVE  j + 1 \in AppTokens
      OBVIOUS
   <2>2. PICK k \in Separators : k < j
      BY DEF AppTokens
   <2>3. k \in Nat /\ j \in Nat
      BY <2>1
   <2>4. k < j + 1
      BY <2>2, <2>3
   <2> QED BY <2>4 DEF AppTokens
<1> QED BY <1>1, <1>2, <1>3, <1>4, <1>5

\* An option is an option of the command line read as a whole.
LEMMA OptionAtI ==
   ASSUME IndInv, status = "parse", i <= Len(argv), argv[i] \in Args
   PROVE  /\ i \in Options /\ i \in Given(argv[i])
          /\ \A b \in Args : i \in Given(b) => b = argv[i]
          /\ \A j \in Options : j \in Nat /\ j \in AppTokens
          /\ \A b : Given(b) \subseteq Options
<1>1. i \in AppTokens /\ argv[i] \in Tokens /\ \A j \in AppTokens : j \in Nat
   BY AtI
<1>2. BeginsWithDash(argv[i])
   BY <1>1, Kinds
<1> QED BY <1>1, <1>2 DEF Options, Given

\* The parts of the whole depend on the command line only.
LEMMA SameArgv ==
   ASSUME argv' = argv
   PROVE  /\ Separators' = Separators /\ AppTokens' = AppTokens /\ Options' = Options
          /\ \A b : Given(b)' = Given(b)
          /\ \A j : ValueFollows(j)' = ValueFollows(j)
          /\ WellFormed' = WellFormed
BY DEF Separators, AppTokens, Options, Given, ValueFollows, WellFormed

\* An option with a value: two tokens are read.
LEMMA ValuedOption ==
   ASSUME IndInv, status = "parse", i <= Len(argv), argv[i] \in Args, ValueFollows(i),
          argv' = argv, status' = status, i' = i + 2, found' = found \cup {argv[i]},
          value' = [value EXCEPT ![argv[i]] = argv[i + 1]]
   PROVE  TypeOK' /\ Prefix'
<1> DEFINE arg == argv[i]
           next == argv[i + 1]
<1>1. /\ TypeOK /\ Prefix /\ Len(argv) \in Nat /\ i \in 1..Len(argv) /\ i \in AppTokens
      /\ \A j \in AppTokens : j \in Nat
      /\ \A j \in AppTokens : j + 1 \in 1..Len(argv) => j + 1 \in AppTokens
   BY AtI
<1>2. /\ i \in Options /\ i \in Given(arg) /\ \A b \in Args : i \in Given(b) => b = arg
      /\ \A j \in Options : j \in Nat /\ j \in AppTokens
      /\ \A b : Given(b) \subseteq Options
   BY OptionAtI
<1>3. i + 1 \in 1..Len(argv) /\ ~BeginsWithDash(next)
   BY <1>1 DEF ValueFollows
<1>4. i + 1 \in AppTokens /\ i + 1 \notin Options
   BY <1>1, <1>3 DEF Options
<1>5. next \in Values
   <2>1. next \in Tokens
      BY <1>1, <1>3, Argv DEF TypeOK
   <2> QED BY <1>3, <2>1, Kinds
<1>6. /\ Separators' = Separators /\ AppTokens' = AppTokens /\ Options' = Options
      /\ \A b : Given(b)' = Given(b)
      /\ \A j : ValueFollows(j)' = ValueFollows(j)
   BY SameArgv
<1>7. \A j \in AppTokens : j < i' <=> j < i \/ j = i \/ j = i + 1
   <2>1. \A j, m \in Nat : j < m + 2 <=> j < m \/ j = m \/ j = m + 1
      OBVIOUS
   <2>2. i \in Nat
      BY <1>1
   <2> QED BY <1>1, <2>1, <2>2
<1>8. TypeOK'
   <2>1. i' \in 1..(Len(argv') + 1)
      BY <1>1, <1>3
   <2>2. value' \in [Args -> Values \cup {Empty}]
      BY <1>1, <1>5 DEF TypeOK
   <2> QED BY <1>1, <2>1, <2>2 DEF TypeOK
<1>9. AtToken'
   <2>1. argv' # << >> => \E k \in Separators' : k < i'
      <3>1. \A k \in Separators : k \in Nat
         BY <1>1, Argv DEF TypeOK
      <3>2. \A k \in Nat : k < i => k < i + 2
         BY <1>1
      <3> QED BY <1>1, <1>6, <3>1, <3>2 DEF Prefix, AtToken
   <2>2. \A j \in Options : j + 1 # i'
      <3>1. \A j \in Nat : j + 1 = i + 2 => j = i + 1
         BY <1>1
      <3> QED BY <1>2, <1>4, <3>1
   <2> QED BY <1>6, <2>1, <2>2 DEF AtToken
<1>10. OptionsRead' = OptionsRead \cup {i}
   BY <1>2, <1>4, <1>6, <1>7 DEF OptionsRead
<1>11. ReadWellFormed'
   <2>1. \A j \in OptionsRead' : argv'[j] \in Args
      BY <1>1, <1>10 DEF Prefix, ReadWellFormed
   <2>2. \A j \in (AppTokens \ Options)' : j < i' => \E k \in Options' : j = k + 1
      <3> SUFFICES ASSUME NEW j \in AppTokens \ Options, j < i'
                   PROVE  \E k \in Options : j = k + 1
         BY <1>6
      <3>1. j < i \/ j = i + 1
         BY <1>2, <1>7
      <3> QED BY <1>1, <1>2, <3>1 DEF Prefix, ReadWellFormed
   <2>3. \A b \in Required : Default[b] = Empty =>
            \A j \in Given(b)' : j < i' => \E k \in Given(b)' : k <= j /\ ValueFollows(k)'
      <3> SUFFICES ASSUME NEW b \in Required, Default[b] = Empty, NEW j \in Given(b), j < i'
                   PROVE  \E k \in Given(b) : k <= j /\ ValueFollows(k)
         BY <1>6
      <3>1. j \in Nat /\ j \in Options /\ (j < i \/ j = i)
         BY <1>2, <1>4, <1>7
      <3>2. CASE j < i
         BY <1>1, <3>2 DEF Prefix, ReadWellFormed
      <3>3. CASE j = i
         <4>1. j <= j
            BY <3>1
         <4> QED BY <3>3, <4>1
      <3> QED BY <3>1, <3>2, <3>3
   <2> QED BY <2>1, <2>2, <2>3 DEF ReadWellFormed
<1>12. \A b \in Args : ValuedRead(b)' = IF b = arg THEN ValuedRead(b) \cup {i} ELSE ValuedRead(b)
   <2> SUFFICES ASSUME NEW b \in Args
                PROVE  ValuedRead(b)' = IF b = arg THEN ValuedRead(b) \cup {i} ELSE ValuedRead(b)
      OBVIOUS
   <2>1. \A j \in Given(b) : j < i' <=> j < i \/ j = i
      BY <1>2, <1>4, <1>7
   <2>2. ValuedRead(b)' = {j \in Given(b) : (j < i \/ j = i) /\ ValueFollows(j)}
      BY <1>6, <2>1 DEF ValuedRead
   <2>3. CASE b = arg
      BY <1>2, <2>2, <2>3 DEF ValuedRead
   <2>4. CASE b # arg
      BY <1>2, <2>2, <2>4 DEF ValuedRead
   <2> QED BY <2>3, <2>4
<1>13. ReadValues'
   <2> SUFFICES ASSUME NEW b \in Args
                PROVE  \/ ValuedRead(b)' = {} /\ value'[b] = Default[b]
                       \/ \E j \in ValuedRead(b)' : /\ \A k \in ValuedRead(b)' : k <= j
                                                     /\ value'[b] = argv'[j + 1]
      BY DEF ReadValues
   <2>1. CASE b = arg
      <3>1. \A k \in ValuedRead(b) : k \in Nat /\ k < i
         BY <1>2 DEF ValuedRead
      <3>2. \A k \in ValuedRead(b) \cup {i} : k <= i
         BY <1>1, <3>1
      <3>3. value'[b] = argv[i + 1]
         BY <1>1, <2>1 DEF TypeOK
      <3> QED BY <1>12, <2>1, <3>2, <3>3
   <2>2. CASE b # arg
      <3>1. value'[b] = value[b] /\ ValuedRead(b)' = ValuedRead(b)
         BY <1>1, <1>12, <2>2 DEF TypeOK
      <3> QED BY <1>1, <3>1 DEF Prefix, ReadValues
   <2> QED BY <2>1, <2>2
<1>14. found' = {argv'[j] : j \in OptionsRead'}
   BY <1>1, <1>10 DEF Prefix
<1> QED BY <1>8, <1>9, <1>11, <1>13, <1>14 DEF Prefix

\* A value that is empty was never given: no token is the empty string.
LEMMA EmptyNotGiven ==
   ASSUME IndInv, status = "parse", NEW arg \in Args, value[arg] = Empty
   PROVE  ValuedRead(arg) = {} /\ Default[arg] = Empty
<1>1. TypeOK /\ Prefix
   BY DEF IndInv
<1>2. \A j \in ValuedRead(arg) : argv[j + 1] # Empty
   <2> SUFFICES ASSUME NEW j \in ValuedRead(arg) PROVE argv[j + 1] # Empty
      OBVIOUS
   <2>1. ValueFollows(j) /\ j \in 1..Len(argv) /\ Len(argv) \in Nat
      BY <1>1, Argv DEF ValuedRead, Given, TypeOK
   <2>2. j + 1 \in 1..Len(argv)
      BY <2>1 DEF ValueFollows
   <2> QED BY <1>1, <2>2, Argv, Kinds DEF TypeOK
<1> QED BY <1>1, <1>2 DEF Prefix, ReadValues

\* An option without a value: one token is read.
LEMMA BareOption ==
   ASSUME IndInv, status = "parse", i <= Len(argv), argv[i] \in Args, ~ValueFollows(i),
          ~(argv[i] \in Required /\ value[argv[i]] = Empty),
          argv' = argv, status' = status, i' = i + 1, found' = found \cup {argv[i]},
          value' = value
   PROVE  TypeOK' /\ Prefix'
<1> DEFINE arg == argv[i]
<1>1. /\ TypeOK /\ Prefix /\ Len(argv) \in Nat /\ i \in 1..Len(argv) /\ i \in AppTokens
      /\ \A j \in AppTokens : j \in Nat
   BY AtI
<1>2. /\ i \in Options /\ i \in Given(arg) /\ \A b \in Args : i \in Given(b) => b = arg
      /\ \A j \in Options : j \in Nat /\ j \in AppTokens
      /\ \A b : Given(b) \subseteq Options
   BY OptionAtI
<1>3. /\ Separators' = Separators /\ AppTokens' = AppTokens /\ Options' = Options
      /\ \A b : Given(b)' = Given(b)
      /\ \A j : ValueFollows(j)' = ValueFollows(j)
   BY SameArgv
<1>4. \A j \in AppTokens : j < i' <=> j < i \/ j = i
   <2>1. \A j, m \in Nat : j < m + 1 <=> j < m \/ j = m
      OBVIOUS
   <2>2. i \in Nat
      BY <1>1
   <2> QED BY <1>1, <2>1, <2>2
<1>5. TypeOK'
   <2>1. i' \in 1..(Len(argv') + 1)
      BY <1>1
   <2> QED BY <1>1, <2>1 DEF TypeOK
<1>6. AtToken'
   <2>1. argv' # << >> => \E k \in Separators' : k < i'
      <3>1. \A k \in Separators : k \in Nat
         BY <1>1, Argv DEF TypeOK
      <3>2. \A k \in Nat : k < i => k < i + 1
         BY <1>1
      <3> QED BY <1>1, <1>3, <3>1, <3>2 DEF Prefix, AtToken
   <2>2. i + 1 <= Len(argv) => BeginsWithDash(argv[i + 1])
      BY DEF ValueFollows
   <2> QED BY <1>3, <2>1, <2>2 DEF AtToken
<1>7. OptionsRead' = OptionsRead \cup {i}
   BY <1>2, <1>3, <1>4 DEF OptionsRead
<1>8. \A b : ValuedRead(b)' = ValuedRead(b)
   BY <1>2, <1>3, <1>4 DEF ValuedRead
<1>9. ReadWellFormed'
   <2>1. \A j \in OptionsRead' : argv'[j] \in Args
      BY <1>1, <1>7 DEF Prefix, ReadWellFormed
   <2>2. \A j \in (AppTokens \ Options)' : j < i' => \E k \in Options' : j = k + 1
      BY <1>1, <1>2, <1>3, <1>4 DEF Prefix, ReadWellFormed
   <2>3. \A b \in Required : Default[b] = Empty =>
            \A j \in Given(b)' : j < i' => \E k \in Given(b)' : k <= j /\ ValueFollows(k)'
      <3> SUFFICES ASSUME NEW b \in Required, Default[b] = Empty, NEW j \in Given(b), j < i'
                   PROVE  \E k \in Given(b) : k <= j /\ ValueFollows(k)
         BY <1>3
      <3>1. j \in Nat /\ j \in Options /\ (j < i \/ j = i)
         BY <1>2, <1>4
      <3>2. CASE j < i
         BY <1>1, <3>2 DEF Prefix, ReadWellFormed
      <3>3. CASE j = i
         <4>1. b = arg /\ b \in Args
            BY <1>2, <3>3, ParserAssumption
         <4>2. value[b] # Empty
            BY <4>1
         <4>3. ValuedRead(b) # {}
            BY <1>1, <4>1, <4>2 DEF Prefix, ReadValues
         <4>4. PICK k \in Given(b) : k < i /\ ValueFollows(k)
            BY <4>3 DEF ValuedRead
         <4>5. k <= j
            BY <1>2, <3>1, <3>3, <4>4
         <4> QED BY <4>4, <4>5
      <3> QED BY <3>1, <3>2, <3>3
   <2> QED BY <2>1, <2>2, <2>3 DEF ReadWellFormed
<1>10. ReadValues'
   BY <1>1, <1>8 DEF Prefix, ReadValues
<1>11. found' = {argv'[j] : j \in OptionsRead'}
   BY <1>1, <1>7 DEF Prefix
<1> QED BY <1>5, <1>6, <1>9, <1>10, <1>11 DEF Prefix

\* An option that must have a value and never got one is not well formed.
LEMMA NoValueIllFormed ==
   ASSUME IndInv, status = "parse", i <= Len(argv), argv[i] \in Required, ~ValueFollows(i),
          value[argv[i]] = Empty
   PROVE  ~WellFormed
<1> DEFINE arg == argv[i]
<1>1. arg \in Args
   BY ParserAssumption
<1>2. ValuedRead(arg) = {} /\ Default[arg] = Empty
   BY <1>1, EmptyNotGiven
<1>3. i \in Given(arg) /\ \A j \in Given(arg) : j \in Nat
   BY <1>1, OptionAtI
<1> SUFFICES ASSUME WellFormed PROVE FALSE
   OBVIOUS
<1>4. PICK k \in Given(arg) : k <= i /\ ValueFollows(k)
   BY <1>2, <1>3 DEF WellFormed
<1>5. k < i
   BY <1>3, <1>4
<1> QED BY <1>2, <1>4, <1>5 DEF ValuedRead

LEMMA TakeOptionInv == IndInv /\ TakeOption => IndInv'
<1> SUFFICES ASSUME IndInv, TakeOption PROVE IndInv'
   OBVIOUS
<1>1. /\ status = "parse" /\ i <= Len(argv) /\ argv[i] \in Args /\ argv' = argv
      /\ found' = found \cup {argv[i]}
   BY DEF TakeOption
<1>2. CASE ValueFollows(i)
   <2>1. status' = status /\ i' = i + 2 /\ value' = [value EXCEPT ![argv[i]] = argv[i + 1]]
      BY <1>2 DEF TakeOption
   <2>2. TypeOK' /\ Prefix'
      BY <1>1, <1>2, <2>1, ValuedOption
   <2> QED BY <1>1, <2>1, <2>2 DEF IndInv, AcceptsWellFormed, MeansWhatItSays, Done, Accepted
<1>3. CASE ~ValueFollows(i) /\ argv[i] \in Required /\ value[argv[i]] = Empty
   <2>1. status' = "no value" /\ i' = i /\ value' = value
      BY <1>3 DEF TakeOption
   <2>2. TypeOK'
      BY <1>1, <2>1 DEF IndInv, TypeOK
   <2>3. ~WellFormed'
      BY <1>1, <1>3, NoValueIllFormed, SameArgv
   <2> QED BY <2>1, <2>2, <2>3 DEF IndInv, AcceptsWellFormed, MeansWhatItSays, Done, Accepted
<1>4. CASE ~ValueFollows(i) /\ ~(argv[i] \in Required /\ value[argv[i]] = Empty)
   <2>1. status' = status /\ i' = i + 1 /\ value' = value
      BY <1>4 DEF TakeOption
   <2>2. TypeOK' /\ Prefix'
      BY <1>1, <1>4, <2>1, BareOption
   <2> QED BY <1>1, <2>1, <2>2 DEF IndInv, AcceptsWellFormed, MeansWhatItSays, Done, Accepted
<1> QED BY <1>2, <1>3, <1>4

\* A token that is neither an option of the program nor behind one.
LEMMA RejectInv == IndInv /\ Reject => IndInv'
<1> SUFFICES ASSUME IndInv, Reject PROVE IndInv'
   OBVIOUS
<1>1. /\ status = "parse" /\ i <= Len(argv) /\ argv[i] \notin Args
      /\ status' = "unknown" /\ UNCHANGED <<argv, i, found, value>>
   BY DEF Reject
<1>2. /\ TypeOK /\ Prefix /\ i \in 1..Len(argv) /\ i \in AppTokens
      /\ \A j \in AppTokens : j \in Nat
   BY <1>1, AtI
<1>3. ~WellFormed
   <2>1. CASE BeginsWithDash(argv[i])
      BY <1>1, <1>2, <2>1 DEF Options, WellFormed
   <2>2. CASE ~BeginsWithDash(argv[i])
      <3>1. i \in AppTokens \ Options
         BY <1>2, <2>2 DEF Options
      <3>2. \A j \in Options : i # j + 1
         BY <1>1, <1>2, <2>2 DEF Prefix, AtToken
      <3> QED BY <3>1, <3>2 DEF WellFormed
   <2> QED BY <2>1, <2>2
<1>4. TypeOK'
   BY <1>1, <1>2 DEF TypeOK
<1>5. ~WellFormed'
   BY <1>1, <1>3, SameArgv
<1> QED BY <1>1, <1>4, <1>5 DEF IndInv, AcceptsWellFormed, MeansWhatItSays, Done, Accepted

\* All tokens are read: what was read is what the command line says.
LEMMA FinishInv == IndInv /\ Finish => IndInv'
<1> SUFFICES ASSUME IndInv, Finish PROVE IndInv'
   OBVIOUS
<1>1. /\ status = "parse" /\ i > Len(argv) /\ UNCHANGED <<argv, i, found, value>>
      /\ status' = IF Required \subseteq found THEN "ok" ELSE "missing"
   BY DEF Finish
<1>2. TypeOK /\ Prefix
   BY <1>1 DEF IndInv
<1>3. /\ Len(argv) \in Nat /\ AppTokens \subseteq 1..Len(argv) /\ Options \subseteq AppTokens
      /\ i \in Nat /\ i > Len(argv)
   BY <1>1, <1>2, Argv DEF TypeOK
<1>4. \A j \in AppTokens : j < i
   BY <1>3
<1>5. OptionsRead = Options /\ \A b : Given(b) \subseteq Options
   BY <1>3, <1>4 DEF OptionsRead, Given
<1>6. \A b : ValuedRead(b) = {j \in Given(b) : ValueFollows(j)}
   BY <1>3, <1>4, <1>5 DEF ValuedRead
<1>7. \A b \in Args : b \in found <=> Given(b) # {}
   <2>1. found = {argv[j] : j \in Options}
      BY <1>2, <1>5 DEF Prefix
   <2> QED BY <2>1 DEF Given
<1>8. WellFormed <=> Required \subseteq found
   <2>1. argv # << >> => Separators # {}
      BY <1>2 DEF Prefix, AtToken
   <2>2. \A j \in Options : argv[j] \in Args
      BY <1>2, <1>5 DEF Prefix, ReadWellFormed
   <2>3. AppTokens \ Options \subseteq {j + 1 : j \in Options}
      BY <1>2, <1>4 DEF Prefix, ReadWellFormed
   <2>4. \A b \in Required : Default[b] = Empty =>
            \A j \in Given(b) : \E k \in Given(b) : k <= j /\ ValueFollows(k)
      BY <1>2, <1>3, <1>4, <1>5 DEF Prefix, ReadWellFormed
   <2>5. Required \subseteq found <=> \A b \in Required : Given(b) # {}
      BY <1>7, ParserAssumption
   <2> QED BY <2>1, <2>2, <2>3, <2>4, <2>5 DEF WellFormed
<1>9. /\ found = {argv[j] : j \in Options}
      /\ \A b \in Args :
            LET valued == {j \in Given(b) : ValueFollows(j)}
            IN  IF valued = {} THEN value[b] = Default[b]
                ELSE \E j \in valued : (\A k \in valued : k <= j) /\ value[b] = argv[j + 1]
   <2>1. \A b \in Args :
            IF ValuedRead(b) = {} THEN value[b] = Default[b]
            ELSE \E j \in ValuedRead(b) : /\ \A k \in ValuedRead(b) : k <= j
                                          /\ value[b] = argv[j + 1]
      BY <1>2 DEF Prefix, ReadValues
   <2> QED BY <1>2, <1>5, <1>6, <2>1 DEF Prefix
<1>10. TypeOK'
   BY <1>1, <1>2 DEF TypeOK
<1>11. AcceptsWellFormed'
   <2>1. WellFormed' <=> Required \subseteq found
      BY <1>1, <1>8, SameArgv
   <2> QED BY <1>1, <2>1 DEF AcceptsWellFormed, Done, Accepted
<1>12. MeansWhatItSays'
   <2>1. /\ Options' = Options /\ \A b : Given(b)' = Given(b)
         /\ \A j : ValueFollows(j)' = ValueFollows(j)
      BY <1>1, SameArgv
   <2> QED BY <1>1, <1>9, <2>1 DEF MeansWhatItSays
<1> QED BY <1>1, <1>10, <1>11, <1>12 DEF IndInv

\* What was accepted stays accepted, and means the same.
LEMMA ConfigureInv == IndInv /\ Configure => IndInv'
<1> SUFFICES ASSUME IndInv, Configure PROVE IndInv'
   OBVIOUS
<1>1. /\ status = "ok" /\ status' \in {"help", "run"} /\ UNCHANGED <<argv, i, found, value>>
   BY DEF Configure
<1>2. TypeOK'
   BY <1>1 DEF IndInv, TypeOK
<1>3. AcceptsWellFormed'
   BY <1>1, SameArgv DEF IndInv, AcceptsWellFormed, Done, Accepted
<1>4. MeansWhatItSays'
   <2>1. Accepted /\ MeansWhatItSays
      BY <1>1 DEF IndInv, Accepted
   <2>2. /\ Options' = Options /\ \A b : Given(b)' = Given(b)
         /\ \A j : ValueFollows(j)' = ValueFollows(j)
      BY <1>1, SameArgv
   <2> QED BY <1>1, <2>1, <2>2 DEF MeansWhatItSays
<1> QED BY <1>1, <1>2, <1>3, <1>4 DEF IndInv

-----------------------------------------------------------------------------
LEMMA StepInv == IndInv /\ [Next]_vars => IndInv'
<1> SUFFICES ASSUME IndInv, [Next]_vars PROVE IndInv'
   OBVIOUS
<1>1. CASE UNCHANGED vars
   <2>1. UNCHANGED <<argv, i, found, value, status>>
      BY <1>1 DEF vars
   <2>2. /\ Separators' = Separators /\ AppTokens' = AppTokens /\ Options' = Options
         /\ \A b : Given(b)' = Given(b)
         /\ \A j : ValueFollows(j)' = ValueFollows(j)
         /\ WellFormed' = WellFormed
      BY <2>1, SameArgv
   <2>3. TypeOK' /\ (status' = "start" => i' = 1 /\ found' = {} /\ value' = Default)
      BY <2>1 DEF IndInv, TypeOK
   <2>4. AcceptsWellFormed' /\ MeansWhatItSays'
      BY <2>1, <2>2 DEF IndInv, AcceptsWellFormed, MeansWhatItSays, Done, Accepted
   <2>5. Prefix' = Prefix
      BY <2>1, <2>2 DEF Prefix, AtToken, ReadWellFormed, ReadValues, ValuedRead, OptionsRead
   <2> QED BY <2>1, <2>3, <2>4, <2>5 DEF IndInv
<1> QED BY <1>1, FindSeparatorInv, TakeOptionInv, RejectInv, FinishInv, ConfigureInv DEF Next

LEMMA Invariance == Spec => []IndInv
BY InitInv, StepInv, PTL DEF Spec

\* The index stays on the command line or one behind it, also when the last option
\* takes the last token, and a value is never an option, for any command line.
THEOREM TypeCorrect == Spec => []TypeOK
<1>1. IndInv => TypeOK
   BY DEF IndInv
<1> QED BY <1>1, Invariance, PTL

\* parse accepts exactly the command lines in which every token has its place and
\* every required argument is there.
THEOREM AcceptsExactly == Spec => []AcceptsWellFormed
<1>1. IndInv => AcceptsWellFormed
   BY DEF IndInv
<1> QED BY <1>1, Invariance, PTL

\* The arguments of an accepted command line are marked as it names them, and each
\* has the last value that it gives.
THEOREM LastValueWins == Spec => []MeansWhatItSays
<1>1. IndInv => MeansWhatItSays
   BY DEF IndInv
<1> QED BY <1>1, Invariance, PTL
=============================================================================
