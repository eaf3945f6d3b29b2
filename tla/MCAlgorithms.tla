------------------------------ MODULE MCAlgorithms ------------------------------
(***************************************************************************)
(* Model-checking instance of the programs that compute something from the *)
(* data they are given: the table of functions of generic.c, and seven     *)
(* algorithms.  They do not know of each other and share a run: program    *)
(* says which of them it is that steps, the others stay where they began.  *)
(***************************************************************************)
EXTENDS FunctionRegistry, Quicksort, Strrstr, Factorial, Fibonascii, FloatDecode, HuffmanWrite, CallGraph

VARIABLE program \* the one that runs

-------------------------------------------------------------------------------
(* FunctionRegistry: all short lists of types, and those that go to the end of
   argumentTypes and beyond. *)

\* A name that leaves room for short lists only, and one for all.
LongName == "compareTheNumbersThatWereGivenTogether"
Lengths == [name \in Name |-> IF name = LongName THEN 38 ELSE 3]

Ints(k) == [m \in 1 .. k |-> "int"]

ShortLists ==
  {<<"void">>, <<"other">>}
    \cup UNION {[1 .. k -> {"int", "float", "pointer", "other"}] : k \in 1 .. 2}

LongLists ==
  {Ints(5), Ints(5) \o <<"uint">>, Ints(6), Ints(7), Ints(5) \o <<"pointer">>,
   Ints(5) \o <<"pointer", "int", "int">>, Ints(4) \o <<"float", "int">>}

AllLists == ShortLists \cup LongLists

\* Strings of two letters.
Strings(last) == UNION {[1 .. k -> 1 .. 2] : k \in 0 .. last}
DataStrings == Strings(5)
SearchStrings == Strings(3)

\* The factorials, by their definition.
Factorials == [k \in 0 .. Largest |-> FoldFunction(LAMBDA a, b : a * b, 1, [m \in 1 .. k |-> m])]

\* What a thousand is to a size, here ten.
Limits == [u \in 1 .. 8 |-> 10 ^ u]

\* The symbols of main, the longest as long as the word.
Codes == {<<1>>, <<0, 1, 0>>, [b \in 1 .. WordBits - 2 |-> 0] \o <<1, 1>>}
AnyWords == {[b \in 1 .. WordBits |-> 0], [b \in 1 .. WordBits |-> b % 2]}

-------------------------------------------------------------------------------

AlgInit ==
  /\ program \in {"generic", "quicksort", "strrstr", "factorial", "fibonascii", "float",
                  "huffman-write", "call-graph"}
  /\ RegistryInit /\ QuicksortInit /\ StrrstrInit /\ FactorialInit
  /\ FibonasciiInit /\ FloatInit /\ HuffmanInit /\ CallGraphInit

Generic ==
  /\ program = "generic"
  /\ RegistryNext
  /\ UNCHANGED <<quicksortVars, strrstrVars, factorialVars, fibonasciiVars, floatVars,
                 huffmanVars, callGraphVars, program>>

Sorting ==
  /\ program = "quicksort"
  /\ QuicksortNext
  /\ UNCHANGED <<registryVars, strrstrVars, factorialVars, fibonasciiVars, floatVars,
                 huffmanVars, callGraphVars, program>>

Finding ==
  /\ program = "strrstr"
  /\ StrrstrNext
  /\ UNCHANGED <<registryVars, quicksortVars, factorialVars, fibonasciiVars, floatVars,
                 huffmanVars, callGraphVars, program>>

Multiplying ==
  /\ program = "factorial"
  /\ FactorialNext
  /\ UNCHANGED <<registryVars, quicksortVars, strrstrVars, fibonasciiVars, floatVars,
                 huffmanVars, callGraphVars, program>>

Adding ==
  /\ program = "fibonascii"
  /\ FibonasciiNext
  /\ UNCHANGED <<registryVars, quicksortVars, strrstrVars, factorialVars, floatVars,
                 huffmanVars, callGraphVars, program>>

Decoding ==
  /\ program = "float"
  /\ FloatNext
  /\ UNCHANGED <<registryVars, quicksortVars, strrstrVars, factorialVars, fibonasciiVars,
                 huffmanVars, callGraphVars, program>>

Writing ==
  /\ program = "huffman-write"
  /\ HuffmanNext
  /\ UNCHANGED <<registryVars, quicksortVars, strrstrVars, factorialVars, fibonasciiVars,
                 floatVars, callGraphVars, program>>

Drawing ==
  /\ program = "call-graph"
  /\ CallGraphNext
  /\ UNCHANGED <<registryVars, quicksortVars, strrstrVars, factorialVars, fibonasciiVars,
                 floatVars, huffmanVars, program>>

AlgNext ==
  \/ Generic \/ Sorting \/ Finding \/ Multiplying \/ Adding \/ Decoding \/ Writing \/ Drawing

algVars == <<registryVars, quicksortVars, strrstrVars, factorialVars, fibonasciiVars, floatVars,
             huffmanVars, callGraphVars, program>>

AlgSpec == AlgInit /\ [][AlgNext]_algVars

-------------------------------------------------------------------------------

\* The variables of all eight are of their types: as long as the process runs, the table of
\* generic.c has the entries that were counted (__RegisterFunction), indices stay in their
\* arrays, and a word is never left full (huffman-write.c).
AlgorithmsTyped ==
  /\ RegistryTypeOK /\ QuicksortTypeOK /\ StrrstrTypeOK /\ FactorialTypeOK
  /\ FibonasciiTypeOK /\ FloatTypeOK /\ HuffmanTypeOK /\ CallGraphTypeOK

(***************************************************************************)
(* What is registered of up to five plain types, in a list that fits its   *)
(* copy, is kept as it was given, and a call that comes back has the       *)
(* arguments of the function it named in their registers: see              *)
(* FunctionRegistry (__RegisterFunction, CallInt).                         *)
(***************************************************************************)
FunctionsAreCalledRight == []PlainListsAreKept /\ ArgumentsInPlace

(***************************************************************************)
(* Each of the algorithms answers right: the array is sorted, the last     *)
(* occurrence is found, every version of the factorial comes around to the *)
(* same number, the table of Fibonacci numbers goes on where an unsigned   *)
(* long ends, floats are decoded, codes are written, and who called whom   *)
(* can be read off the call graph; with the exceptions that are named with *)
(* each, in their modules (quicksort.c and others).                        *)
(***************************************************************************)
AlgorithmsAnswerRight ==
  /\ QuicksortIsRight /\ StrrstrIsRight /\ FactorialIsRight
  /\ FibonasciiIsRight /\ FloatIsRight /\ HuffmanIsRight /\ CallGraphIsRight

(***************************************************************************)
(* What the comments of generic.c say of the table of functions, of the    *)
(* count of arguments and of signatures, float.c of the standard and       *)
(* call-graph.c of the drawing holds of the programs: see FunctionRegistry,*)
(* FloatDecode and CallGraph for the words.  None of the parts does.       *)
(***************************************************************************)
AlgorithmsAreAsDocumented ==
  /\ TableIsAsLargeAsSaid /\ ArgumentsAreCounted /\ FloatsAreCoded /\ SignatureIsAsDocumented
  /\ SmallNumbersAreDecoded /\ DrawnAsShown

===============================================================================
