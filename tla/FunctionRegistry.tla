--------------------------- MODULE FunctionRegistry ---------------------------
(***************************************************************************)
(* C/generic.c: functions are registered under their names, with their     *)
(* return and argument types, and called through the table.                *)
(*                                                                         *)
(* A type is what the preprocessor made a string of.  A list of arguments  *)
(* is one string, here the sequence of the types in it, and a turn of the  *)
(* loop over it is a step.  The integer types that are handled alike are   *)
(* left out, and so are the characters of strings, but not how many there  *)
(* are: a signature has one member per letter, and the copy of a list is   *)
(* made in a buffer that may be too short for it.                          *)
(***************************************************************************)
EXTENDS Integers, FiniteSets, SequencesExt

CONSTANTS Name,       \* names functions are registered under
          NameLength, \* their characters
          Returns,    \* return types
          Lists,      \* lists of argument types
          Chunk,      \* 100
          EntrySize   \* sizeof( Function )

\* Number in DataType, and letter in a signature.
DataType == [char |-> 1, int |-> 5, uint |-> 6, float |-> 11, double |-> 12, pointer |-> 13]
None == 0
Letter == [char |-> "c", int |-> "i", uint |-> "I", float |-> "f", double |-> "d", pointer |-> "p"]

\* The characters of a type: another one is, say, "struct s".
TypeLength == [char |-> 4, int |-> 3, uint |-> 12, float |-> 5, double |-> 6, pointer |-> 6,
               void |-> 4, other |-> 8]

Known == DOMAIN DataType
Letters == {Letter[t] : t \in Known}

\* A signature has 256 characters, which are enough for the names and lists there are.
ASSUME RegistryAssumption ==
  /\ Lists \subseteq Seq(Known \cup {"void", "other"}) \ {<<>>}
  /\ Chunk \in Nat \ {0}
  /\ EntrySize \in Nat \ {0}
  /\ \A name \in Name, list \in Lists :
       NameLength[name] \in Nat /\ 3 + NameLength[name] + Len(list) < 256

VARIABLES functions, \* the entries of the table that are in use
          functionCount,
          functionSize,
          allocated, \* bytes the table has
          args,      \* the type that the loop over the last entry's list is at, or 0
          registers, \* of the last call: the argument in RDI, RSI, RDX, RCX, R8, R9
          process    \* how the process fares

registryVars ==
  <<functions, functionCount, functionSize, allocated, args, registers, process>>

\* argumentTypes has the indices 0 to 5.
Function ==
  [name : Name, arguments : Lists, signature : Seq(Name \cup Letters), returnType : Nat,
   argumentTypes : [0 .. 5 -> Nat], argumentCount : Nat]

RegistryTypeOK ==
  /\ functions \in Seq(Function)
  /\ functionCount \in Nat /\ functionSize \in Nat /\ allocated \in Nat
  /\ process = "runs" => functionCount = Len(functions)
  /\ args \in Nat
  /\ registers \in [1 .. 6 -> Nat]
  /\ process \in {"runs", "crashed", "undefined"}

RegistryInit ==
  /\ functions = <<>> /\ functionCount = 0
  /\ functionSize = 0
  /\ allocated = 0
  /\ args = 0
  /\ registers = [r \in 1 .. 6 |-> 0]
  /\ process = "runs"

-------------------------------------------------------------------------------

\* The entry before the loop; where the return type is not known neither it nor its
\* letter is set.  The name and the list are stored at the end, when nobody has looked.
Entry(r, name, list) ==
  [name |-> name, arguments |-> list,
   signature |-> (IF r \in Known THEN <<Letter[r]>> ELSE <<>>) \o <<name>>,
   returnType |-> IF r \in Known THEN DataType[r] ELSE None,
   argumentTypes |-> [k \in 0 .. 5 |-> None],
   argumentCount |-> 0]

\* The table before an entry is added.  A full one is reallocated, to a number of
\* bytes and not of entries, and functionSize stays.
Room ==
  IF functions = <<>>
  THEN /\ functionSize' = Chunk
       /\ allocated' = Chunk * EntrySize
  ELSE /\ allocated' = IF functionCount = functionSize THEN functionCount + Chunk ELSE allocated
       /\ UNCHANGED functionSize

\* The list is copied into a buffer of as many bytes as the signature has so far, with
\* the end of the string.
ListLength(list) == FoldSeq(LAMBDA type, n : TypeLength[type] + 2 + n, -2, list)
SignatureLength(r, name) == (IF r \in Known THEN 2 ELSE 0) + NameLength[name] + 1
CopyFits(r, name, list) == ListLength(list) <= SignatureLength(r, name)

\* functionCount is one more whether or not there was room.
RegisterFunction(r, name, list) ==
  /\ args = 0
  /\ Room
  /\ functionCount' = functionCount + 1
  /\ IF functionCount' * EntrySize <= allocated'
     THEN /\ functions' = Append(functions, Entry(r, name, list))
          /\ args' = 1
          /\ process' = IF CopyFits(r, name, list) THEN process ELSE "undefined"
     ELSE /\ process' = "undefined"
          /\ UNCHANGED <<functions, args>>
  /\ UNCHANGED registers

\* "void" is compared with the whole list, and so is "float".
Recognised(list, type) ==
  /\ list # <<"void">>
  /\ type \in Known
  /\ type = "float" => list = <<"float">>

\* The index is incremented before the type is stored, so that the sixth is stored
\* after the array: in argumentCount.
Parsed(f, type) ==
  LET index == f.argumentCount + 1
  IN  IF ~Recognised(f.arguments, type) THEN [f EXCEPT !.argumentCount = index]
      ELSE [f EXCEPT !.argumentCount = IF index = 6 THEN DataType[type] ELSE index,
                     !.argumentTypes = [k \in 0 .. 5 |-> IF k = index THEN DataType[type] ELSE @[k]],
                     !.signature = Append(@, Letter[type])]

\* The count that a pointer or a double in the sixth place makes of itself is that of an
\* element of the next entry, which is written when that is registered.  After the last
\* entry there is none.
PastTheTable(f, type) ==
  functionCount = functionSize /\ f.argumentCount + 1 > 8 /\ Recognised(f.arguments, type)

\* A turn of the loop; none once the count is six.
Argument ==
  /\ args > 0
  /\ LET f == functions[functionCount]
         type == f.arguments[args]
     IN  IF f.argumentCount = 6
         THEN args' = 0 /\ UNCHANGED <<functions, process>>
         ELSE /\ functions' = [functions EXCEPT ![functionCount] = Parsed(f, type)]
              /\ args' = IF args = Len(f.arguments) THEN 0 ELSE args + 1
              /\ process' = IF PastTheTable(f, type) THEN "undefined" ELSE process
  /\ UNCHANGED <<functionCount, functionSize, allocated, registers>>

-------------------------------------------------------------------------------

\* GetFunction( name ) finds entry k.
GetFunction(name, k) ==
  functions[k].name = name /\ \A m \in 1 .. k - 1 : functions[m].name # name

(***************************************************************************)
(* CallInt counts the arguments, from a number that is not initialised,    *)
(* and pushes those that are int.  The assembly pops as many as it counts, *)
(* the last argument first, into the registers from the last down; what is *)
(* beyond the sixth goes to RDI, until the first does.                     *)
(***************************************************************************)
Pushed(f) == {k \in DOMAIN f.arguments : f.arguments[k] = "int"}

\* The one that was pushed as number r.
Nth(pushed, r) == CHOOSE k \in pushed : Cardinality({m \in pushed : m <= k}) = r

\* MUTANT of Popped: the registers are filled from the first up.
PoppedUp(pushed, count) ==
  [r \in 1 .. 6 |-> IF r <= count THEN Nth(pushed, count - r + 1) ELSE registers[r]]

\* A pop for every argument counted, all of which were pushed.
Popped(pushed, count) ==
  [r \in 1 .. 6 |-> IF r <= count THEN Nth(pushed, r) ELSE registers[r]]

\* argCount, which starts with what was on the stack.
Counted(f, initial) == initial + Len(f.arguments)

CallInt(f, initial) ==
  IF Cardinality(Pushed(f)) = Counted(f, initial)
  THEN /\ registers' = Popped(Pushed(f), Counted(f, initial))
       /\ UNCHANGED process
  ELSE /\ process' = "undefined"
       /\ UNCHANGED registers

\* Call: a name that is not registered is looked up again and dereferenced; other
\* functions than those that return int are not called at all.
Call(name) ==
  /\ args = 0
  /\ \/ /\ \A k \in DOMAIN functions : ~GetFunction(name, k)
        /\ process' = "crashed"
        /\ UNCHANGED registers
     \/ \E k \in DOMAIN functions, initial \in 0 .. 1 :
          /\ GetFunction(name, k) /\ functions[k].returnType = DataType.int
          /\ CallInt(functions[k], initial)
  /\ UNCHANGED <<functions, functionCount, functionSize, allocated, args>>

RegistryNext ==
  /\ process = "runs"
  /\ \/ \E name \in Name :
          \/ \E r \in Returns, list \in Lists : RegisterFunction(r, name, list)
          \/ Call(name)
     \/ Argument

-------------------------------------------------------------------------------

\* Lists the loop handles as it should.
Plain(list) ==
  /\ Len(list) < 6
  /\ \A k \in DOMAIN list : list[k] \in Known /\ (list[k] = "float" => Len(list) = 1)

\* The loop is through with the list of entry k.
IsThrough(k) == args = 0 \/ k < Len(functions)

(***************************************************************************)
(* Of up to five arguments of known types, with no float beside others,    *)
(* the signature has all the letters in order, argumentTypes the types     *)
(* from its second element on, and argumentCount their number, as long as  *)
(* the copy of the list fits where it is made.                             *)
(***************************************************************************)
PlainListsAreKept ==
  \A k \in DOMAIN functions :
    LET f == functions[k]
        length == Len(f.arguments)
        before == Len(f.signature) - length
    IN  IsThrough(k) /\ Plain(f.arguments) =>
          /\ before > 0 /\ f.signature[before] = f.name
          /\ \A m \in 1 .. length :
               /\ f.signature[before + m] = Letter[f.arguments[m]]
               /\ f.argumentTypes[m] = DataType[f.arguments[m]]
          /\ f.argumentCount = length

(***************************************************************************)
(* A call that comes back has put the arguments of the function it names   *)
(* where that function expects them.                                       *)
(***************************************************************************)
ArgumentsInPlace ==
  [][\A name \in Name, k \in DOMAIN functions :
       Call(name) /\ GetFunction(name, k) /\ functions[k].returnType = DataType.int /\ process' = "runs" =>
         \A m \in DOMAIN functions[k].arguments :
           m <= 6 => functions[k].arguments[m] = "int" /\ registers'[m] = m]_registryVars

(***************************************************************************)
(* functionSize is "The functions table allocated size" (generic.c:118).   *)
(* When it is full realloc is given a number of bytes and not of entries.  *)
(***************************************************************************)
TableIsAsLargeAsSaid == functions # <<>> => allocated >= functionSize * EntrySize

(***************************************************************************)
(* argumentCount is "The number of arguments" (generic.c:94), here of up   *)
(* to six of known types.  The type of the sixth is stored over it.        *)
(***************************************************************************)
ArgumentsAreCounted ==
  \A k \in DOMAIN functions :
    LET list == functions[k].arguments
    IN  IsThrough(k) /\ Len(list) <= 6 /\ (\A m \in DOMAIN list : list[m] \in Known) =>
          functions[k].argumentCount = Len(list)

(***************************************************************************)
(* "The function signature consists of the function's return type, The     *)
(* function's name, and the function's arguments", of which "f" is for     *)
(* float (generic.c:65-81).  The test for float looks at the whole list.   *)
(***************************************************************************)
FloatsAreCoded ==
  \A k \in DOMAIN functions :
    LET list == functions[k].arguments
    IN  IsThrough(k) /\ Len(list) < 6 =>
          \A m \in DOMAIN list : list[m] = "float" =>
            \E n \in DOMAIN functions[k].signature : functions[k].signature[n] = "f"

(***************************************************************************)
(* "For instance, the signature for 'int foo( void * ptr, int x )' will    *)
(* be: i:foo:pi." (generic.c:84-85).  Its list is copied into a buffer     *)
(* that is too short for it, and what is then is undefined.                *)
(***************************************************************************)
SignatureIsAsDocumented ==
  \A k \in DOMAIN functions :
    LET f == functions[k]
    IN  /\ f.name = "foo" /\ f.arguments = <<"pointer", "int">> /\ f.returnType = DataType.int
        /\ IsThrough(k) \/ process # "runs"
        => f.signature = <<"i", "foo", "p", "i">>

===============================================================================
