------------------------------- MODULE CallGraph -------------------------------
(***************************************************************************)
(* C/call-graph.c: the hooks the compiler calls wherever a function begins *)
(* and ends draw who called whom.  Of a line there is what is drawn before *)
(* the name; a cell of it is 8 characters.                                 *)
(***************************************************************************)
EXTENDS Integers, SequencesExt

CONSTANTS Cells,   \* that buf has room for: 128
          MaxLines \* bound: functions that are entered

ASSUME CallGraphAssumption == Cells \in Nat /\ Cells > 2 /\ MaxLines \in Nat

VARIABLES __call_level,
          lines,
          overflown, \* there was no room for the end of a line
          stack,     \* history: the functions that were not left, by their lines
          callers    \* history: the line of the caller of each, or 0

callGraphVars == <<__call_level, lines, overflown, stack, callers>>

Line == [cells : Nat, arrow : BOOLEAN]

CallGraphTypeOK ==
  /\ __call_level \in Nat
  /\ lines \in Seq(Line)
  /\ overflown \in BOOLEAN
  /\ stack \in Seq(Nat) /\ callers \in Seq(Nat)
  /\ Len(lines) <= MaxLines

CallGraphInit ==
  /\ __call_level = 0
  /\ lines = <<>>
  /\ overflown = FALSE
  /\ stack = <<>> /\ callers = <<>>

-------------------------------------------------------------------------------

\* What is drawn before the name of a function: the cells, the arrow among them.
Drawn ==
  [cells |-> IF __call_level > 1 THEN __call_level + 1 ELSE __call_level,
   arrow |-> __call_level > 0]

__cyg_profile_func_enter ==
  /\ ~overflown /\ Len(lines) < MaxLines
  /\ IF Drawn.cells >= Cells
     THEN overflown' = TRUE /\ UNCHANGED <<__call_level, lines, callers>>
     ELSE /\ lines' = Append(lines, Drawn)
          /\ __call_level' = __call_level + 1
          /\ callers' = Append(callers, IF stack = <<>> THEN 0 ELSE Last(stack))
          /\ UNCHANGED overflown
  /\ stack' = Append(stack, Len(lines) + 1)

\* MUTANT of __cyg_profile_func_exit: the level stays.
ExitWithLevel ==
  /\ ~overflown /\ stack # <<>>
  /\ stack' = Front(stack)
  /\ UNCHANGED <<__call_level, lines, overflown, callers>>

\* It is called only for what was entered.
__cyg_profile_func_exit ==
  /\ ~overflown /\ stack # <<>>
  /\ __call_level' = __call_level - 1
  /\ stack' = Front(stack)
  /\ UNCHANGED <<lines, overflown, callers>>

CallGraphNext == __cyg_profile_func_enter \/ __cyg_profile_func_exit

-------------------------------------------------------------------------------

(***************************************************************************)
(* The last line above that has fewer cells is that of the function that   *)
(* called, so that the graph can be read; and there is room for it until   *)
(* Cells functions are within each other, for 1024 characters 128.         *)
(***************************************************************************)
CallGraphIsRight ==
  /\ \A k \in DOMAIN lines :
       LET above == {m \in 1 .. k - 1 : lines[m].cells < lines[k].cells}
       IN  IF callers[k] = 0 THEN above = {}
           ELSE callers[k] \in above /\ \A m \in above : m <= callers[k]
  /\ overflown => Len(stack) >= Cells

(***************************************************************************)
(* In the graph of the comment (call-graph.c:35-46) a function has as many *)
(* cells before its name as there are functions around it: foobar, called  *)
(* by bar in main, has "|       | ----> | ".  The code draws a cell more,  *)
(* from the second level on.                                               *)
(***************************************************************************)
DrawnAsShown == ~overflown => \A k \in DOMAIN stack : lines[stack[k]].cells = k - 1

===============================================================================
