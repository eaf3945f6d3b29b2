------------------------------ MODULE ProgressBar ------------------------------
(***************************************************************************)
(* C/progressbar.c: a thread draws how far the main thread is, from its    *)
(* variable and without a lock.  Each line ends in a carriage return, so   *)
(* the next one is written over it, and in a flush; main may return, and   *)
(* end the process, at any moment, which writes what was not flushed.      *)
(*                                                                         *)
(* A line has three parts: the bar, the number and the tail (the gear, or  *)
(* [DONE]).  percent is an aligned word: it is read as a whole, and calls  *)
(* of the library keep the compiler from reading it once only.             *)
(***************************************************************************)
EXTENDS Naturals

CONSTANTS Full,  \* 100
          Length \* __libprogressbar_length: 75

VARIABLES percent, \* of main
          main,    \* works, or has returned
          thread,  \* absent, or what the thread does next
          local,   \* percent, as the thread has read it
          gear,    \* which of its five glyphs; the last one is none
          screen,  \* what the terminal shows
          line     \* ... and will show once what is printed is flushed

barVars == <<percent, main, thread, local, gear, line, screen>>

Gear == {"|", "/", "-", "\\", "none"}
complete == local = Full

BarTypeOK ==
  /\ percent \in 0 .. Full
  /\ local \in 0 .. Full
  /\ main \in {"works", "returned"}
  /\ thread \in {"absent", "reads", "bar", "number", "tail", "flushes", "sleeps", "ended"}
  /\ gear \in Gear
  /\ {line, screen} \subseteq
       [bar : 0 .. Full, cells : Nat, number : 0 .. Full, tail : Gear \cup {"[DONE]"}]

BarInit ==
  /\ percent = 0
  /\ main = "works"
  /\ thread \in {"absent", "reads"}  \* pthread_create may fail: nobody asks
  /\ local = 0
  /\ gear = "none"
  /\ screen = [bar |-> 0, cells |-> Length, number |-> 0, tail |-> "none"]
  /\ line = screen

-------------------------------------------------------------------------------

\* The characters of the bar: as many = as the first loop has turns, > or =, and
\* spaces.  i is compared with a double there, and is a double cut off in the second.
Cells(p) ==
  LET exact == Length * p         \* in parts of Full
      equals == IF exact < 2 * Full THEN 0 ELSE exact \div Full - 1
      spaces == Length - exact \div Full
  IN  (IF p > 1 THEN equals + 1 ELSE 0) + spaces

Digits(p) == IF p < 10 THEN 1 ELSE IF p < 100 THEN 2 ELSE 3

\* The gear turns with every line; a glyph stays for 200 lines, "none" for one.
Turned == [g \in Gear |->
  CASE g = "|" -> {"|", "/"} [] g = "/" -> {"/", "-"} [] g = "-" -> {"-", "\\"}
    [] g = "\\" -> {"\\", "none"} [] g = "none" -> {"|"}]

\* The line with one more part.  A tail that is none leaves the glyph that was there,
\* unless the number has grown by a digit: then its space is there.
Written(part) ==
  CASE part = "bar" -> [line EXCEPT !.bar = local, !.cells = Cells(local)]
    [] part = "number" ->
         [line EXCEPT !.number = local,
                      !.tail = IF Digits(local) > Digits(line.number) THEN "none" ELSE @]
    [] part = "tail" ->
         [line EXCEPT !.tail = IF complete THEN "[DONE]" ELSE IF gear # "none" THEN gear ELSE @]

Read ==
  /\ thread = "reads"
  /\ local' = percent
  /\ gear' \in Turned[gear]
  /\ thread' = "bar"
  /\ UNCHANGED <<percent, main, line, screen>>

Draw(part, next) ==
  /\ thread = part
  /\ line' = Written(part)
  /\ thread' = next
  /\ UNCHANGED <<percent, main, local, gear, screen>>

Flush ==
  /\ thread = "flushes"
  /\ screen' = line
  /\ thread' = IF complete THEN "ended" ELSE "sleeps"
  /\ UNCHANGED <<percent, main, local, gear, line>>

WakeUp ==
  /\ thread = "sleeps"
  /\ thread' = "reads"
  /\ UNCHANGED <<percent, main, local, gear, line, screen>>

\* The thread: __libprogressbar_update_status.
UpdateStatus ==
  \/ Read
  \/ Draw("bar", "number") \/ Draw("number", "tail") \/ Draw("tail", "flushes")
  \/ Flush
  \/ WakeUp

Work ==
  /\ percent < Full
  /\ percent' = percent + 1
  /\ UNCHANGED <<main, thread, local, gear, line, screen>>

\* exit flushes what is printed.
Return ==
  /\ percent = Full
  /\ main' = "returned"
  /\ screen' = line
  /\ UNCHANGED <<percent, thread, local, gear, line>>

BarNext == main = "works" /\ (UpdateStatus \/ Work \/ Return)

BarSpec == BarInit /\ [][BarNext]_barVars

-------------------------------------------------------------------------------

(***************************************************************************)
(* What is on the screen is one moment of main's work: while the process   *)
(* runs, the bar and the number are of the same percentage, which is not   *)
(* ahead of main's; [DONE] stands beside a full bar only, and no line is   *)
(* narrower or wider than another.  At the end the bar may be ahead of the *)
(* number, and neither need be full.                                       *)
(***************************************************************************)
ScreenIsOneMoment ==
  /\ screen.cells = Length
  /\ screen.number <= screen.bar /\ screen.bar <= percent
  /\ main = "works" => screen.bar = screen.number
  /\ screen.tail = "[DONE]" => screen.number = Full
  /\ main = "works" /\ screen.number = Full => screen.tail = "[DONE]"

===============================================================================
