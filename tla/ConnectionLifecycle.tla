------------------------- MODULE ConnectionLifecycle -------------------------
(***************************************************************************)
(* What a client sees of the server, whatever processes serve it: a        *)
(* connection waits in the listen queue, is served in the order it came,   *)
(* and is closed once, after which nothing serves it again.                *)
(***************************************************************************)
EXTENDS Naturals, SequencesExt

CONSTANTS Conn,     \* the connections
          Backlog   \* how many may wait

VARIABLES stage,    \* the stage each connection is in
          line,     \* those that wait, the first to be served first
          up        \* whether there is a server

lifecycle == <<stage, line, up>>

Init ==
  /\ stage = [c \in Conn |-> "idle"]
  /\ line = <<>>
  /\ up = TRUE

Arrive(c) ==
  /\ up
  /\ stage[c] = "idle"
  /\ Len(line) < Backlog
  /\ stage' = [stage EXCEPT ![c] = "waiting"]
  /\ line' = Append(line, c)
  /\ UNCHANGED up

Serve ==
  /\ line # <<>>
  /\ stage' = [stage EXCEPT ![Head(line)] = "served"]
  /\ line' = Tail(line)
  /\ UNCHANGED up

\* A client that gives up while it waits leaves the line.
GiveUp(c) ==
  /\ stage[c] = "waiting"
  /\ stage' = [stage EXCEPT ![c] = "over"]
  /\ \E i \in DOMAIN line : line[i] = c /\ line' = RemoveAt(line, i)
  /\ UNCHANGED up

Finish(c) ==
  /\ stage[c] = "served"
  /\ stage' = [stage EXCEPT ![c] = "over"]
  /\ UNCHANGED <<line, up>>

\* The last process of the server ends: whoever waits is turned away.
Stop ==
  /\ up
  /\ up' = FALSE
  /\ stage' = [c \in Conn |-> IF stage[c] = "idle" THEN "idle" ELSE "over"]
  /\ line' = <<>>

Next ==
  \/ \E c \in Conn : Arrive(c) \/ GiveUp(c) \/ Finish(c)
  \/ Serve
  \/ Stop

Spec == Init /\ [][Next]_lifecycle
===============================================================================
