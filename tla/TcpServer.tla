------------------------------- MODULE TcpServer -------------------------------
(***************************************************************************)
(* C/tcp-server.c: an echo server that forks a process for every           *)
(* connection.  The processes share the listen queue of the kernel; each   *)
(* has its descriptors and its place in main or tcp_connection_process.    *)
(*                                                                         *)
(* The loop of main has no exit, so a process that was forked for a        *)
(* connection goes back to accept when tcp_connection_process returns:     *)
(* after the first connection the server has several acceptors.            *)
(***************************************************************************)
EXTENDS Integers, FiniteSets, FiniteSetsExt, SequencesExt

CONSTANTS Proc,        \* the processes there may ever be
          Root,        \* the one the program is started as
          Conn,        \* the connections clients may open, one use each
          NoConn,      \* a client_id or sock that is not in use
          Backlog,     \* connections the kernel queues, max_clients in the code
          BufferSize,  \* sizeof( buffer ), 8192 in the code
          Sizes,       \* bound: the sizes a client sends at once
          MaxBytes,    \* bound: the bytes a client sends over a connection
          MayFail      \* which of the system calls fail, now and then

ASSUME ProcAssumption == Root \in Proc
ASSUME ConnAssumption == NoConn \notin Conn
ASSUME BufferAssumption == BufferSize \in Nat \ {0, 1}
ASSUME BoundAssumption == Backlog \in Nat /\ MaxBytes \in Nat /\ Sizes \subseteq Nat \ {0}
ASSUME MayFailAssumption == MayFail \subseteq {"create", "accept", "fork", "fdopen", "select"}

VARIABLES pc,      \* where each process is
          sock,    \* client_id in main, sock in tcp_connection_process
          fds,     \* the connections each process has a descriptor of
          length,  \* what the last read of each process answered
          queue,   \* the listen queue, oldest first
          peer,    \* what the kernel knows of the client of each connection
          inbox,   \* bytes received on each connection and not read
          sent     \* bytes sent so far on each connection, for the bound

procVars == <<pc, sock, fds, length>>
netVars == <<queue, peer, inbox, sent>>
vars == <<pc, sock, fds, length, queue, peer, inbox, sent>>

Serving == {"greet", "select", "farewell", "read", "echo", "end"}
Ended == {"exited", "killed"}
PC == {"unused", "create", "accept", "fork", "close"} \cup Serving \cup Ended

\* "finished": the client sent its last byte (FIN); "reset": it broke the
\* connection (RST) and no call reported it yet; "broken": a call did.
PeerState == {"idle", "open", "finished", "reset", "broken"}

TypeOK ==
  /\ pc \in [Proc -> PC]
  /\ sock \in [Proc -> Conn \cup {NoConn}]
  /\ fds \in [Proc -> SUBSET Conn]
  /\ length \in [Proc -> -1 .. BufferSize]
  /\ queue \in Seq(Conn)
  /\ peer \in [Conn -> PeerState]
  /\ inbox \in [Conn -> 0 .. MaxBytes]
  /\ sent \in [Conn -> 0 .. MaxBytes]

Queued(c) == \E i \in DOMAIN queue : queue[i] = c
Held(c) == \E p \in Proc : c \in fds[p]
Up == \E p \in Proc : pc[p] \notin {"unused"} \cup Ended

-------------------------------------------------------------------------------

Init ==
  /\ pc = [p \in Proc |-> IF p = Root THEN "create" ELSE "unused"]
  /\ sock = [p \in Proc |-> NoConn]
  /\ fds = [p \in Proc |-> {}]
  /\ length = [p \in Proc |-> 0]
  /\ queue = <<>>
  /\ peer = [c \in Conn |-> "idle"]
  /\ inbox = [c \in Conn |-> 0]
  /\ sent = [c \in Conn |-> 0]

(***************************************************************************)
(* The clients and the kernel.                                             *)
(***************************************************************************)

\* MUTANT of Connect: listen is given one too many.
ConnectBeyondBacklog(c) ==
  /\ Up /\ pc[Root] # "create"
  /\ peer[c] = "idle"
  /\ Len(queue) <= Backlog
  /\ peer' = [peer EXCEPT ![c] = "open"]
  /\ queue' = Append(queue, c)
  /\ UNCHANGED <<inbox, sent, procVars>>

\* The kernel completes a connection once the root listens and while its
\* queue has room; until then the client tries again.
Connect(c) ==
  /\ Up /\ pc[Root] # "create"
  /\ peer[c] = "idle"
  /\ Len(queue) < Backlog
  /\ peer' = [peer EXCEPT ![c] = "open"]
  /\ queue' = Append(queue, c)
  /\ UNCHANGED <<inbox, sent, procVars>>

\* The bytes of n are there at once: a message that arrives in pieces is
\* several of these.
Send(c, n) ==
  /\ Queued(c) \/ Held(c)
  /\ peer[c] = "open"
  /\ sent[c] + n <= MaxBytes
  /\ sent' = [sent EXCEPT ![c] = @ + n]
  /\ inbox' = [inbox EXCEPT ![c] = @ + n]
  /\ UNCHANGED <<queue, peer, procVars>>

Finish(c) ==
  /\ Queued(c) \/ Held(c)
  /\ peer[c] = "open"
  /\ peer' = [peer EXCEPT ![c] = "finished"]
  /\ UNCHANGED <<queue, inbox, sent, procVars>>

\* Kernels differ in whether the bytes received before a reset can still be
\* read, and in whether a queued connection that was reset can be accepted.
Reset(c) ==
  /\ Queued(c) \/ Held(c)
  /\ peer[c] \in {"open", "finished"}
  /\ peer' = [peer EXCEPT ![c] = "reset"]
  /\ inbox' \in {inbox, [inbox EXCEPT ![c] = 0]}
  /\ \/ UNCHANGED queue
     \/ \E i \in DOMAIN queue : queue[i] = c /\ queue' = RemoveAt(queue, i)
  /\ UNCHANGED <<sent, procVars>>

(***************************************************************************)
(* Processes that end.  The kernel closes their descriptors, and the       *)
(* listening socket with the last of them.                                 *)
(***************************************************************************)
Terminate(p, how) ==
  /\ pc' = [pc EXCEPT ![p] = how]
  /\ fds' = [fds EXCEPT ![p] = {}]
  /\ sock' = [sock EXCEPT ![p] = NoConn]
  /\ queue' = IF \A q \in Proc \ {p} : pc[q] \in {"unused"} \cup Ended
              THEN <<>> ELSE queue
  /\ UNCHANGED <<length, peer, inbox, sent>>

\* socket, bind or listen fails: a message and exit( EXIT_FAILURE ).  The
\* option of setsockopt is an uninitialized variable, so that an address in
\* use may or may not be an error of bind.
CreateFails(p) == pc[p] = "create" /\ "create" \in MayFail /\ Terminate(p, "exited")

\* MUTANT of AcceptFails: the answer of accept is not looked at.
AcceptUnchecked(p) ==
  /\ pc[p] = "accept" /\ "accept" \in MayFail
  /\ pc' = [pc EXCEPT ![p] = "fork"]
  /\ sock' = [sock EXCEPT ![p] = -1]
  /\ UNCHANGED <<fds, length, netVars>>

AcceptFails(p) == pc[p] = "accept" /\ "accept" \in MayFail /\ Terminate(p, "exited")

ForkFails(p) == pc[p] = "fork" /\ "fork" \in MayFail /\ Terminate(p, "exited")

(***************************************************************************)
(* main                                                                    *)
(***************************************************************************)

\* tcp_server_create: the root listens.
Create(p) ==
  /\ pc[p] = "create"
  /\ pc' = [pc EXCEPT ![p] = "accept"]
  /\ UNCHANGED <<sock, fds, length, netVars>>

\* MUTANT of Accept: a connection at a time, as max_clients = 1 may suggest.
AcceptOneAtATime(p) ==
  /\ pc[p] = "accept"
  /\ queue # <<>>
  /\ \A q \in Proc : pc[q] \notin Serving
  /\ pc' = [pc EXCEPT ![p] = "fork"]
  /\ sock' = [sock EXCEPT ![p] = Head(queue)]
  /\ fds' = [fds EXCEPT ![p] = @ \cup {Head(queue)}]
  /\ queue' = Tail(queue)
  /\ UNCHANGED <<length, peer, inbox, sent>>

Accept(p) ==
  /\ pc[p] = "accept"
  /\ queue # <<>>
  /\ pc' = [pc EXCEPT ![p] = "fork"]
  /\ sock' = [sock EXCEPT ![p] = Head(queue)]
  /\ fds' = [fds EXCEPT ![p] = @ \cup {Head(queue)}]
  /\ queue' = Tail(queue)
  /\ UNCHANGED <<length, peer, inbox, sent>>

\* MUTANT of Fork: the parent serves the connection as well.
ForkUntested(p) ==
  /\ pc[p] = "fork"
  /\ \E child \in Proc :
       /\ pc[child] = "unused"
       /\ pc' = [pc EXCEPT ![p] = "greet", ![child] = "greet"]
       /\ sock' = [sock EXCEPT ![child] = sock[p]]
       /\ fds' = [fds EXCEPT ![child] = fds[p]]
       /\ length' = [length EXCEPT ![child] = length[p]]
  /\ UNCHANGED netVars

\* The child has the variables and the descriptors of its parent, and goes to
\* tcp_connection_process; the parent goes to close.
Fork(p) ==
  /\ pc[p] = "fork"
  /\ \E child \in Proc :
       /\ pc[child] = "unused"
       /\ pc' = [pc EXCEPT ![p] = "close", ![child] = "greet"]
       /\ sock' = [sock EXCEPT ![child] = sock[p]]
       /\ fds' = [fds EXCEPT ![child] = fds[p]]
       /\ length' = [length EXCEPT ![child] = length[p]]
  /\ UNCHANGED netVars

\* MUTANT of Close: the parent keeps its descriptor.
CloseForgotten(p) ==
  /\ pc[p] = "close"
  /\ pc' = [pc EXCEPT ![p] = "accept"]
  /\ sock' = [sock EXCEPT ![p] = NoConn]
  /\ UNCHANGED <<fds, length, netVars>>

Close(p) ==
  /\ pc[p] = "close"
  /\ pc' = [pc EXCEPT ![p] = "accept"]
  /\ fds' = [fds EXCEPT ![p] = @ \ {sock[p]}]
  /\ sock' = [sock EXCEPT ![p] = NoConn]
  /\ UNCHANGED <<length, netVars>>

(***************************************************************************)
(* tcp_connection_process.  A write is where the channel is flushed.       *)
(***************************************************************************)

\* What the peer is after a write that does not kill the process.  A client
\* that closed its socket answers a write with a reset, one that only shut
\* down its side does not.  The first call after a reset reports it: that
\* write fails, which the code ignores.
Written(s) ==
  CASE s = "open"     -> {"open"}
    [] s = "finished" -> {"finished", "reset"}
    [] s = "reset"    -> {"broken"}
    [] OTHER          -> {}

\* A write that returns.
Write(p) ==
  \E s \in Written(peer[sock[p]]) : peer' = [peer EXCEPT ![sock[p]] = s]

\* A write to a broken connection raises SIGPIPE, which nothing catches.
SigPipe(p) ==
  /\ pc[p] \in {"greet", "farewell", "echo", "end"}
  /\ peer[sock[p]] \in {"reset", "broken"}
  /\ Terminate(p, "killed")

\* fdopen answers NULL, to which the greeting is written.
FdopenFails(p) == pc[p] = "greet" /\ "fdopen" \in MayFail /\ Terminate(p, "killed")

\* MUTANT of Greet: the client has to speak first.
GreetWhenSpokenTo(p) ==
  /\ pc[p] = "greet"
  /\ inbox[sock[p]] > 0
  /\ Write(p)
  /\ pc' = [pc EXCEPT ![p] = "select"]
  /\ UNCHANGED <<sock, fds, length, queue, inbox, sent>>

Greet(p) ==
  /\ pc[p] = "greet"
  /\ Write(p)
  /\ pc' = [pc EXCEPT ![p] = "select"]
  /\ UNCHANGED <<sock, fds, length, queue, inbox, sent>>

\* There is something to read: bytes, the end of input or an error.
Readable(c) == inbox[c] > 0 \/ peer[c] # "open"

\* A select that fails leaves the set of descriptors as it was given: the
\* code goes on to read as if there were something.
Select(p) ==
  /\ pc[p] = "select"
  /\ Readable(sock[p]) \/ "select" \in MayFail
  /\ pc' = [pc EXCEPT ![p] = "read"]
  /\ UNCHANGED <<sock, fds, length, netVars>>

\* MUTANT of SelectTimeout: the timeout is taken for a signal and the call made again.
SelectAgain(p) ==
  /\ pc[p] = "select"
  /\ ~Readable(sock[p])
  /\ UNCHANGED vars

\* The 5 seconds pass.
SelectTimeout(p) ==
  /\ pc[p] = "select"
  /\ ~Readable(sock[p])
  /\ pc' = [pc EXCEPT ![p] = "farewell"]
  /\ UNCHANGED <<sock, fds, length, netVars>>

\* MUTANT of Room: the whole buffer is offered to read.
WholeBuffer == BufferSize

\* What read is asked for: sizeof( buffer ) - 1.
Room == BufferSize - 1

\* read takes what is there, up to its limit.
ReadData(p) ==
  /\ pc[p] = "read"
  /\ inbox[sock[p]] > 0
  /\ LET n == Min({inbox[sock[p]], Room})
     IN  /\ length' = [length EXCEPT ![p] = n]
         /\ inbox' = [inbox EXCEPT ![sock[p]] = @ - n]
         /\ pc' = [pc EXCEPT ![p] = IF n = 2 THEN "end" ELSE "echo"]
  /\ UNCHANGED <<sock, fds, queue, peer, sent>>

\* read answers 0: the inner loop ends and the outer one goes on.
ReadEnd(p) ==
  /\ pc[p] = "read"
  /\ inbox[sock[p]] = 0
  /\ peer[sock[p]] \in {"finished", "broken"}
  /\ length' = [length EXCEPT ![p] = 0]
  /\ pc' = [pc EXCEPT ![p] = "select"]
  /\ UNCHANGED <<sock, fds, netVars>>

\* read answers -1, which the inner loop takes for a length.
ReadError(p) ==
  /\ pc[p] = "read"
  /\ inbox[sock[p]] = 0
  /\ peer[sock[p]] = "reset"
  /\ length' = [length EXCEPT ![p] = -1]
  /\ peer' = [peer EXCEPT ![sock[p]] = "broken"]
  /\ pc' = [pc EXCEPT ![p] = "echo"]
  /\ UNCHANGED <<sock, fds, queue, inbox, sent>>

\* The reply has length + 1 bytes of the buffer.
Echo(p) ==
  /\ pc[p] = "echo"
  /\ Write(p)
  /\ pc' = [pc EXCEPT ![p] = "read"]
  /\ UNCHANGED <<sock, fds, length, queue, inbox, sent>>

\* "Connection timed-out" or "End...", fclose, and back to the loop of main.
CloseChannel(p) ==
  /\ Write(p)
  /\ pc' = [pc EXCEPT ![p] = "accept"]
  /\ fds' = [fds EXCEPT ![p] = @ \ {sock[p]}]
  /\ sock' = [sock EXCEPT ![p] = NoConn]
  /\ UNCHANGED <<length, queue, inbox, sent>>

Farewell(p) == pc[p] = "farewell" /\ CloseChannel(p)

End(p) == pc[p] = "end" /\ CloseChannel(p)

-------------------------------------------------------------------------------

\* The steps of a process that only the process can delay.
Own(p) ==
  \/ Create(p) \/ Accept(p) \/ Fork(p) \/ Close(p)
  \/ Greet(p) \/ Select(p) \/ SelectTimeout(p) \/ Farewell(p)
  \/ ReadData(p) \/ ReadEnd(p) \/ ReadError(p)

\* The steps that a client may delay for ever, by not reading what it is sent.
OnPeer(p) == Echo(p) \/ End(p)

Failure(p) ==
  CreateFails(p) \/ AcceptFails(p) \/ ForkFails(p) \/ FdopenFails(p) \/ SigPipe(p)

Client(c) == Connect(c) \/ Finish(c) \/ Reset(c) \/ \E n \in Sizes : Send(c, n)

Next ==
  \/ \E p \in Proc : Own(p) \/ OnPeer(p) \/ Failure(p)
  \/ \E c \in Conn : Client(c)

Spec == Init /\ [][Next]_vars

(***************************************************************************)
(* The scheduler runs every process that can go on, and a select with a    *)
(* timeout returns.  Nothing is assumed of clients.  A step of a process   *)
(* that writes is taken, or the process is killed.                         *)
(***************************************************************************)
FairSpec == Spec /\ \A p \in Proc : WF_vars(Own(p) \/ SigPipe(p))

-------------------------------------------------------------------------------

(***************************************************************************)
(* A process has a descriptor of the connection it was accepted or forked  *)
(* for and of no other, and of none while it waits for the next: what a    *)
(* child inherits never keeps the connection of somebody else open.        *)
(***************************************************************************)
NoForeignDescriptor ==
  \A p \in Proc : fds[p] = IF pc[p] \in {"fork", "close"} \cup Serving
                           THEN {sock[p]} ELSE {}

(***************************************************************************)
(* Two processes never serve one connection, though several compete for    *)
(* the queue and two have its descriptor between fork and close.           *)
(***************************************************************************)
OneServer ==
  \A p, q \in {r \in Proc : pc[r] \in {"fork"} \cup Serving} :
    sock[p] = sock[q] => p = q

(***************************************************************************)
(* The reply of length + 1 bytes never reads past the buffer.              *)
(***************************************************************************)
EchoWithinBuffer == \A p \in Proc : pc[p] = "echo" => length[p] + 1 <= BufferSize

(***************************************************************************)
(* As long as the first process lives, no client waits in the queue for    *)
(* ever, whatever the clients do that are already served: the process that *)
(* every connection costs is what makes this so.                           *)
(***************************************************************************)
NobodyWaitsForEver ==
  \A c \in Conn : Queued(c) ~> ~Queued(c) \/ pc[Root] = "exited"

(***************************************************************************)
(* A client that waits and does not break the connection is greeted, as    *)
(* long as no call of the server failed.                                   *)
(***************************************************************************)
Greeted(c) == \E p \in Proc : pc[p] = "select" /\ sock[p] = c

EveryClientIsGreeted ==
  \A c \in Conn : Queued(c) ~> \/ Greeted(c)
                               \/ peer[c] \in {"reset", "broken"}
                               \/ \E p \in Proc : pc[p] = "exited"

(***************************************************************************)
(* A client that stays connected and never says anything is let go: the    *)
(* child times out, and neither it nor its parent keeps a descriptor.      *)
(***************************************************************************)
SilentClientIsLetGo ==
  \A c \in Conn : Held(c) ~> ~Held(c) \/ sent[c] > 0 \/ peer[c] # "open"

(***************************************************************************)
(* The processes together are one server that takes clients in order and   *)
(* serves each once.                                                       *)
(***************************************************************************)
Stage(c) ==
  CASE Queued(c)        -> "waiting"
    [] Held(c)          -> "served"
    [] peer[c] = "idle" -> "idle"
    [] OTHER            -> "over"

Lifecycle == INSTANCE ConnectionLifecycle
               WITH stage <- [c \in Conn |-> Stage(c)], line <- queue, up <- Up

ImplementsLifecycle == Lifecycle!Spec
===============================================================================
