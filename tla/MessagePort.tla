------------------------------ MODULE MessagePort ------------------------------
(***************************************************************************)
(* C/CFMessagePort: a client asks whoever has the name "com.patate" to     *)
(* show a byte, and does not wait for a reply.                             *)
(*                                                                         *)
(* Servers and clients are processes; each runs once, and one that is      *)
(* started again is another one.  A server may be killed, and its queue is *)
(* lost with it, or may be stopped: it is not known to go on.              *)
(***************************************************************************)
EXTENDS Naturals, Sequences, FiniteSets

CONSTANTS Server, Client,
          Nobody, \* NULL, or who has the name if nobody has
          Limit   \* number of messages that a port has room for

ASSUME PortAssumption == Nobody \notin Server /\ Limit \in Nat \ {0}
ASSUME ClientAssumption == Client \cap {"off", "waits", "killed", "crashed"} = {}

VARIABLES server,  \* what each server does
          name,    \* the server whose port has the name
          queue,   \* of the port of each server: the clients whose messages are in it
          client,  \* what each client does
          remote,  \* the server whose port each client found
          outcome, \* what CFMessagePortSendRequest answered; the client does not look at it
          shown,   \* history: the clients whose messages were shown, and by whom
          lost     \* history: the clients whose messages were lost with a server

portVars == <<server, name, queue, client, remote, outcome, shown, lost>>

PortTypeOK ==
  /\ server \in [Server -> {"off", "waits", "killed", "crashed"} \cup Client]
  /\ name \in Server \cup {Nobody}
  /\ queue \in [Server -> Seq(Client)]
  /\ client \in [Client -> {"off", "sends", "returned", "crashed"}]
  /\ remote \in [Client -> Server \cup {Nobody}]
  /\ outcome \in [Client -> {"none", "success", "timeout", "invalid"}]
  /\ shown \in Seq(Client \X Server)
  /\ lost \subseteq Client

PortInit ==
  /\ server = [s \in Server |-> "off"]
  /\ name = Nobody
  /\ queue = [s \in Server |-> <<>>]
  /\ client = [c \in Client |-> "off"]
  /\ remote = [c \in Client |-> Nobody]
  /\ outcome = [c \in Client |-> "none"]
  /\ shown = <<>>
  /\ lost = {}

\* The server runs: it waits in its run loop, or is in the callback for a client.
Alive(s) == server[s] \in {"waits"} \cup Client

InHand(s) == {server[s]} \cap Client
Queued(s) == {queue[s][i] : i \in DOMAIN queue[s]}

-------------------------------------------------------------------------------

\* main of the server: there is no port if another has the name, and a source cannot be
\* made of NULL.
CreateLocal(s) ==
  /\ server[s] = "off"
  /\ IF name = Nobody
     THEN name' = s /\ server' = [server EXCEPT ![s] = "waits"]
     ELSE server' = [server EXCEPT ![s] = "crashed"] /\ UNCHANGED name
  /\ UNCHANGED <<queue, client, remote, outcome, shown, lost>>

\* The run loop takes the next message from the port ...
Receive(s) ==
  /\ server[s] = "waits" /\ queue[s] # <<>>
  /\ server' = [server EXCEPT ![s] = Head(queue[s])]
  /\ queue' = [queue EXCEPT ![s] = Tail(@)]
  /\ UNCHANGED <<name, client, remote, outcome, shown, lost>>

\* ... for the callback, which shows it and has no reply.
MessageCallback(s) ==
  /\ server[s] \in Client
  /\ shown' = Append(shown, <<server[s], s>>)
  /\ server' = [server EXCEPT ![s] = "waits"]
  /\ UNCHANGED <<name, queue, client, remote, outcome, lost>>

\* The run loop never returns: that is how a server ends.
Kill(s) ==
  /\ Alive(s)
  /\ server' = [server EXCEPT ![s] = "killed"]
  /\ name' = Nobody
  /\ queue' = [queue EXCEPT ![s] = <<>>]
  /\ lost' = lost \cup InHand(s) \cup Queued(s)
  /\ UNCHANGED <<client, remote, outcome, shown>>

-------------------------------------------------------------------------------

CreateRemote(c) ==
  /\ client[c] = "off"
  /\ remote' = [remote EXCEPT ![c] = name]
  /\ client' = [client EXCEPT ![c] = "sends"]
  /\ UNCHANGED <<server, name, queue, outcome, shown, lost>>

\* Nobody tests for NULL.
SendToNobody(c) ==
  /\ client[c] = "sends" /\ remote[c] = Nobody
  /\ client' = [client EXCEPT ![c] = "crashed"]
  /\ UNCHANGED <<server, name, queue, remote, outcome, shown, lost>>

Answered(c, what) ==
  /\ client[c] = "sends" /\ remote[c] # Nobody
  /\ client' = [client EXCEPT ![c] = "returned"]
  /\ outcome' = [outcome EXCEPT ![c] = what]
  /\ UNCHANGED <<server, name, remote, shown, lost>>

Send(c) ==
  /\ Answered(c, "success")
  /\ Alive(remote[c]) /\ Len(queue[remote[c]]) < Limit
  /\ queue' = [queue EXCEPT ![remote[c]] = Append(@, c)]

\* The port died with its server; whoever has its name now is not asked.
SendToDead(c) == Answered(c, "invalid") /\ ~Alive(remote[c]) /\ UNCHANGED queue

\* MUTANT of Timeout: without a timeout.
TimeoutNever(c) == FALSE /\ Answered(c, "timeout") /\ UNCHANGED queue

\* Ten seconds without room in the queue; the message is not sent later.
Timeout(c) ==
  /\ Answered(c, "timeout")
  /\ Alive(remote[c]) /\ Len(queue[remote[c]]) = Limit
  /\ UNCHANGED queue

Request(c) ==
  CreateRemote(c) \/ SendToNobody(c) \/ Send(c) \/ SendToDead(c) \/ Timeout(c)

Serve(s) == CreateLocal(s) \/ Receive(s) \/ MessageCallback(s)

PortNext ==
  (\E s \in Server : Serve(s) \/ Kill(s)) \/ (\E c \in Client : Request(c))

\* A client that has been started runs, and so does its timer; nobody has to start one.
PortFair == \A c \in Client : WF_portVars(client[c] = "sends" /\ Request(c))

PortSpec == PortInit /\ [][PortNext]_portVars /\ PortFair

-------------------------------------------------------------------------------

\* The number of times that the message of a client is somewhere.
Places(c) ==
  Cardinality({p \in Server \X (1 .. Limit) : p[2] <= Len(queue[p[1]]) /\ queue[p[1]][p[2]] = c})
    + Cardinality({s \in Server : server[s] = c})
    + Cardinality({i \in DOMAIN shown : shown[i][1] = c})
    + Cardinality({c} \cap lost)

(***************************************************************************)
(* The message of a client that was answered "success" is in one place and *)
(* once: in a queue, in the callback, shown, or lost with its server; that *)
(* of any other client is nowhere, now or later.  It is shown by nobody    *)
(* but the server that had the name when the client asked, whoever has it  *)
(* since.                                                                  *)
(***************************************************************************)
NoneTwice ==
  /\ \A c \in Client : Places(c) = IF outcome[c] = "success" THEN 1 ELSE 0
  /\ \A i \in DOMAIN shown : remote[shown[i][1]] = shown[i][2]

(***************************************************************************)
(* A client ends whatever the servers do: one that is stopped, whose queue *)
(* is full, or that is killed and started again (Client/main.c, main).     *)
(***************************************************************************)
ClientsEnd ==
  \A c \in Client : client[c] = "sends" ~> client[c] \in {"returned", "crashed"}

===============================================================================
