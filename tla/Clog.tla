---------------------------------- MODULE Clog ----------------------------------
(***************************************************************************)
(* C/clog.c: CLog and its like send a message to the system's log, through *)
(* a client that is made for every message, since nothing ever says that   *)
(* there is one.  The variable it is kept in is shared by all threads.     *)
(***************************************************************************)
EXTENDS Naturals

CONSTANTS Thread,
          NoClient,   \* NULL, which is no client: clients are numbered
          MaxClients, \* number of clients that a process may have
          MaxMessages \* bound on the messages of a thread

VARIABLES client,   \* __clog_client
          logging,  \* what each thread does next
          messages, \* number of messages each thread began
          opened,   \* number of clients the process has
          refused,  \* history: the threads whose last asl_open failed
          sent,     \* history: the client that each message went through
          exited

clogVars == <<client, logging, messages, opened, refused, sent, exited>>

__clog_client_connected == FALSE

ClogTypeOK ==
  /\ client \in (1 .. MaxClients) \cup {NoClient}
  /\ logging \in [Thread -> {"idle", "tests", "logs"}]
  /\ messages \in [Thread -> 0 .. MaxMessages]
  /\ opened \in 0 .. MaxClients
  /\ refused \subseteq Thread
  /\ sent \subseteq (Thread \X (1 .. MaxMessages)) \X ((1 .. MaxClients) \cup {NoClient})
  /\ exited \in BOOLEAN

ClogInit ==
  /\ client = NoClient
  /\ logging = [t \in Thread |-> "idle"]
  /\ messages = [t \in Thread |-> 0]
  /\ opened = 0 /\ refused = {} /\ sent = {}
  /\ exited = FALSE

-------------------------------------------------------------------------------

\* __clog_create_client: asl_open makes another client, or there cannot be more.
Opened(t) ==
  IF opened < MaxClients
  THEN client' = opened + 1 /\ opened' = opened + 1 /\ refused' = refused \ {t}
  ELSE client' = NoClient /\ refused' = refused \cup {t} /\ UNCHANGED opened

\* CLog, CLogError and the others; all of them begin with the client.
CLog(t) ==
  /\ logging[t] = "idle" /\ messages[t] < MaxMessages
  /\ messages' = [messages EXCEPT ![t] = @ + 1]
  /\ logging' = [logging EXCEPT ![t] = "tests"]
  /\ IF __clog_client_connected THEN UNCHANGED <<client, opened, refused>> ELSE Opened(t)
  /\ UNCHANGED <<sent, exited>>

\* Without a client the process ends.
TestClient(t) ==
  /\ logging[t] = "tests"
  /\ IF client = NoClient
     THEN exited' = TRUE /\ UNCHANGED logging
     ELSE logging' = [logging EXCEPT ![t] = "logs"] /\ UNCHANGED exited
  /\ UNCHANGED <<client, messages, opened, refused, sent>>

\* The variable is read again; of NULL the library logs through a client of its own.
Vlog(t) ==
  /\ logging[t] = "logs"
  /\ sent' = sent \cup {<<<<t, messages[t]>>, client>>}
  /\ logging' = [logging EXCEPT ![t] = "idle"]
  /\ UNCHANGED <<client, messages, opened, refused, exited>>

ClogNext == ~exited /\ \E t \in Thread : CLog(t) \/ TestClient(t) \/ Vlog(t)

ClogSpec == ClogInit /\ [][ClogNext]_clogVars

-------------------------------------------------------------------------------

Begun(t) == messages[t] - IF logging[t] = "idle" THEN 0 ELSE 1

(***************************************************************************)
(* Every message of a thread has been sent when its next one begins, and   *)
(* once, though other threads change the client under it: through one that *)
(* is open, unless another thread found that there cannot be more.  The    *)
(* process ends itself only when it has made all the clients it may have,  *)
(* which are as many as the messages it began.                             *)
(***************************************************************************)
MessagesAreSent ==
  /\ \A t \in Thread :
       {s[1][2] : s \in {m \in sent : m[1][1] = t}} = 1 .. Begun(t)
  /\ \A m, o \in sent : m[1] = o[1] => m = o
  /\ (\E m \in sent : m[2] = NoClient) => refused # {} /\ opened = MaxClients
  /\ exited => opened = MaxClients /\ refused # {}

===============================================================================
