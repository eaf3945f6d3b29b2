---------------------------- MODULE TcpServerProofs ----------------------------
(***************************************************************************)
(* Proofs about TcpServer, for any number of processes and connections,    *)
(* any backlog and any size of the buffer.                                 *)
(***************************************************************************)
EXTENDS TcpServer, SequenceTheorems, TLAPS

\* A process that has accepted a connection and not let go of it.
Active == {"fork", "close"} \cup Serving
\* One that will serve it, or fork the process that does.
Owner == {"fork"} \cup Serving

SockInv == \A p \in Proc : /\ pc[p] \in Active => sock[p] \in Conn
                           /\ pc[p] \in Active => peer[sock[p]] # "idle"

\* The queue holds connections that nobody has accepted, each once.
QueueInv ==
  /\ \A i, j \in DOMAIN queue : queue[i] = queue[j] => i = j
  /\ \A i \in DOMAIN queue : peer[queue[i]] # "idle"
  /\ \A p \in Proc, i \in DOMAIN queue : pc[p] \in Active => sock[p] # queue[i]

\* What can be read was sent.
ByteInv == \A c \in Conn : inbox[c] <= sent[c]

IInv == /\ TypeOK
        /\ NoForeignDescriptor /\ OneServer /\ EchoWithinBuffer
        /\ SockInv /\ QueueInv /\ ByteInv
\* What read is given room for is at most what it is asked for.
LEMMA MinOfTwo ==
  ASSUME NEW a \in Nat, NEW b \in Nat
  PROVE  /\ Min({a, b}) \in {a, b}
         /\ Min({a, b}) <= a
         /\ Min({a, b}) <= b
<1>1. \E x \in {a, b} : \A y \in {a, b} : x <= y
  <2>1. CASE a <= b
    BY <2>1
  <2>2. CASE b <= a
    BY <2>2
  <2> QED BY <2>1, <2>2
<1> QED BY <1>1 DEF Min

\* A queue that loses an element, wherever it stood, gains none.
LEMMA RemoveAtFacts ==
  ASSUME NEW S, NEW s \in Seq(S), NEW k \in DOMAIN s
  PROVE  /\ RemoveAt(s, k) \in Seq(S)
         /\ DOMAIN RemoveAt(s, k) = 1 .. Len(s) - 1
         /\ \A i \in 1 .. Len(s) - 1 :
              RemoveAt(s, k)[i] = IF i < k THEN s[i] ELSE s[i + 1]
<1>1. /\ Len(s) \in Nat /\ k \in 1 .. Len(s) /\ 1 <= k
  OBVIOUS
<1> DEFINE a == SubSeq(s, 1, k - 1)
           b == SubSeq(s, k + 1, Len(s))
<1>2. /\ a \in Seq(S) /\ Len(a) = k - 1
      /\ \A i \in 1 .. k - 1 : a[i] = s[i]
  BY <1>1, SubSeqProperties
<1>3. /\ b \in Seq(S) /\ Len(b) = Len(s) - k
      /\ \A i \in 1 .. Len(s) - k : b[i] = s[i + k]
  BY <1>1, SubSeqProperties
<1>4. RemoveAt(s, k) = a \o b
  BY DEF RemoveAt
<1> HIDE DEF a, b
<1>5. /\ a \o b \in Seq(S) /\ Len(a \o b) = Len(s) - 1
      /\ \A i \in 1 .. Len(s) - 1 :
           (a \o b)[i] = IF i <= k - 1 THEN a[i] ELSE b[i - (k - 1)]
  BY <1>1, <1>2, <1>3
<1>6. ASSUME NEW i \in 1 .. Len(s) - 1
      PROVE  (a \o b)[i] = IF i < k THEN s[i] ELSE s[i + 1]
  <2>1. CASE i < k
    BY <2>1, <1>1, <1>2, <1>5
  <2>2. CASE ~ (i < k)
    <3>1. i - (k - 1) \in 1 .. Len(s) - k /\ i - (k - 1) + k = i + 1
      BY <2>2, <1>1
    <3> QED BY <2>2, <3>1, <1>1, <1>3, <1>5
  <2> QED BY <2>1, <2>2
<1> QED BY <1>1, <1>4, <1>5, <1>6

LEMMA InitIInv == Init => IInv
<1> SUFFICES ASSUME Init PROVE IInv
  OBVIOUS
<1> USE ProcAssumption, BufferAssumption, BoundAssumption
<1>1. TypeOK
  BY DEF Init, TypeOK, PC, PeerState
<1>2. NoForeignDescriptor /\ OneServer /\ EchoWithinBuffer
  BY DEF Init, NoForeignDescriptor, OneServer, EchoWithinBuffer, Serving
<1>3. SockInv /\ QueueInv /\ ByteInv
  BY DEF Init, SockInv, QueueInv, ByteInv, Active, Serving
<1> QED BY <1>1, <1>2, <1>3 DEF IInv

\* Clients and the kernel never touch the processes.
LEMMA ClientIInv ==
  ASSUME IInv, NEW c \in Conn, Client(c)
  PROVE  IInv'
<1> USE BoundAssumption DEF IInv, procVars
<1>1. CASE Connect(c)
  <2>1. TypeOK'
    BY <1>1 DEF Connect, TypeOK, PeerState
  <2>2. NoForeignDescriptor' /\ OneServer' /\ EchoWithinBuffer'
    BY <1>1 DEF Connect, NoForeignDescriptor, OneServer, EchoWithinBuffer
  <2>3. SockInv' /\ ByteInv'
    BY <1>1 DEF Connect, SockInv, ByteInv, TypeOK
  <2>4. QueueInv'
    <3>1. /\ pc' = pc /\ sock' = sock /\ peer[c] = "idle"
          /\ peer' = [peer EXCEPT ![c] = "open"]
          /\ queue' = Append(queue, c)
      BY <1>1 DEF Connect
    <3>2. /\ Len(queue) \in Nat /\ DOMAIN queue = 1 .. Len(queue)
          /\ DOMAIN queue' = 1 .. Len(queue) + 1
          /\ \A i \in DOMAIN queue : queue'[i] = queue[i] /\ queue[i] \in Conn
          /\ queue'[Len(queue) + 1] = c
      BY <3>1 DEF TypeOK
    <3>3. \A i \in DOMAIN queue' : i \in DOMAIN queue \/ i = Len(queue) + 1
      BY <3>2
    <3>4. \A i \in DOMAIN queue : queue[i] # c
      BY <3>1 DEF QueueInv
    <3>5. \A q \in Proc : pc[q] \in Active => sock[q] # c
      BY <3>1 DEF SockInv
    <3>6. \A i \in DOMAIN queue' : peer'[queue'[i]] # "idle"
      BY <3>1, <3>2, <3>3, <3>4 DEF QueueInv, TypeOK
    <3>7. \A i, j \in DOMAIN queue' : queue'[i] = queue'[j] => i = j
      BY <3>2, <3>3, <3>4 DEF QueueInv
    <3>8. \A q \in Proc, i \in DOMAIN queue' : pc'[q] \in Active => sock'[q] # queue'[i]
      BY <3>1, <3>2, <3>3, <3>5 DEF QueueInv
    <3> QED BY <3>6, <3>7, <3>8 DEF QueueInv
  <2> QED BY <2>1, <2>2, <2>3, <2>4
<1>2. ASSUME NEW n \in Sizes, Send(c, n) PROVE IInv'
  <2>1. /\ n \in Nat /\ sent[c] \in 0 .. MaxBytes /\ inbox[c] \in 0 .. MaxBytes
        /\ inbox[c] <= sent[c] /\ sent[c] + n <= MaxBytes
        /\ sent' = [sent EXCEPT ![c] = sent[c] + n]
        /\ inbox' = [inbox EXCEPT ![c] = inbox[c] + n]
    BY <1>2 DEF Send, TypeOK, ByteInv
  <2>2. sent[c] + n \in 0 .. MaxBytes /\ inbox[c] + n \in 0 .. MaxBytes
    BY <2>1
  <2>3. TypeOK'
    BY <1>2, <2>1, <2>2 DEF Send, TypeOK
  <2>4. ByteInv'
    BY <2>1, <2>2 DEF ByteInv, TypeOK
  <2>5. NoForeignDescriptor' /\ OneServer' /\ EchoWithinBuffer' /\ SockInv' /\ QueueInv'
    BY <1>2 DEF Send, NoForeignDescriptor, OneServer, EchoWithinBuffer, SockInv, QueueInv
  <2> QED BY <2>3, <2>4, <2>5
<1>3. CASE Finish(c)
  <2>1. TypeOK'
    BY <1>3 DEF Finish, TypeOK, PeerState
  <2>2. NoForeignDescriptor' /\ OneServer' /\ EchoWithinBuffer'
    BY <1>3 DEF Finish, NoForeignDescriptor, OneServer, EchoWithinBuffer
  <2>3. SockInv' /\ QueueInv' /\ ByteInv'
    BY <1>3 DEF Finish, SockInv, QueueInv, ByteInv, TypeOK
  <2> QED BY <2>1, <2>2, <2>3
<1>4. CASE Reset(c)
  <2>1. TypeOK'
    <3>1. queue' \in Seq(Conn)
      BY <1>4, RemoveAtFacts DEF Reset, TypeOK
    <3>2. inbox' \in [Conn -> 0 .. MaxBytes]
      <4>1. inbox' = inbox \/ inbox' = [inbox EXCEPT ![c] = 0]
        BY <1>4 DEF Reset
      <4>2. 0 \in 0 .. MaxBytes
        OBVIOUS
      <4> QED BY <4>1, <4>2 DEF TypeOK
    <3>3. peer' \in [Conn -> PeerState]
      BY <1>4 DEF Reset, TypeOK, PeerState
    <3> QED BY <1>4, <3>1, <3>2, <3>3 DEF Reset, TypeOK
  <2>2. NoForeignDescriptor' /\ OneServer' /\ EchoWithinBuffer'
    BY <1>4 DEF Reset, NoForeignDescriptor, OneServer, EchoWithinBuffer
  <2>3. SockInv' /\ ByteInv'
    <3>1. /\ pc' = pc /\ sock' = sock /\ sent' = sent
          /\ peer' = [peer EXCEPT ![c] = "reset"]
          /\ inbox' = inbox \/ inbox' = [inbox EXCEPT ![c] = 0]
      BY <1>4 DEF Reset
    <3>2. SockInv'
      BY <3>1 DEF SockInv, TypeOK
    <3>3. ByteInv'
      BY <3>1 DEF ByteInv, TypeOK
    <3> QED BY <3>2, <3>3
  <2>4. QueueInv'
    <3>1. /\ pc' = pc /\ sock' = sock
          /\ \A d \in Conn : peer[d] # "idle" => peer'[d] # "idle"
      BY <1>4 DEF Reset, TypeOK
    <3>2. CASE UNCHANGED queue
      BY <3>1, <3>2 DEF QueueInv, TypeOK
    <3>3. CASE ~UNCHANGED queue
      <4>1. PICK k \in DOMAIN queue : queue' = RemoveAt(queue, k)
        BY <1>4, <3>3 DEF Reset
      <4>2. /\ DOMAIN queue = 1 .. Len(queue) /\ Len(queue) \in Nat
            /\ \A i \in DOMAIN queue : queue[i] \in Conn
        BY DEF TypeOK
      <4>3. /\ DOMAIN queue' = 1 .. Len(queue) - 1
            /\ \A i \in 1 .. Len(queue) - 1 :
                 queue'[i] = IF i < k THEN queue[i] ELSE queue[i + 1]
        BY <4>1, RemoveAtFacts DEF TypeOK
      <4> DEFINE from(i) == IF i < k THEN i ELSE i + 1
      <4>4. /\ k \in DOMAIN queue
            /\ \A i \in DOMAIN queue' : /\ from(i) \in DOMAIN queue
                                        /\ queue'[i] = queue[from(i)]
            /\ \A i, j \in DOMAIN queue' : from(i) = from(j) => i = j
        BY <4>1, <4>2, <4>3
      <4> HIDE DEF from
      <4>5. \A i, j \in DOMAIN queue' : queue'[i] = queue'[j] => i = j
        BY <4>4 DEF QueueInv
      <4>6. \A i \in DOMAIN queue' : peer'[queue'[i]] # "idle"
        BY <3>1, <4>2, <4>4 DEF QueueInv
      <4>7. \A q \in Proc, i \in DOMAIN queue' : pc'[q] \in Active => sock'[q] # queue'[i]
        BY <3>1, <4>4 DEF QueueInv
      <4> QED BY <4>5, <4>6, <4>7 DEF QueueInv
    <3> QED BY <3>2, <3>3
  <2> QED BY <2>1, <2>2, <2>3, <2>4
<1> QED BY <1>1, <1>2, <1>3, <1>4 DEF Client

\* A process that ends owns nothing any more.
LEMMA TerminateIInv ==
  ASSUME IInv, NEW p \in Proc, NEW how \in Ended, Terminate(p, how)
  PROVE  IInv'
<1> USE DEF IInv, Terminate
<1>1. TypeOK'
  BY DEF TypeOK, PC
<1>2. NoForeignDescriptor' /\ EchoWithinBuffer'
  BY DEF NoForeignDescriptor, EchoWithinBuffer, TypeOK, Ended, Serving
<1>3. OneServer'
  BY DEF OneServer, TypeOK, Ended, Serving
<1>4. SockInv'
  BY DEF SockInv, TypeOK, Ended, Active, Serving
<1>5. QueueInv' /\ ByteInv'
  BY DEF QueueInv, ByteInv, TypeOK, Ended, Active, Serving
<1> QED BY <1>1, <1>2, <1>3, <1>4, <1>5
\* Steps of a process that only move its program counter among the places
\* where it serves, or from create to accept.
LEMMA MoveIInv ==
  ASSUME IInv, NEW p \in Proc, NEW l \in PC,
         \/ pc[p] \in Serving /\ l \in Serving \ {"echo"}
         \/ pc[p] = "create" /\ l = "accept",
         pc' = [pc EXCEPT ![p] = l],
         UNCHANGED <<sock, fds, queue, inbox, sent>>,
         length' \in [Proc -> -1 .. BufferSize],
         \A q \in Proc \ {p} : length'[q] = length[q],
         peer' \in [Conn -> PeerState],
         \A c \in Conn : peer[c] # "idle" => peer'[c] # "idle"
  PROVE  IInv'
<1> USE DEF IInv
<1>1. TypeOK'
  BY DEF TypeOK
<1>2. NoForeignDescriptor'
  BY DEF NoForeignDescriptor, TypeOK, Serving
<1>3. OneServer'
  BY DEF OneServer, TypeOK, Serving
<1>4. EchoWithinBuffer'
  BY DEF EchoWithinBuffer, TypeOK, Serving
<1>5. SockInv'
  BY DEF SockInv, TypeOK, Active, Serving
<1>6. QueueInv' /\ ByteInv'
  BY DEF QueueInv, ByteInv, TypeOK, Active, Serving
<1> QED BY <1>1, <1>2, <1>3, <1>4, <1>5, <1>6

\* A write changes what is known of the client of one connection.
LEMMA WriteFacts ==
  ASSUME IInv, NEW p \in Proc, pc[p] \in Serving, Write(p)
  PROVE  /\ peer' \in [Conn -> PeerState]
         /\ \A c \in Conn : peer[c] # "idle" => peer'[c] # "idle"
<1>1. sock[p] \in Conn
  BY DEF IInv, SockInv, Active
<1>2. PICK s \in Written(peer[sock[p]]) : peer' = [peer EXCEPT ![sock[p]] = s]
  BY DEF Write
<1>3. s \in PeerState \ {"idle"}
  BY <1>2 DEF Written, PeerState
<1> QED BY <1>1, <1>2, <1>3 DEF IInv, TypeOK

\* The steps of a process.
LEMMA ProcIInv ==
  ASSUME IInv, NEW p \in Proc, Own(p) \/ OnPeer(p)
  PROVE  IInv'
<1> USE BufferAssumption DEF netVars
<1>t. TypeOK /\ (pc[p] \in Active => sock[p] \in Conn)
  BY DEF IInv, SockInv
<1>1. CASE Create(p)
  BY <1>1, <1>t, MoveIInv DEF Create, PC, TypeOK
<1>2. CASE Accept(p)
  <2>1. /\ queue \in Seq(Conn) /\ queue # <<>>
        /\ Head(queue) \in Conn /\ Tail(queue) \in Seq(Conn)
        /\ Len(queue) \in Nat \ {0} /\ DOMAIN queue = 1 .. Len(queue)
        /\ Head(queue) = queue[1]
        /\ DOMAIN Tail(queue) = 1 .. Len(queue) - 1
        /\ \A i \in 1 .. Len(queue) - 1 : Tail(queue)[i] = queue[i + 1]
    BY <1>2, <1>t DEF Accept, TypeOK
  <2> DEFINE c == Head(queue)
  <2>2. /\ pc[p] = "accept"
        /\ pc' = [pc EXCEPT ![p] = "fork"]
        /\ sock' = [sock EXCEPT ![p] = c]
        /\ fds' = [fds EXCEPT ![p] = fds[p] \cup {c}]
        /\ queue' = Tail(queue)
        /\ UNCHANGED <<length, peer, inbox, sent>>
    BY <1>2 DEF Accept
  <2>3. \A q \in Proc : pc[q] \in Active => sock[q] # c
    BY <2>1 DEF IInv, QueueInv
  <2>4. fds[p] = {}
    BY <2>2 DEF IInv, NoForeignDescriptor, Serving
  <2>5. peer[c] # "idle"
    BY <2>1 DEF IInv, QueueInv
  <2> HIDE DEF c
  <2>c. c \in Conn
    BY <2>1 DEF c
  <2>6. TypeOK'
    BY <2>1, <2>2, <2>c, <1>t DEF TypeOK, PC
  <2>7. NoForeignDescriptor'
    BY <2>2, <2>4, <1>t DEF IInv, NoForeignDescriptor, TypeOK, Serving
  <2>8. OneServer'
    BY <2>2, <2>3, <1>t DEF IInv, OneServer, TypeOK, Active
  <2>9. EchoWithinBuffer' /\ ByteInv'
    BY <2>2, <1>t DEF IInv, EchoWithinBuffer, ByteInv, TypeOK
  <2>10. SockInv'
    BY <2>2, <2>5, <2>c, <1>t DEF IInv, SockInv, TypeOK
  <2>11. QueueInv'
    <3>1. \A i \in DOMAIN queue' : /\ i + 1 \in DOMAIN queue
                                   /\ queue'[i] = queue[i + 1]
                                   /\ i \in Int
      BY <2>1, <2>2
    <3>2. \A i \in DOMAIN queue' : queue'[i] # c
      <4> SUFFICES ASSUME NEW i \in DOMAIN queue' PROVE queue[i + 1] # queue[1]
        BY <3>1, <2>1 DEF c
      <4>1. i + 1 \in DOMAIN queue /\ 1 \in DOMAIN queue /\ i + 1 # 1
        BY <2>1, <2>2
      <4> QED BY <4>1 DEF IInv, QueueInv
    <3>3. \A i, j \in DOMAIN queue' : queue'[i] = queue'[j] => i = j
      <4> SUFFICES ASSUME NEW i \in DOMAIN queue', NEW j \in DOMAIN queue',
                          queue[i + 1] = queue[j + 1]
                   PROVE  i = j
        BY <3>1
      <4>1. i + 1 = j + 1
        BY <3>1 DEF IInv, QueueInv
      <4> QED BY <4>1, <3>1
    <3>4. \A i \in DOMAIN queue' : peer'[queue'[i]] # "idle"
      BY <3>1, <2>2 DEF IInv, QueueInv
    <3>5. \A q \in Proc, i \in DOMAIN queue' : pc'[q] \in Active => sock'[q] # queue'[i]
      BY <3>1, <3>2, <2>2, <1>t DEF IInv, QueueInv, TypeOK
    <3> QED BY <3>3, <3>4, <3>5 DEF QueueInv
  <2> QED BY <2>6, <2>7, <2>8, <2>9, <2>10, <2>11 DEF IInv
<1>3. CASE Fork(p)
  <2>1. PICK child \in Proc :
          /\ pc[child] = "unused"
          /\ pc' = [pc EXCEPT ![p] = "close", ![child] = "greet"]
          /\ sock' = [sock EXCEPT ![child] = sock[p]]
          /\ fds' = [fds EXCEPT ![child] = fds[p]]
          /\ length' = [length EXCEPT ![child] = length[p]]
    BY <1>3 DEF Fork
  <2>2. pc[p] = "fork" /\ UNCHANGED netVars /\ child # p
    BY <1>3, <2>1 DEF Fork
  <2>3. TypeOK'
    BY <2>1, <2>2, <1>t DEF TypeOK, PC, Serving
  <2>4. NoForeignDescriptor'
    BY <2>1, <2>2, <1>t DEF IInv, NoForeignDescriptor, TypeOK, Serving
  <2>5. OneServer'
    BY <2>1, <2>2, <1>t DEF IInv, OneServer, TypeOK, Serving
  <2>6. EchoWithinBuffer' /\ ByteInv'
    BY <2>1, <2>2, <1>t DEF IInv, EchoWithinBuffer, ByteInv, TypeOK
  <2>7. SockInv'
    BY <2>1, <2>2, <1>t DEF IInv, SockInv, TypeOK, Active, Serving
  <2>8. QueueInv'
    BY <2>1, <2>2, <1>t DEF IInv, QueueInv, TypeOK, Active, Serving
  <2> QED BY <2>3, <2>4, <2>5, <2>6, <2>7, <2>8 DEF IInv
<1>4. ASSUME /\ pc[p] \in {"close"} \cup Serving
             /\ pc' = [pc EXCEPT ![p] = "accept"]
             /\ fds' = [fds EXCEPT ![p] = @ \ {sock[p]}]
             /\ sock' = [sock EXCEPT ![p] = NoConn]
             /\ UNCHANGED <<length, queue, inbox, sent>>
             /\ peer' \in [Conn -> PeerState]
             /\ \A c \in Conn : peer[c] # "idle" => peer'[c] # "idle"
      PROVE  IInv'
  <2>1. TypeOK'
    BY <1>4, <1>t DEF TypeOK, PC
  <2>2. NoForeignDescriptor'
    BY <1>4, <1>t DEF IInv, NoForeignDescriptor, TypeOK, Serving
  <2>3. OneServer'
    BY <1>4, <1>t DEF IInv, OneServer, TypeOK, Serving
  <2>4. EchoWithinBuffer' /\ ByteInv'
    BY <1>4, <1>t DEF IInv, EchoWithinBuffer, ByteInv, TypeOK
  <2>5. SockInv'
    BY <1>4, <1>t DEF IInv, SockInv, TypeOK, Active, Serving
  <2>6. QueueInv'
    BY <1>4, <1>t DEF IInv, QueueInv, TypeOK, Active, Serving
  <2> QED BY <2>1, <2>2, <2>3, <2>4, <2>5, <2>6 DEF IInv
<1>5. CASE Close(p)
  BY <1>4, <1>5, <1>t DEF Close, TypeOK
<1>6. CASE Farewell(p) \/ End(p)
  <2>1. pc[p] \in Serving /\ CloseChannel(p)
    BY <1>6 DEF Farewell, End, Serving
  <2> QED BY <1>4, <2>1, WriteFacts DEF CloseChannel
<1>7. CASE Greet(p) \/ Echo(p)
  <2>1. pc[p] \in Serving /\ Write(p)
    BY <1>7 DEF Greet, Echo, Serving
  <2>2. \E l \in {"select", "read"} : pc' = [pc EXCEPT ![p] = l]
    BY <1>7 DEF Greet, Echo
  <2>3. UNCHANGED <<sock, fds, length, queue, inbox, sent>>
    BY <1>7 DEF Greet, Echo
  <2> QED BY <2>1, <2>2, <2>3, <1>t, WriteFacts, MoveIInv DEF PC, Serving, TypeOK
<1>8. CASE Select(p) \/ SelectTimeout(p)
  <2>1. /\ \E l \in {"read", "farewell"} : pc' = [pc EXCEPT ![p] = l]
        /\ pc[p] \in Serving
        /\ UNCHANGED <<sock, fds, length, netVars>>
    BY <1>8 DEF Select, SelectTimeout, Serving
  <2> QED BY <2>1, <1>t, MoveIInv DEF PC, Serving, TypeOK
<1>9. CASE ReadEnd(p)
  <2>1. /\ pc' = [pc EXCEPT ![p] = "select"] /\ pc[p] \in Serving
        /\ length' = [length EXCEPT ![p] = 0]
        /\ UNCHANGED <<sock, fds, netVars>>
    BY <1>9 DEF ReadEnd, Serving
  <2>2. 0 \in -1 .. BufferSize
    OBVIOUS
  <2>3. length' \in [Proc -> -1 .. BufferSize]
    BY <2>1, <2>2, <1>t DEF TypeOK
  <2> QED BY <2>1, <2>3, <1>t, MoveIInv DEF PC, Serving, TypeOK
<1>10. CASE ReadError(p) \/ ReadData(p)
  <2>1. /\ pc[p] = "read" /\ sock[p] \in Conn
        /\ UNCHANGED <<sock, fds, queue, sent>>
    BY <1>10, <1>t DEF ReadError, ReadData, Active, Serving
  <2>2. PICK n \in -1 .. BufferSize - 1, l \in {"echo", "end"} :
          /\ pc' = [pc EXCEPT ![p] = l]
          /\ length' = [length EXCEPT ![p] = n]
    <3>1. CASE ReadError(p)
      <4>1. -1 \in -1 .. BufferSize - 1
        OBVIOUS
      <4> QED BY <3>1, <4>1 DEF ReadError
    <3>2. CASE ReadData(p)
      <4> DEFINE n == Min({inbox[sock[p]], Room})
      <4>1. inbox[sock[p]] \in Nat /\ Room \in Nat
        BY <2>1, <1>t DEF TypeOK, Room
      <4>2. n \in -1 .. BufferSize - 1
        BY <4>1, MinOfTwo DEF Room
      <4> QED BY <3>2, <4>2 DEF ReadData
    <3> QED BY <1>10, <3>1, <3>2
  <2>3. /\ inbox' \in [Conn -> 0 .. MaxBytes]
        /\ \A c \in Conn : inbox'[c] <= inbox[c]
    <3>1. CASE ReadError(p)
      BY <3>1, <1>t DEF ReadError, TypeOK
    <3>2. CASE ReadData(p)
      <4> DEFINE r == Min({inbox[sock[p]], Room})
                 m == inbox[sock[p]] - r
      <4>1. inbox[sock[p]] \in 0 .. MaxBytes /\ Room \in Nat
        BY <2>1, <1>t DEF TypeOK, Room
      <4>2. r \in Nat /\ r <= inbox[sock[p]]
        BY <4>1, MinOfTwo
      <4>3. inbox' = [inbox EXCEPT ![sock[p]] = m]
        BY <3>2 DEF ReadData
      <4> HIDE DEF r
      <4>4. m \in 0 .. MaxBytes /\ m <= inbox[sock[p]]
        <5>1. \A i, k \in Nat : k <= i /\ i <= MaxBytes => i - k \in 0 .. MaxBytes /\ i - k <= i
          BY BoundAssumption
        <5> QED BY <4>1, <4>2, <5>1, BoundAssumption
      <4> HIDE DEF m
      <4>5. \A c \in Conn : inbox[c] \in 0 .. MaxBytes /\ inbox[c] <= inbox[c]
        BY <1>t, BoundAssumption DEF TypeOK
      <4>6. inbox' \in [Conn -> 0 .. MaxBytes]
        BY <4>3, <4>4, <1>t DEF TypeOK
      <4> QED BY <2>1, <4>3, <4>4, <4>5, <4>6, <1>t DEF TypeOK
    <3> QED BY <1>10, <3>1, <3>2
  <2>4. /\ peer' \in [Conn -> PeerState]
        /\ \A c \in Conn : peer[c] # "idle" => peer'[c] # "idle"
    BY <1>10, <1>t, <2>1 DEF ReadError, ReadData, TypeOK, PeerState
  <2>5. TypeOK'
    BY <2>1, <2>2, <2>3, <2>4, <1>t DEF TypeOK, PC, Serving
  <2>6. NoForeignDescriptor'
    BY <2>1, <2>2, <1>t DEF IInv, NoForeignDescriptor, TypeOK, Serving
  <2>7. OneServer'
    BY <2>1, <2>2, <1>t DEF IInv, OneServer, TypeOK, Serving
  <2>8. EchoWithinBuffer'
    BY <2>1, <2>2, <1>t DEF IInv, EchoWithinBuffer, TypeOK
  <2>9. SockInv'
    BY <2>1, <2>2, <2>4, <1>t DEF IInv, SockInv, TypeOK, Active, Serving
  <2>10. QueueInv'
    BY <2>1, <2>2, <2>4, <1>t DEF IInv, QueueInv, TypeOK, Active, Serving
  <2>11. ByteInv'
    BY <2>1, <2>3, <1>t DEF IInv, ByteInv, TypeOK
  <2> QED BY <2>5, <2>6, <2>7, <2>8, <2>9, <2>10, <2>11 DEF IInv
<1> QED BY <1>1, <1>2, <1>3, <1>5, <1>6, <1>7, <1>8, <1>9, <1>10 DEF Own, OnPeer

LEMMA NextIInv == IInv /\ [Next]_vars => IInv'
<1> SUFFICES ASSUME IInv, [Next]_vars PROVE IInv'
  OBVIOUS
<1>1. ASSUME NEW p \in Proc, Own(p) \/ OnPeer(p) PROVE IInv'
  BY <1>1, ProcIInv
<1>2. ASSUME NEW p \in Proc, Failure(p) PROVE IInv'
  <2>1. \E how \in Ended : Terminate(p, how)
    BY <1>2 DEF Failure, CreateFails, AcceptFails, ForkFails, FdopenFails, SigPipe, Ended
  <2> QED BY <2>1, TerminateIInv
<1>3. ASSUME NEW c \in Conn, Client(c) PROVE IInv'
  BY <1>3, ClientIInv
<1>4. CASE UNCHANGED vars
  BY <1>4 DEF vars, IInv, TypeOK, NoForeignDescriptor, OneServer, EchoWithinBuffer,
              SockInv, QueueInv, ByteInv
<1> QED BY <1>1, <1>2, <1>3, <1>4 DEF Next

LEMMA IInvHolds == Spec => []IInv
  BY InitIInv, NextIInv, PTL DEF Spec

-------------------------------------------------------------------------------

\* The state is well typed.
THEOREM TypeCorrect == Spec => []TypeOK
<1>1. IInv => TypeOK
  BY DEF IInv
<1> QED BY <1>1, IInvHolds, PTL

\* What fork copies and what close and fclose release (lines 59-74, 130, 142)
\* balance: no process ever has a descriptor of a connection that is not its
\* own.
THEOREM DescriptorsBalance == Spec => []NoForeignDescriptor
<1>1. IInv => NoForeignDescriptor
  BY DEF IInv
<1> QED BY <1>1, IInvHolds, PTL

\* However many processes call accept at once and fork, no two serve the same
\* connection.
THEOREM OneProcessPerConnection == Spec => []OneServer
<1>1. IInv => OneServer
  BY DEF IInv
<1> QED BY <1>1, IInvHolds, PTL

\* Whatever the size of the buffer, the reply of length + 1 bytes (line 136)
\* stays within it, because read (line 125) is offered one byte less.
THEOREM EchoStaysInBuffer == Spec => []EchoWithinBuffer
<1>1. IInv => EchoWithinBuffer
  BY DEF IInv
<1> QED BY <1>1, IInvHolds, PTL

-------------------------------------------------------------------------------

\* What a client sees: the stages of the connections.
Stages == [c \in Conn |-> Stage(c)]

\* Nobody holds what is queued, and only processes that serve hold something.
LEMMA HoldFacts ==
  ASSUME IInv
  PROVE  /\ \A c \in Conn : Queued(c) => ~Held(c)
         /\ \A p \in Proc : pc[p] \in Active => fds[p] = {sock[p]} /\ sock[p] \in Conn
         /\ \A p \in Proc : pc[p] \notin Active => fds[p] = {}
<1>1. \A p \in Proc : /\ pc[p] \in Active => fds[p] = {sock[p]} /\ sock[p] \in Conn
                      /\ pc[p] \notin Active => fds[p] = {}
  BY DEF IInv, NoForeignDescriptor, SockInv, Active
<1>2. ASSUME NEW c \in Conn, Queued(c), Held(c) PROVE FALSE
  BY <1>1, <1>2 DEF Queued, Held, IInv, QueueInv
<1> QED BY <1>1, <1>2

\* The cases of Stage exclude each other: a connection that is queued or held is
\* not idle, and never both.
StagesAre ==
  \A c \in Conn :
    /\ Queued(c) => peer[c] # "idle" /\ ~Held(c) /\ Stage(c) = "waiting"
    /\ Held(c) => peer[c] # "idle" /\ Stage(c) = "served"
    /\ peer[c] = "idle" => Stage(c) = "idle"
    /\ peer[c] # "idle" /\ ~Queued(c) /\ ~Held(c) => Stage(c) = "over"

LEMMA StageIs == IInv => StagesAre
<1> SUFFICES ASSUME IInv, NEW c \in Conn
             PROVE  /\ Queued(c) => peer[c] # "idle" /\ ~Held(c) /\ Stage(c) = "waiting"
                    /\ Held(c) => peer[c] # "idle" /\ Stage(c) = "served"
                    /\ peer[c] = "idle" => Stage(c) = "idle"
                    /\ peer[c] # "idle" /\ ~Queued(c) /\ ~Held(c) => Stage(c) = "over"
  BY DEF StagesAre
<1>1. Queued(c) => peer[c] # "idle" /\ ~Held(c)
  <2>1. Queued(c) => ~Held(c)
    BY HoldFacts
  <2> QED BY <2>1 DEF Queued, IInv, QueueInv
<1>2. Held(c) => peer[c] # "idle"
  BY DEF Held, IInv, NoForeignDescriptor, SockInv, Active
<1>3. CASE Queued(c)
  <2>1. Stage(c) = "waiting" /\ ~Held(c)
    BY <1>1, <1>3 DEF Stage
  <2> QED BY <2>1, <1>1, <1>3
<1>4. CASE Held(c)
  <2>1. ~Queued(c) /\ peer[c] # "idle"
    BY <1>1, <1>2, <1>4
  <2>2. Stage(c) = "served"
    BY <2>1, <1>4 DEF Stage
  <2> QED BY <2>1, <2>2, <1>4
<1>5. CASE ~Queued(c) /\ ~Held(c)
  <2>1. peer[c] = "idle" => Stage(c) = "idle"
    BY <1>5 DEF Stage
  <2>2. peer[c] # "idle" => Stage(c) = "over"
    BY <1>5 DEF Stage
  <2> QED BY <2>1, <2>2, <1>5
<1> QED BY <1>3, <1>4, <1>5

LEMMA StageIsNext == IInv' => StagesAre'
  BY StageIs, PTL

\* Where no connection is queued, held or used for the first time, none changes
\* its stage.
LEMMA SameStages ==
  ASSUME \A c \in Conn : Queued(c)' <=> Queued(c),
         \A c \in Conn : Held(c)' <=> Held(c),
         \A c \in Conn : peer'[c] = "idle" <=> peer[c] = "idle"
  PROVE  Stages' = Stages
  BY DEF Stages, Stage

LEMMA Stutters ==
  ASSUME Stages' = Stages, queue' = queue, Up' <=> Up
  PROVE  UNCHANGED Lifecycle!lifecycle
  BY DEF Stages, Lifecycle!lifecycle, Up

LEMMA ClientSimulation ==
  ASSUME IInv, IInv', NEW c \in Conn, Client(c)
  PROVE  [Lifecycle!Next]_(Lifecycle!lifecycle)
<1> USE DEF procVars
<1>t. TypeOK /\ QueueInv /\ queue \in Seq(Conn)
  BY DEF IInv, TypeOK
<1>u. Up' <=> Up
  BY DEF Client, Connect, Finish, Reset, Send, Up
<1>h. \A d \in Conn : Held(d)' <=> Held(d)
  BY DEF Client, Connect, Finish, Reset, Send, Held
<1>1. CASE Connect(c)
  <2>1. /\ Up /\ Len(queue) < Backlog /\ peer[c] = "idle"
        /\ peer' = [peer EXCEPT ![c] = "open"]
        /\ queue' = Append(queue, c)
    BY <1>1 DEF Connect
  <2>2. \A d \in Conn : Queued(d)' <=> Queued(d) \/ d = c
    <3>1. /\ DOMAIN queue' = 1 .. Len(queue) + 1 /\ DOMAIN queue = 1 .. Len(queue)
          /\ Len(queue) \in Nat
          /\ \A i \in 1 .. Len(queue) : queue'[i] = queue[i]
          /\ queue'[Len(queue) + 1] = c
      BY <2>1, <1>t
    <3>2. \A i \in 1 .. Len(queue) + 1 : i \in 1 .. Len(queue) \/ i = Len(queue) + 1
      BY <3>1
    <3>3. \A i \in 1 .. Len(queue) : i \in 1 .. Len(queue) + 1
      BY <3>1
    <3>4. Len(queue) + 1 \in 1 .. Len(queue) + 1
      BY <3>1
    <3> QED BY <3>1, <3>2, <3>3, <3>4 DEF Queued
  <2>3. Stage(c) = "idle" /\ Stage(c)' = "waiting"
    <3>1. Stage(c) = "idle"
      BY <2>1, StageIs DEF StagesAre
    <3>2. Stage(c)' = "waiting"
      BY <2>2, StageIsNext DEF StagesAre
    <3> QED BY <3>1, <3>2
  <2>4. ASSUME NEW d \in Conn, d # c PROVE Stage(d)' = Stage(d)
    BY <2>1, <2>2, <2>4, <1>h, <1>t DEF Stage, TypeOK
  <2>5. Stages' = [Stages EXCEPT ![c] = "waiting"]
    BY <2>3, <2>4 DEF Stages
  <2>6. Lifecycle!Arrive(c)
    BY <2>1, <2>3, <2>5, <1>u DEF Lifecycle!Arrive, Stages
  <2> QED BY <2>6 DEF Lifecycle!Next
<1>2. CASE queue' = queue /\ ~Connect(c)
  <2>1. \A d \in Conn : Queued(d)' <=> Queued(d)
    BY <1>2 DEF Queued
  <2>2. \A d \in Conn : peer'[d] = "idle" <=> peer[d] = "idle"
    BY <1>2, <1>t DEF Client, Finish, Reset, Send, TypeOK
  <2> QED BY <2>1, <2>2, <1>2, <1>h, <1>u, SameStages, Stutters
<1>3. CASE queue' # queue /\ ~Connect(c)
  <2>1. /\ Reset(c)
        /\ peer[c] # "idle" /\ peer' = [peer EXCEPT ![c] = "reset"]
    BY <1>3 DEF Client, Finish, Send, Reset
  <2>2. PICK k \in DOMAIN queue : queue[k] = c /\ queue' = RemoveAt(queue, k)
    BY <2>1, <1>3 DEF Reset
  <2>3. /\ DOMAIN queue' = 1 .. Len(queue) - 1 /\ DOMAIN queue = 1 .. Len(queue)
        /\ Len(queue) \in Nat /\ k \in 1 .. Len(queue)
        /\ \A i \in 1 .. Len(queue) - 1 :
             queue'[i] = IF i < k THEN queue[i] ELSE queue[i + 1]
    BY <2>2, <1>t, RemoveAtFacts
  <2>4. ~Queued(c)'
    <3> SUFFICES ASSUME NEW i \in DOMAIN queue', queue'[i] = c PROVE FALSE
      BY DEF Queued
    <3> DEFINE j == IF i < k THEN i ELSE i + 1
    <3>1. j \in DOMAIN queue /\ queue'[i] = queue[j] /\ j # k
      BY <2>3
    <3> QED BY <2>2, <3>1, <1>t DEF QueueInv
  <2>5. ASSUME NEW d \in Conn, d # c PROVE Queued(d)' <=> Queued(d)
    <3>1. ASSUME Queued(d)' PROVE Queued(d)
      <4>1. PICK i \in DOMAIN queue' : queue'[i] = d
        BY <3>1 DEF Queued
      <4> DEFINE j == IF i < k THEN i ELSE i + 1
      <4>2. j \in DOMAIN queue /\ queue'[i] = queue[j]
        BY <2>3
      <4> QED BY <4>1, <4>2 DEF Queued
    <3>2. ASSUME Queued(d) PROVE Queued(d)'
      <4>1. PICK j \in DOMAIN queue : queue[j] = d
        BY <3>2 DEF Queued
      <4> DEFINE i == IF j < k THEN j ELSE j - 1
      <4>2. j # k
        BY <4>1, <2>2, <2>5
      <4>3. i \in DOMAIN queue' /\ queue'[i] = queue[j]
        <5>1. CASE j < k
          BY <5>1, <2>3
        <5>2. CASE j > k
          <6>1. i \in 1 .. Len(queue) - 1 /\ ~(i < k) /\ i + 1 = j
            BY <5>2, <2>3
          <6> QED BY <6>1, <2>3
        <5> QED BY <5>1, <5>2, <4>2, <2>3
      <4> QED BY <4>1, <4>3 DEF Queued
    <3> QED BY <3>1, <3>2
  <2>6. Queued(c) /\ ~Held(c)
    BY <2>2, HoldFacts DEF Queued
  <2>7. Stage(c) = "waiting" /\ Stage(c)' = "over"
    BY <2>1, <2>4, <2>6, <1>h, <1>t DEF Stage, TypeOK
  <2>8. ASSUME NEW d \in Conn, d # c PROVE Stage(d)' = Stage(d)
    BY <2>1, <2>5, <2>8, <1>h, <1>t DEF Stage, TypeOK
  <2>9. Stages' = [Stages EXCEPT ![c] = "over"]
    BY <2>7, <2>8 DEF Stages
  <2>10. Lifecycle!GiveUp(c)
    BY <2>2, <2>7, <2>9, <1>u DEF Lifecycle!GiveUp, Stages,
       Lifecycle!RemoveAt, RemoveAt
  <2> QED BY <2>10 DEF Lifecycle!Next
<1> QED BY <1>1, <1>2, <1>3

\* A process lets go of its connection: another holds it still, or it is over.
LEMMA LettingGo ==
  ASSUME IInv, IInv', NEW p \in Proc,
         fds' = [fds EXCEPT ![p] = {}], queue' = queue, Up' <=> Up,
         \A c \in Conn : peer'[c] = "idle" <=> peer[c] = "idle"
  PROVE  [Lifecycle!Next]_(Lifecycle!lifecycle)
<1>t. fds \in [Proc -> SUBSET Conn] /\ peer \in [Conn -> PeerState]
  BY DEF IInv, TypeOK
<1>q. \A d \in Conn : Queued(d)' <=> Queued(d)
  BY DEF Queued
<1>1. CASE \A c \in Conn : Held(c)' <=> Held(c)
  BY <1>1, <1>q, SameStages, Stutters
<1>2. ASSUME NEW c \in Conn, ~(Held(c)' <=> Held(c))
      PROVE  [Lifecycle!Next]_(Lifecycle!lifecycle)
  <2>1. \A d \in Conn : Held(d)' => Held(d)
    BY <1>t DEF Held
  <2>2. Held(c) /\ ~Held(c)' /\ c \in fds[p]
    BY <1>2, <2>1, <1>t DEF Held
  <2>3. fds[p] = {c}
    BY <2>2, HoldFacts
  <2>4. \A d \in Conn : d # c => (Held(d)' <=> Held(d))
    BY <2>3, <1>t DEF Held
  <2>5. ~Queued(c) /\ peer[c] # "idle"
    BY <2>2, HoldFacts DEF Held, IInv, NoForeignDescriptor, SockInv, Active
  <2>6. Stage(c) = "served" /\ Stage(c)' = "over"
    BY <2>2, <2>5, <1>q DEF Stage
  <2>7. ASSUME NEW d \in Conn, d # c PROVE Stage(d)' = Stage(d)
    BY <2>4, <2>7, <1>q DEF Stage
  <2>8. Stages' = [Stages EXCEPT ![c] = "over"]
    BY <2>6, <2>7 DEF Stages
  <2>9. Lifecycle!Finish(c)
    BY <2>6, <2>8 DEF Lifecycle!Finish, Stages
  <2> QED BY <2>9 DEF Lifecycle!Next
<1> QED BY <1>1, <1>2

LEMMA ProcessSimulation ==
  ASSUME IInv, IInv', NEW p \in Proc, Own(p) \/ OnPeer(p)
  PROVE  [Lifecycle!Next]_(Lifecycle!lifecycle)
<1> USE DEF netVars
<1>t. /\ TypeOK /\ queue \in Seq(Conn)
      /\ pc[p] \in Active => sock[p] \in Conn /\ peer[sock[p]] # "idle"
  BY DEF IInv, TypeOK, SockInv
<1>u. Up' <=> Up
  <2>1. pc[p] \notin {"unused"} \cup Ended
    BY DEF Own, OnPeer, Create, Accept, Fork, Close, Greet, Select, SelectTimeout,
           Farewell, ReadData, ReadEnd, ReadError, Echo, End, Ended
  <2>2. pc'[p] \notin {"unused"} \cup Ended
    <3>1. CASE Fork(p)
      BY <3>1, <1>t DEF Fork, TypeOK, Ended
    <3>2. CASE ~Fork(p)
      BY <3>2, <1>t DEF Own, OnPeer, Create, Accept, Close, Greet, Select, SelectTimeout,
             Farewell, ReadData, ReadEnd, ReadError, Echo, End, CloseChannel, Ended, TypeOK
    <3> QED BY <3>1, <3>2
  <2> QED BY <2>1, <2>2 DEF Up
<1>w. ASSUME pc[p] \in Serving, Write(p)
      PROVE  \A d \in Conn : peer'[d] = "idle" <=> peer[d] = "idle"
  <2>1. sock[p] \in Conn /\ peer[sock[p]] # "idle"
    BY <1>w, <1>t DEF Active
  <2>2. PICK s \in Written(peer[sock[p]]) : peer' = [peer EXCEPT ![sock[p]] = s]
    BY <1>w DEF Write
  <2>3. s # "idle"
    BY <2>2 DEF Written
  <2> QED BY <2>1, <2>2, <2>3, <1>t DEF TypeOK
<1>1. CASE Accept(p)
  <2>0. PICK c \in Conn : c = Head(queue)
    BY <1>1, <1>t DEF Accept
  <2>1. /\ queue # <<>> /\ queue' = Tail(queue)
        /\ pc[p] = "accept" /\ peer' = peer
        /\ fds' = [fds EXCEPT ![p] = fds[p] \cup {c}]
    BY <2>0, <1>1 DEF Accept
  <2>2. /\ c = queue[1]
        /\ Len(queue) \in Nat \ {0} /\ DOMAIN queue = 1 .. Len(queue)
        /\ DOMAIN queue' = 1 .. Len(queue) - 1
        /\ \A i \in 1 .. Len(queue) - 1 : queue'[i] = queue[i + 1]
    BY <2>0, <2>1, <1>t
  <2>3. Queued(c)
    BY <2>2 DEF Queued
  <2>4. ~Queued(c)'
    <3> SUFFICES ASSUME NEW i \in DOMAIN queue', queue'[i] = c PROVE FALSE
      BY DEF Queued
    <3>1. i + 1 \in DOMAIN queue /\ 1 \in DOMAIN queue /\ i + 1 # 1
      BY <2>2
    <3>2. queue[i + 1] = queue[1]
      BY <2>2
    <3> QED BY <3>1, <3>2 DEF IInv, QueueInv
  <2>5. ASSUME NEW d \in Conn, d # c PROVE Queued(d)' <=> Queued(d)
    <3>1. ASSUME NEW i \in DOMAIN queue', queue'[i] = d PROVE Queued(d)
      <4>1. i + 1 \in DOMAIN queue /\ queue[i + 1] = d
        BY <3>1, <2>2
      <4> QED BY <4>1 DEF Queued
    <3>2. ASSUME NEW i \in DOMAIN queue, queue[i] = d PROVE Queued(d)'
      <4>1. i # 1 /\ i - 1 \in DOMAIN queue' /\ queue'[i - 1] = queue[(i - 1) + 1]
        BY <3>2, <2>2, <2>5
      <4>2. (i - 1) + 1 = i
        BY <2>2
      <4> QED BY <3>2, <4>1, <4>2 DEF Queued
    <3> QED BY <3>1, <3>2 DEF Queued
  <2>6. \A d \in Conn : Held(d)' <=> Held(d) \/ d = c
    BY <2>1, <2>2, <1>t DEF Held, TypeOK
  <2>7. peer[c] # "idle"
    BY <2>3 DEF Queued, IInv, QueueInv
  <2>8. Stage(c)' = "served"
    <3>1. Held(c)'
      BY <2>2, <2>6
    <3> QED BY <3>1, <2>2, StageIsNext DEF StagesAre
  <2>9. ASSUME NEW d \in Conn, d # c PROVE Stage(d)' = Stage(d)
    BY <2>1, <2>5, <2>6, <2>9 DEF Stage
  <2>10. Stages' = [Stages EXCEPT ![c] = "served"]
    BY <2>2, <2>8, <2>9 DEF Stages
  <2>11. Lifecycle!Serve
    BY <2>0, <2>1, <2>10, <1>u DEF Lifecycle!Serve, Stages
  <2> QED BY <2>11 DEF Lifecycle!Next
<1>2. CASE Fork(p)
  <2>1. PICK child \in Proc : pc[child] = "unused" /\ fds' = [fds EXCEPT ![child] = fds[p]]
    BY <1>2 DEF Fork
  <2>2. fds[child] = {}
    BY <2>1, HoldFacts DEF Active, Serving
  <2>3. \A d \in Conn : Held(d)' <=> Held(d)
    BY <2>1, <2>2, <1>t DEF Held, TypeOK
  <2>4. queue' = queue /\ peer' = peer
    BY <1>2 DEF Fork
  <2>5. \A d \in Conn : Queued(d)' <=> Queued(d)
    BY <2>4 DEF Queued
  <2> QED BY <2>3, <2>4, <2>5, <1>u, SameStages, Stutters
<1>3. CASE Close(p) \/ Farewell(p) \/ End(p)
  <2>1. pc[p] \in Active /\ fds[p] = {sock[p]}
    BY <1>3, HoldFacts DEF Close, Farewell, End, Active, Serving
  <2>2. fds' = [fds EXCEPT ![p] = {}] /\ queue' = queue
    BY <1>3, <2>1 DEF Close, Farewell, End, CloseChannel
  <2>3. \A d \in Conn : peer'[d] = "idle" <=> peer[d] = "idle"
    BY <1>3, <1>w DEF Close, Farewell, End, CloseChannel, Serving
  <2> QED BY <2>2, <2>3, <1>u, LettingGo
<1>4. CASE /\ ~Accept(p) /\ ~Fork(p) /\ ~Close(p) /\ ~Farewell(p) /\ ~End(p)
  <2>1. fds' = fds /\ queue' = queue
    BY <1>4 DEF Own, OnPeer, Create, Greet, Select, SelectTimeout, ReadData, ReadEnd,
                ReadError, Echo
  <2>2. \A d \in Conn : Held(d)' <=> Held(d)
    BY <2>1 DEF Held
  <2>3. \A d \in Conn : Queued(d)' <=> Queued(d)
    BY <2>1 DEF Queued
  <2>4. \A d \in Conn : peer'[d] = "idle" <=> peer[d] = "idle"
    <3>1. CASE Greet(p) \/ Echo(p)
      BY <3>1, <1>w DEF Greet, Echo, Serving
    <3>2. CASE ReadError(p)
      BY <3>2, <1>t DEF ReadError, TypeOK
    <3>3. CASE ~Greet(p) /\ ~Echo(p) /\ ~ReadError(p)
      BY <3>3, <1>4 DEF Own, OnPeer, Create, Select, SelectTimeout, ReadData, ReadEnd
    <3> QED BY <3>1, <3>2, <3>3
  <2> QED BY <2>1, <2>2, <2>3, <2>4, <1>u, SameStages, Stutters
<1> QED BY <1>1, <1>2, <1>3, <1>4

\* A process that is killed or gives up lets go of its connection; the last one
\* takes the queue with it.
LEMMA TerminateSimulation ==
  ASSUME IInv, IInv', NEW p \in Proc, NEW how \in Ended,
         pc[p] \notin {"unused"} \cup Ended, Terminate(p, how)
  PROVE  [Lifecycle!Next]_(Lifecycle!lifecycle)
<1>t. TypeOK
  BY DEF IInv
<1>1. /\ pc' = [pc EXCEPT ![p] = how]
      /\ fds' = [fds EXCEPT ![p] = {}]
      /\ peer' = peer
  BY DEF Terminate
<1>2. CASE \A q \in Proc \ {p} : pc[q] \in {"unused"} \cup Ended
  <2>1. queue' = <<>> /\ Up /\ ~Up'
    BY <1>1, <1>2, <1>t DEF Terminate, Up, TypeOK
  <2>2. \A q \in Proc : fds'[q] = {}
    BY <1>1, <1>2, <1>t, HoldFacts DEF Active, Serving, Ended, TypeOK
  <2>3. \A c \in Conn : ~Queued(c)' /\ ~Held(c)'
    BY <2>1, <2>2 DEF Queued, Held
  <2>4. \A c \in Conn : /\ Stage(c)' = IF peer[c] = "idle" THEN "idle" ELSE "over"
                        /\ Stage(c) = "idle" <=> peer[c] = "idle"
    <3> TAKE c \in Conn
    <3>1. Stage(c)' = IF peer[c] = "idle" THEN "idle" ELSE "over"
      BY <2>3, <1>1 DEF Stage
    <3>2. Stage(c) = "idle" <=> peer[c] = "idle"
      BY StageIs DEF StagesAre
    <3> QED BY <3>1, <3>2
  <2>5. Stages' = [c \in Conn |-> IF Stages[c] = "idle" THEN "idle" ELSE "over"]
    BY <2>4 DEF Stages
  <2>6. Lifecycle!Stop
    BY <2>1, <2>5 DEF Lifecycle!Stop, Stages
  <2> QED BY <2>6 DEF Lifecycle!Next
<1>3. CASE ~ \A q \in Proc \ {p} : pc[q] \in {"unused"} \cup Ended
  <2>1. queue' = queue
    BY <1>3 DEF Terminate
  <2>2. Up' /\ Up
    BY <1>1, <1>3, <1>t DEF Up, TypeOK
  <2> QED BY <1>1, <2>1, <2>2, LettingGo
<1> QED BY <1>2, <1>3

\* However many processes there are and however they end, they are one server
\* that takes its clients in the order they came, serves each once and forgets
\* it: accept, fork and close (lines 45-74), the end of
\* tcp_connection_process (lines 140-143) and the deaths of processes are
\* steps of ConnectionLifecycle, or invisible in it.
THEOREM ServerImplementsLifecycle == Spec => ImplementsLifecycle
<1>1. Init => Lifecycle!Init
  <2> SUFFICES ASSUME Init PROVE Lifecycle!Init
    OBVIOUS
  <2>1. \A c \in Conn : ~Queued(c) /\ ~Held(c) /\ peer[c] = "idle"
    BY DEF Init, Queued, Held
  <2>2. Stages = [c \in Conn |-> "idle"]
    BY <2>1 DEF Stages, Stage
  <2>3. Up
    BY ProcAssumption DEF Init, Up, Ended
  <2> QED BY <2>2, <2>3 DEF Init, Lifecycle!Init, Stages
<1>2. IInv /\ IInv' /\ [Next]_vars => [Lifecycle!Next]_(Lifecycle!lifecycle)
  <2> SUFFICES ASSUME IInv, IInv', [Next]_vars
               PROVE  [Lifecycle!Next]_(Lifecycle!lifecycle)
    OBVIOUS
  <2>1. ASSUME NEW c \in Conn, Client(c) PROVE [Lifecycle!Next]_(Lifecycle!lifecycle)
    BY <2>1, ClientSimulation
  <2>2. ASSUME NEW p \in Proc, Own(p) \/ OnPeer(p)
        PROVE  [Lifecycle!Next]_(Lifecycle!lifecycle)
    BY <2>2, ProcessSimulation
  <2>3. ASSUME NEW p \in Proc, Failure(p) PROVE [Lifecycle!Next]_(Lifecycle!lifecycle)
    <3>1. /\ \E how \in Ended : Terminate(p, how)
          /\ pc[p] \notin {"unused"} \cup Ended
      BY <2>3 DEF Failure, CreateFails, AcceptFails, ForkFails, FdopenFails, SigPipe, Ended
    <3> QED BY <3>1, TerminateSimulation
  <2>4. CASE UNCHANGED vars
    <3>1. UNCHANGED Lifecycle!lifecycle
      BY <2>4 DEF vars, Lifecycle!lifecycle, Stage, Queued, Held, Up
    <3> QED BY <3>1
  <2> QED BY <2>1, <2>2, <2>3, <2>4 DEF Next
<1> QED BY <1>1, <1>2, IInvHolds, PTL DEF Spec, ImplementsLifecycle, Lifecycle!Spec
===============================================================================
