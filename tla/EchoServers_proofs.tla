------------------------- MODULE EchoServers_proofs -------------------------
(***************************************************************************)
(* Answers and descriptors of the four servers of lab1, for any number of   *)
(* clients, of descriptors and of calls that fail.                          *)
(***************************************************************************)
EXTENDS EchoServers, FiniteSetTheorems, WellFoundedInduction, TLAPS

Stages == {"start", "read", "reading", "write", "close", "exited", "reaped"}
WorkerType == [fd : Descriptors \cup {None}, conn : Clients \cup {None},
                text : Clients \cup {None}, stage : Stages]

Types ==
    /\ version \in 1..4
    /\ ClientSock \in Descriptors \cup {None}
    /\ fds \in [Descriptors -> Clients \cup {None}]
    /\ workers \in Seq(WorkerType)
    /\ \A w \in DOMAIN workers : workers[w].stage = "reading" => workers[w].conn \in Clients
    /\ queue \in Seq(Clients)
    /\ toServer \in [Clients -> Seq(Clients)] /\ toClient \in [Clients -> Seq(Clients)]
    /\ got \in [Clients -> Clients \cup {None, EndOfFile}]

(* Each server has steps of its own.                                         *)
Mains ==
    /\ version = 1 => main \in {"accept", "serving", "end"}
    /\ version = 2 => main \in {"accept", "fork", "close", "reap"}
    /\ version = 3 => main \in {"accept", "create"}
    /\ version = 4 => main \in {"accept", "serving"}

(* The threads of the third server have not got into each other's way.       *)
Clear == ~(version = 3 /\ overlap)

(* On a connection there is only its client's own message.                   *)
Own ==
    \A c \in Clients :
        /\ \A i \in 1..Len(toServer[c]) : toServer[c][i] = c
        /\ \A i \in 1..Len(toClient[c]) : toClient[c][i] = c
        /\ got[c] \in {None, EndOfFile, c}

(* What a worker has read is of the client its descriptor stands for.        *)
Active(w) == workers[w].stage \notin {"exited", "reaped"}
Serves(w) ==
    /\ workers[w].stage \in {"start", "read", "reading"} => workers[w].text = None
    /\ workers[w].stage = "write" => workers[w].text \in {None, workers[w].conn}
    /\ workers[w].stage = "reading" \/ (workers[w].stage = "write" /\ workers[w].text # None)
          => workers[w].conn \in Clients /\ ConnOf(w) = workers[w].conn

(* But for the children there is one worker at a time, and none in between.  *)
Alone ==
    version # 2 =>
        /\ \A w \in DOMAIN workers : Active(w) => w = Len(workers)
        /\ main = "create" \/ (main = "accept" /\ version \in {1, 4})
              => \A w \in DOMAIN workers : ~Active(w)

Served == Clear => Own /\ Alone /\ \A w \in DOMAIN workers : Serves(w)

(* The descriptors of the second and of the fourth server.                   *)
Held ==
    version \in {2, 4} =>
        /\ main \in {"accept", "reap"} => \A d \in Descriptors : fds[d] = None
        /\ \A d \in Descriptors : d # ClientSock => fds[d] = None
        /\ main = "fork" => ClientSock \in Descriptors /\ fds[ClientSock] # None
        /\ version = 4 => \A w \in DOMAIN workers : Active(w) => workers[w].fd = ClientSock /\ ClientSock # None

Inv == Types /\ Mains /\ Served /\ Held
-----------------------------------------------------------------------------
(* Lists of workers, and the lowest descriptor                              *)

Free == {d \in Descriptors : fds[d] = None}

LEMMA LowestIsFree == ASSUME Free # {} PROVE Min(Free) \in Free
<1> DEFINE T == {1..n : n \in Free}
<1>1. Free \subseteq Nat
  BY EchoConstants DEF Free, Descriptors
<1>2. T \subseteq FiniteSubsetsOf(Nat) /\ T # {}
  <2>1. \A n \in Free : IsFiniteSet(1..n) /\ 1..n \subseteq Nat
    BY <1>1, FS_Interval
  <2> QED
    BY <2>1 DEF FiniteSubsetsOf
<1>3. PICK x \in T : \A y \in T : ~(<<y, x>> \in StrictSubsetOrdering(Nat))
  BY <1>2, WFMin, FS_StrictSubsetOrderingWellFounded
<1>4. PICK n \in Free : x = 1..n
  OBVIOUS
<1>5. ASSUME NEW m \in Free PROVE n <= m
  <2>1. ~(<<1..m, 1..n>> \in StrictSubsetOrdering(Nat))
    BY <1>3, <1>4
  <2>2. m < n => (1..m) \subseteq (1..n) /\ n \in 1..n /\ n \notin 1..m
    BY <1>1
  <2> QED
    BY <1>1, <2>1, <2>2 DEF StrictSubsetOrdering
<1> QED
  BY <1>5 DEF Min

LEMMA DescriptorFacts ==
    /\ None \notin Descriptors /\ None \notin Clients /\ EndOfFile \notin Clients
    /\ EndOfFile # None /\ Descriptors \subseteq Nat
BY EchoConstants DEF Descriptors, None, EndOfFile

LEMMA OneChanges ==
    ASSUME workers \in Seq(WorkerType), NEW w \in DOMAIN workers, NEW x \in WorkerType,
           workers' = [workers EXCEPT ![w] = x]
    PROVE  /\ workers' \in Seq(WorkerType) /\ DOMAIN workers' = DOMAIN workers
           /\ Len(workers') = Len(workers) /\ workers'[w] = x
           /\ \A v \in DOMAIN workers : v # w => workers'[v] = workers[v]
OBVIOUS

LEMMA OneStarts ==
    ASSUME workers \in Seq(WorkerType), NEW x \in WorkerType, workers' = Append(workers, x)
    PROVE  /\ workers' \in Seq(WorkerType) /\ Len(workers') = Len(workers) + 1 /\ Len(workers) \in Nat
           /\ DOMAIN workers' = DOMAIN workers \cup {Len(workers')}
           /\ DOMAIN workers = 1..Len(workers) /\ Len(workers') \notin DOMAIN workers
           /\ workers'[Len(workers')] = x
           /\ \A v \in DOMAIN workers : workers'[v] = workers[v]
OBVIOUS

LEMMA InitInv == Init => Inv
<1> SUFFICES ASSUME Init PROVE Inv
  OBVIOUS
<1>1. Types
  <2>1. version \in 1..4
    BY EchoConstants DEF Init
  <2> QED
    BY <2>1 DEF Init, Types
<1>2. Mains
  BY DEF Init, Mains
<1>3. Served
  BY DEF Init, Served, Own, Alone
<1>4. Held
  BY DEF Init, Held
<1> QED
  BY <1>1, <1>2, <1>3, <1>4 DEF Inv
-----------------------------------------------------------------------------
(* The clients                                                              *)

LEMMA SameServer ==
    ASSUME Inv, UNCHANGED <<version, server, overlap>>
    PROVE  Mains' /\ Held' /\ (Clear => Alone' /\ \A w \in DOMAIN workers' : Serves(w)') /\ (Clear' <=> Clear)
<1>1. UNCHANGED <<version, main, ClientSock, fds, workers, overlap>>
  BY DEF server
<1>2. Mains' /\ Held' /\ (Clear' <=> Clear)
  BY <1>1 DEF Inv, Mains, Held, Active, Clear
<1>3. ASSUME Clear PROVE Alone' /\ \A w \in DOMAIN workers' : Serves(w)'
  BY <1>1, <1>3 DEF Inv, Served, Alone, Active, Serves, ConnOf, Connection
<1> QED
  BY <1>2, <1>3

LEMMA ClientKeeps ==
    ASSUME Inv, NEW c \in Clients, ClientNext(c) \/ Interrupt(c)
    PROVE  Inv'
<1>0. UNCHANGED <<version, server, overlap>> /\ Types
  BY DEF ClientNext, Connect, Send, Receive, Interrupt, Inv
<1>1. CASE Connect(c)
  <2>1. Types'
    BY <1>0, <1>1 DEF Connect, Types, server, wires
  <2>2. Clear => Own'
    BY <1>1 DEF Inv, Served, Own, Connect, wires
  <2> QED
    BY <1>0, <2>1, <2>2, SameServer DEF Inv, Served
<1>2. CASE Send(c)
  <2>1. Types'
    BY <1>0, <1>2 DEF Send, Types, server
  <2>2. Clear => Own'
    BY <1>0, <1>2 DEF Inv, Served, Own, Send, Types
  <2> QED
    BY <1>0, <2>1, <2>2, SameServer DEF Inv, Served
<1>3. CASE Receive(c)
  <2>1. CASE toClient[c] # << >>
    <3>1. /\ Head(toClient[c]) \in Clients /\ Tail(toClient[c]) \in Seq(Clients)
          /\ Head(toClient[c]) = toClient[c][1] /\ Len(toClient[c]) \in Nat \ {0}
          /\ \A i \in 1..Len(Tail(toClient[c])) :
                i + 1 \in 1..Len(toClient[c]) /\ Tail(toClient[c])[i] = toClient[c][i + 1]
      BY <1>0, <2>1 DEF Types
    <3>2. /\ got' = [got EXCEPT ![c] = Head(toClient[c])]
          /\ toClient' = [toClient EXCEPT ![c] = Tail(toClient[c])]
          /\ toServer' \in {toServer, [toServer EXCEPT ![c] = Append(toServer[c], Head(toClient[c]))]}
          /\ UNCHANGED <<queue, version, ClientSock, fds, workers>>
      BY <1>3, <2>1 DEF Receive, server
    <3>3. Types'
      <4>1. toServer' \in [Clients -> Seq(Clients)]
        <5>1. Append(toServer[c], Head(toClient[c])) \in Seq(Clients)
          BY <1>0, <3>1 DEF Types
        <5> QED
          BY <1>0, <3>2, <5>1 DEF Types
      <4>2. toClient' \in [Clients -> Seq(Clients)]
        BY <1>0, <3>1, <3>2 DEF Types
      <4>3. got' \in [Clients -> Clients \cup {None, EndOfFile}]
        BY <1>0, <3>1, <3>2 DEF Types
      <4> QED
        BY <1>0, <3>2, <4>1, <4>2, <4>3 DEF Types
    <3>4. ASSUME Clear PROVE Own'
      <4>1. Own /\ Head(toClient[c]) = c
        BY <3>1, <3>4 DEF Inv, Served, Own
      <4>2. \A d \in Clients : \A i \in 1..Len(toServer'[d]) : toServer'[d][i] = d
        <5>1. CASE toServer' = toServer
          BY <4>1, <5>1 DEF Own
        <5>2. CASE toServer' = [toServer EXCEPT ![c] = Append(toServer[c], Head(toClient[c]))]
          <6>1. ASSUME NEW d \in Clients, d # c PROVE toServer'[d] = toServer[d]
            BY <1>0, <5>2, <6>1 DEF Types
          <6>2. toServer'[c] = Append(toServer[c], c) /\ toServer[c] \in Seq(Clients)
            BY <1>0, <4>1, <5>2 DEF Types
          <6>3. \A i \in 1..Len(toServer'[c]) : toServer'[c][i] = c
            BY <4>1, <6>2 DEF Own
          <6> QED
            BY <4>1, <6>1, <6>3 DEF Own
        <5> QED
          BY <3>2, <5>1, <5>2
      <4>3. \A d \in Clients : \A i \in 1..Len(toClient'[d]) : toClient'[d][i] = d
        BY <1>0, <3>1, <3>2, <4>1 DEF Own, Types
      <4>4. \A d \in Clients : got'[d] \in {None, EndOfFile, d}
        BY <1>0, <3>2, <4>1 DEF Own, Types
      <4> QED
        BY <4>2, <4>3, <4>4 DEF Own
    <3> QED
      BY <1>0, <3>3, <3>4, SameServer DEF Inv, Served
  <2>2. CASE toClient[c] = << >>
    <3>1. Types'
      BY <1>0, <1>3, <2>2 DEF Receive, Types, server, wires
    <3>2. Clear => Own'
      BY <1>0, <1>3, <2>2 DEF Inv, Served, Own, Receive, wires, Types
    <3> QED
      BY <1>0, <3>1, <3>2, SameServer DEF Inv, Served
  <2> QED
    BY <2>1, <2>2
<1>4. CASE Interrupt(c)
  <2>1. Types'
    BY <1>0, <1>4 DEF Interrupt, Types, server, wires
  <2>2. Clear => Own'
    BY <1>4 DEF Inv, Served, Own, Interrupt, wires
  <2> QED
    BY <1>0, <2>1, <2>2, SameServer DEF Inv, Served
<1> QED
  BY <1>1, <1>2, <1>3, <1>4 DEF ClientNext
-----------------------------------------------------------------------------
(* The workers                                                              *)

LEMMA OthersServe ==
    ASSUME Inv, Clear, NEW w \in DOMAIN workers, Active(w), NEW x \in WorkerType,
           workers' = [workers EXCEPT ![w] = x], version' = version
    PROVE  /\ \A v \in DOMAIN workers' : v # w => Serves(v)'
           /\ version # 2 =>
                /\ \A v \in DOMAIN workers' : Active(v)' => v = Len(workers')
                /\ \A v \in DOMAIN workers' : v # w => ~Active(v)'
                /\ main # "create" /\ ~(main = "accept" /\ version \in {1, 4})
<1>1. /\ DOMAIN workers' = DOMAIN workers /\ Len(workers') = Len(workers)
      /\ \A v \in DOMAIN workers : v # w => workers'[v] = workers[v]
  BY OneChanges DEF Inv, Types
<1>2. Alone /\ \A v \in DOMAIN workers : Serves(v)
  BY DEF Inv, Served
<1>3. ASSUME version # 2
      PROVE  /\ \A v \in DOMAIN workers' : Active(v)' => v = Len(workers')
             /\ \A v \in DOMAIN workers' : v # w => ~Active(v)'
             /\ main # "create" /\ ~(main = "accept" /\ version \in {1, 4})
  BY <1>1, <1>2, <1>3 DEF Alone, Active
<1>4. ASSUME NEW v \in DOMAIN workers', v # w PROVE Serves(v)'
  <2>1. CASE version = 2
    BY <1>1, <1>2, <1>4, <2>1 DEF Serves, ConnOf
  <2>2. CASE version # 2
    <3>1. workers'[v].stage \in {"exited", "reaped"}
      BY <1>3, <1>4, <2>2 DEF Active
    <3> QED
      BY <3>1 DEF Serves
  <2> QED
    BY <2>1, <2>2
<1> QED
  BY <1>3, <1>4

(* A worker that goes on keeps what does not concern itself.                 *)
LEMMA GoesOn ==
    ASSUME Inv, NEW w \in DOMAIN workers, Active(w), NEW x \in WorkerType,
           workers' = [workers EXCEPT ![w] = x], x.stage = "reading" => x.conn \in Clients,
           version \in {2, 4} => x.fd = workers[w].fd \/ x.fd = ClientSock,
           Clear => Own' /\ Serves(w)',
           toServer' \in [Clients -> Seq(Clients)], toClient' \in [Clients -> Seq(Clients)],
           UNCHANGED <<version, queue, got, overlap, main, ClientSock, fds>>
    PROVE  Inv'
<1>1. /\ workers' \in Seq(WorkerType) /\ DOMAIN workers' = DOMAIN workers /\ workers'[w] = x
      /\ \A v \in DOMAIN workers : v # w => workers'[v] = workers[v]
  BY OneChanges DEF Inv, Types
<1>2. Types'
  BY <1>1 DEF Inv, Types
<1>3. Mains' /\ (Clear' <=> Clear)
  BY DEF Inv, Mains, Clear
<1>4. ASSUME Clear PROVE Own' /\ Alone' /\ \A v \in DOMAIN workers' : Serves(v)'
  <2>1. /\ \A v \in DOMAIN workers' : v # w => Serves(v)'
        /\ version # 2 =>
                /\ \A v \in DOMAIN workers' : Active(v)' => v = Len(workers')
                /\ main # "create" /\ ~(main = "accept" /\ version \in {1, 4})
    BY <1>4, OthersServe
  <2>2. Alone'
    BY <2>1 DEF Alone
  <2> QED
    BY <1>4, <2>1, <2>2
<1>5. Held'
  BY <1>1 DEF Inv, Held, Active
<1> QED
  BY <1>2, <1>3, <1>4, <1>5 DEF Inv, Served

LEMMA ConnectionOfWorker ==
    ASSUME Types, NEW w \in DOMAIN workers
    PROVE  ConnOf(w) \in Clients \cup {None} /\ workers[w] \in WorkerType
<1>1. workers[w] \in WorkerType
  BY DEF Types
<1>2. ConnOf(w) \in Clients \cup {None}
  BY <1>1 DEF Types, ConnOf, Connection, WorkerType
<1> QED
  BY <1>1, <1>2

LEMMA ThreadMainKeeps ==
    ASSUME Inv, NEW w \in DOMAIN workers, ThreadMain(w)
    PROVE  Inv'
<1> DEFINE x == [workers[w] EXCEPT !.stage = "read", !.fd = ClientSock]
<1>1. Types /\ workers[w] \in WorkerType /\ Active(w)
  BY ConnectionOfWorker DEF Inv, ThreadMain, At, Active
<1>2. /\ x \in WorkerType /\ x.stage = "read" /\ x.text = workers[w].text /\ x.conn = workers[w].conn
      /\ x.fd = ClientSock
  BY <1>1 DEF WorkerType, Types, Stages
<1>3. workers' = [workers EXCEPT ![w] = x] /\ workers'[w] = x
  BY <1>1 DEF ThreadMain, Types
<1>4. UNCHANGED <<version, queue, got, overlap, main, ClientSock, fds, toServer, toClient>>
  BY DEF ThreadMain, rest, wires
<1>5. ASSUME Clear PROVE Own' /\ Serves(w)'
  <2>1. workers[w].text = None
    BY <1>5 DEF Inv, Served, Serves, ThreadMain, At
  <2> HIDE DEF x
  <2> QED
    BY <1>2, <1>3, <1>4, <1>5, <2>1 DEF Inv, Served, Own, Serves
<1> HIDE DEF x
<1> QED
  BY <1>1, <1>2, <1>3, <1>4, <1>5, GoesOn DEF Types

LEMMA ReadCalledKeeps ==
    ASSUME Inv, NEW w \in DOMAIN workers, ReadCalled(w)
    PROVE  Inv'
<1> DEFINE c == ConnOf(w)
           x == [workers[w] EXCEPT !.conn = c, !.stage = IF c = None THEN "write" ELSE "reading"]
<1>1. /\ Types /\ workers[w] \in WorkerType /\ Active(w) /\ workers[w].stage = "read"
      /\ c \in Clients \cup {None}
  BY ConnectionOfWorker DEF Inv, ReadCalled, At, Active
<1>2. /\ x \in WorkerType /\ x.text = workers[w].text /\ x.conn = c /\ x.fd = workers[w].fd
      /\ x.stage = IF c = None THEN "write" ELSE "reading"
  <2> HIDE DEF c
  <2> QED
    BY <1>1 DEF WorkerType, Stages
<1>3. workers' = [workers EXCEPT ![w] = x] /\ workers'[w] = x
  BY <1>1 DEF ReadCalled, Types
<1>4. UNCHANGED <<version, queue, got, overlap, main, ClientSock, fds, toServer, toClient>>
  BY DEF ReadCalled, rest, wires
<1>5. ASSUME Clear PROVE Own' /\ Serves(w)'
  <2>1. workers[w].text = None
    BY <1>1, <1>5 DEF Inv, Served, Serves
  <2>2. ConnOf(w)' = c
    <3>1. CASE version = 2
      <4> HIDE DEF x
      <4> QED
        BY <1>2, <1>3, <1>4, <3>1 DEF ConnOf
    <3>2. CASE version # 2
      <4> HIDE DEF x
      <4> QED
        BY <1>2, <1>3, <1>4, <3>2 DEF ConnOf, Connection
    <3> QED
      BY <3>1, <3>2
  <2> HIDE DEF x, c
  <2>3. Serves(w)'
    BY <1>1, <1>2, <1>3, <2>1, <2>2 DEF Serves
  <2> QED
    BY <1>4, <1>5, <2>3 DEF Inv, Served, Own
<1> HIDE DEF x, c
<1> QED
  BY <1>1, <1>2, <1>3, <1>4, <1>5, GoesOn DEF Types

LEMMA ReadReturnsKeeps ==
    ASSUME Inv, NEW w \in DOMAIN workers, ReadReturns(w)
    PROVE  Inv'
<1> DEFINE c == workers[w].conn
<1>1. /\ Types /\ workers[w] \in WorkerType /\ Active(w) /\ workers[w].stage = "reading"
      /\ c \in Clients
  BY ConnectionOfWorker DEF Inv, Types, ReadReturns, At, Active
<1>2. UNCHANGED <<version, queue, got, overlap, main, ClientSock, fds, toClient>>
  BY DEF ReadReturns, rest
<1>3. ASSUME Clear PROVE Own /\ workers[w].text = None /\ ConnOf(w) = c
  BY <1>1, <1>3 DEF Inv, Served, Serves
<1>4. ASSUME NEW x \in WorkerType, workers'[w] = x, x.fd = workers[w].fd, x.conn = c, version' = version
      PROVE  ConnOf(w)' = IF version = 2 THEN c ELSE ConnOf(w)
  <2> HIDE DEF c
  <2>1. CASE version = 2
    BY <1>4, <2>1 DEF ConnOf
  <2>2. CASE version # 2
    BY <1>2, <1>4, <2>2 DEF ConnOf, Connection
  <2> QED
    BY <2>1, <2>2
<1>5. CASE toServer[c] # << >>
  <2> DEFINE x == [workers[w] EXCEPT !.stage = "write", !.text = Head(toServer[c])]
  <2>1. /\ toServer[c] \in Seq(Clients) /\ Head(toServer[c]) \in Clients
        /\ Tail(toServer[c]) \in Seq(Clients) /\ Head(toServer[c]) = toServer[c][1]
        /\ 1 \in 1..Len(toServer[c])
        /\ \A i \in 1..Len(Tail(toServer[c])) :
              i + 1 \in 1..Len(toServer[c]) /\ Tail(toServer[c])[i] = toServer[c][i + 1]
    <3> HIDE DEF c
    <3>1. toServer[c] \in Seq(Clients) /\ toServer[c] # << >>
      BY <1>1, <1>5 DEF Types
    <3> QED
      BY <3>1
  <2>2. /\ x \in WorkerType /\ x.text = Head(toServer[c]) /\ x.conn = c /\ x.fd = workers[w].fd
        /\ x.stage = "write"
    BY <1>1, <2>1 DEF WorkerType, Stages
  <2>3. /\ workers' = [workers EXCEPT ![w] = x] /\ workers'[w] = x
        /\ toServer' = [toServer EXCEPT ![c] = Tail(toServer[c])]
    BY <1>1, <1>5 DEF ReadReturns, Types
  <2>4. ASSUME Clear PROVE Own' /\ Serves(w)'
    <3>1. \A i \in 1..Len(toServer[c]) : toServer[c][i] = c
      BY <1>1, <1>3, <2>4 DEF Own
    <3>2. Own'
      <4>1. \A d \in Clients : \A i \in 1..Len(toServer'[d]) : toServer'[d][i] = d
        BY <1>1, <1>3, <2>1, <2>3, <2>4, <3>1 DEF Own, Types
      <4> QED
        BY <1>2, <1>3, <2>4, <4>1 DEF Own
    <3>3. x.text = c
      BY <2>1, <2>2, <3>1
    <3>4. ConnOf(w)' = c
      BY <1>2, <1>3, <1>4, <2>2, <2>3, <2>4
    <3> HIDE DEF x
    <3>5. Serves(w)'
      BY <1>1, <2>2, <2>3, <3>3, <3>4 DEF Serves
    <3> QED
      BY <3>2, <3>5
  <2>5. toServer' \in [Clients -> Seq(Clients)]
    BY <1>1, <2>1, <2>3 DEF Types
  <2> HIDE DEF x, c
  <2> QED
    BY <1>1, <1>2, <2>2, <2>3, <2>4, <2>5, GoesOn DEF Types
<1>6. CASE toServer[c] = << >>
  <2> DEFINE x == [workers[w] EXCEPT !.stage = "write"]
  <2>1. /\ x \in WorkerType /\ x.text = workers[w].text /\ x.conn = c /\ x.fd = workers[w].fd
        /\ x.stage = "write"
    BY <1>1 DEF WorkerType, Stages
  <2>2. workers' = [workers EXCEPT ![w] = x] /\ workers'[w] = x /\ toServer' = toServer
    BY <1>1, <1>6 DEF ReadReturns, Goes, Types
  <2>3. ASSUME Clear PROVE Own' /\ Serves(w)'
    <3> HIDE DEF x
    <3> QED
      BY <1>2, <1>3, <2>1, <2>2, <2>3 DEF Own, Serves
  <2> HIDE DEF x, c
  <2> QED
    BY <1>1, <1>2, <2>1, <2>2, <2>3, GoesOn DEF Types
<1> QED
  BY <1>5, <1>6

LEMMA WriteKeeps ==
    ASSUME Inv, NEW w \in DOMAIN workers, Write(w)
    PROVE  Inv'
<1> DEFINE c == ConnOf(w)
           m == workers[w].text
           x == [workers[w] EXCEPT !.stage = "close"]
<1>1. /\ Types /\ workers[w] \in WorkerType /\ Active(w) /\ workers[w].stage = "write"
      /\ c \in Clients \cup {None} /\ m \in Clients \cup {None}
  BY ConnectionOfWorker DEF Inv, WorkerType, Write, At, Active
<1>2. x \in WorkerType /\ x.stage = "close" /\ x.fd = workers[w].fd
  BY <1>1 DEF WorkerType, Stages
<1>3. workers' = [workers EXCEPT ![w] = x] /\ workers'[w] = x
  BY <1>1 DEF Write, Goes, Types
<1>4. UNCHANGED <<version, queue, got, overlap, main, ClientSock, fds, toServer>>
  BY DEF Write, rest
<1>5. ASSUME Clear PROVE Serves(w)'
  <2> HIDE DEF x
  <2> QED
    BY <1>2, <1>3 DEF Serves
<1>6. CASE None \in {c, m}
  <2>1. toClient' = toClient
    BY <1>6 DEF Write
  <2>2. ASSUME Clear PROVE Own'
    BY <1>4, <2>1, <2>2 DEF Inv, Served, Own
  <2> HIDE DEF x, c, m
  <2> QED
    BY <1>1, <1>2, <1>3, <1>4, <1>5, <2>1, <2>2, GoesOn DEF Types
<1>7. CASE None \notin {c, m}
  <2>1. toClient' = [toClient EXCEPT ![c] = Append(toClient[c], m)] /\ c \in Clients /\ m \in Clients
    BY <1>1, <1>7 DEF Write
  <2>2. toClient[c] \in Seq(Clients) /\ Append(toClient[c], m) \in Seq(Clients)
    BY <1>1, <2>1 DEF Types
  <2>3. /\ toClient' \in [Clients -> Seq(Clients)] /\ toClient'[c] = Append(toClient[c], m)
        /\ \A d \in Clients : d # c => toClient'[d] = toClient[d]
    <3> HIDE DEF c, m
    <3> QED
      BY <1>1, <2>1, <2>2 DEF Types
  <2>4. ASSUME Clear PROVE Own'
    <3>1. Own /\ m = c
      BY <1>1, <1>7, <2>4 DEF Inv, Served, Serves
    <3> HIDE DEF c, m
    <3>2. \A i \in 1..Len(toClient'[c]) : toClient'[c][i] = c
      BY <2>1, <2>2, <2>3, <3>1 DEF Own
    <3> QED
      BY <1>4, <2>3, <3>1, <3>2 DEF Own
  <2> HIDE DEF x, c, m
  <2> QED
    BY <1>1, <1>2, <1>3, <1>4, <1>5, <2>3, <2>4, GoesOn DEF Types
<1> QED
  BY <1>6, <1>7

LEMMA CloseKeeps ==
    ASSUME Inv, NEW w \in DOMAIN workers, Close(w)
    PROVE  Inv'
<1> DEFINE x == [workers[w] EXCEPT !.stage = "exited"]
<1>1. /\ Types /\ Mains /\ workers[w] \in WorkerType /\ Active(w) /\ workers[w].stage = "close"
      /\ main # "end"
  BY ConnectionOfWorker DEF Inv, Close, At, Active
<1>2. x \in WorkerType /\ x.stage = "exited" /\ x.fd = workers[w].fd
  BY <1>1 DEF WorkerType, Stages
<1>3. workers' = [workers EXCEPT ![w] = x] /\ workers'[w] = x
  BY <1>1 DEF Close, Goes, Types
<1> HIDE DEF x
<1>4. UNCHANGED <<version, queue, got, overlap, ClientSock, toServer, toClient>>
  BY DEF Close, rest, wires
<1>5. /\ workers' \in Seq(WorkerType) /\ DOMAIN workers' = DOMAIN workers
      /\ \A v \in DOMAIN workers : v # w => workers'[v] = workers[v]
  BY <1>1, <1>2, <1>3, OneChanges DEF Types
<1>6. fds' = IF version \in {1, 2} \/ workers[w].fd = None THEN fds
             ELSE [fds EXCEPT ![workers[w].fd] = None]
  BY DEF Close
<1>7. main' = IF version \in {1, 4} THEN "accept" ELSE main
  BY DEF Close
<1>8. Types'
  <2>1. fds' \in [Descriptors -> Clients \cup {None}]
    BY <1>1, <1>6 DEF Types
  <2> QED
    BY <1>1, <1>2, <1>3, <1>4, <1>5, <2>1 DEF Types
<1>9. Mains'
  BY <1>1, <1>4, <1>7 DEF Mains
<1>10. ASSUME Clear PROVE Own' /\ Alone' /\ \A v \in DOMAIN workers' : Serves(v)'
  <2>1. /\ \A v \in DOMAIN workers' : v # w => Serves(v)'
        /\ version # 2 =>
                /\ \A v \in DOMAIN workers' : Active(v)' => v = Len(workers')
                /\ \A v \in DOMAIN workers' : v # w => ~Active(v)'
                /\ main # "create" /\ ~(main = "accept" /\ version \in {1, 4})
    BY <1>1, <1>2, <1>3, <1>4, <1>10, OthersServe
  <2>2. Serves(w)' /\ ~Active(w)'
    BY <1>2, <1>3 DEF Serves, Active
  <2>3. Alone'
    BY <1>4, <1>7, <2>1, <2>2 DEF Alone
  <2>4. Own'
    BY <1>4, <1>10 DEF Inv, Served, Own
  <2> QED
    BY <2>1, <2>2, <2>3, <2>4
<1>11. Held'
  <2>1. CASE version = 4
    <3>1. /\ workers[w].fd = ClientSock /\ ClientSock # None /\ ClientSock \in Descriptors
          /\ \A d \in Descriptors : d # ClientSock => fds[d] = None
      BY <1>1, <2>1 DEF Inv, Held, Types
    <3>2. \A d \in Descriptors : fds'[d] = None
      BY <1>1, <1>6, <2>1, <3>1 DEF Types
    <3>3. \A v \in DOMAIN workers' : Active(v)' => workers'[v].fd = ClientSock
      BY <1>1, <1>2, <1>3, <1>5, <2>1 DEF Inv, Held, Active
    <3> QED
      BY <1>4, <1>7, <2>1, <3>1, <3>2, <3>3 DEF Held
  <2>2. CASE version = 2
    BY <1>4, <1>6, <1>7, <2>2 DEF Inv, Held
  <2>3. CASE version \notin {2, 4}
    BY <1>4, <2>3 DEF Held
  <2> QED
    BY <2>1, <2>2, <2>3
<1>12. Clear' <=> Clear
  BY <1>4 DEF Clear
<1> QED
  BY <1>8, <1>9, <1>10, <1>11, <1>12 DEF Inv, Served
-----------------------------------------------------------------------------
(* The server                                                               *)

(* Workers that have ended do not mind what becomes of the descriptors.      *)
LEMMA ServedStill ==
    ASSUME Inv, Clear, version' = version, NEW v \in DOMAIN workers, workers'[v] = workers[v],
           version = 2 \/ ~Active(v)
    PROVE  Serves(v)'
<1>1. CASE version = 2
  BY <1>1 DEF Inv, Served, Serves, ConnOf
<1>2. CASE ~Active(v)
  BY <1>2 DEF Active, Serves
<1> QED
  BY <1>1, <1>2

LEMMA MainVersion ==
    ASSUME Inv
    PROVE  /\ main \in {"fork", "close", "reap"} => version = 2
           /\ main = "create" => version = 3
BY DEF Inv, Types, Mains

LEMMA AcceptKeeps == Inv /\ Accept => Inv'
<1> SUFFICES ASSUME Inv, Accept PROVE Inv'
  OBVIOUS
<1> DEFINE f == Min(Free)
           c == Head(queue)
           x == Worker(f, c, "reading")
<1>1. Types /\ Mains /\ Held /\ version \in 1..4
  BY DEF Inv, Types
<1>2. f \in Free
  <2>1. Free # {}
    BY DEF Accept, Free
  <2> QED
    BY <2>1, LowestIsFree
<1>3. /\ main = "accept" /\ queue' = Tail(queue) /\ ClientSock' = f
      /\ fds' = [fds EXCEPT ![f] = c] /\ main' = AfterAccept
      /\ IF version \in {1, 4} THEN workers' = Append(workers, x) ELSE workers' = workers
      /\ overlap' = (overlap \/ Busy)
      /\ UNCHANGED <<version, got, toServer, toClient>>
  BY DEF Accept, Free, Starts, wires
<1>4. f \in Descriptors /\ fds[f] = None /\ c \in Clients /\ Tail(queue) \in Seq(Clients)
  <2>1. queue \in Seq(Clients) /\ queue # << >>
    BY DEF Accept, Inv, Types
  <2>2. f \in Descriptors /\ fds[f] = None
    BY <1>2 DEF Free
  <2> QED
    BY <2>1, <2>2
<1> HIDE DEF f, c
<1>5. /\ x \in WorkerType /\ x.fd = f /\ x.conn = c /\ x.text = None /\ x.stage = "reading"
  BY <1>4 DEF Worker, WorkerType, Stages
<1> HIDE DEF x
<1>6. /\ fds' \in [Descriptors -> Clients \cup {None}] /\ fds'[f] = c
      /\ \A d \in Descriptors : d # f => fds'[d] = fds[d]
  BY <1>1, <1>3, <1>4 DEF Types
<1>7. version \in {1, 4} =>
        /\ workers' \in Seq(WorkerType) /\ Len(workers') \notin DOMAIN workers
        /\ DOMAIN workers' = DOMAIN workers \cup {Len(workers')}
        /\ workers'[Len(workers')] = x
        /\ \A v \in DOMAIN workers : workers'[v] = workers[v]
  BY <1>1, <1>3, <1>5, OneStarts DEF Types
<1>8. Types'
  <2>1. CASE version \in {1, 4}
    BY <1>1, <1>3, <1>4, <1>5, <1>6, <1>7, <2>1 DEF Types
  <2>2. CASE version \notin {1, 4}
    BY <1>1, <1>3, <1>4, <1>6, <2>2 DEF Types
  <2> QED
    BY <2>1, <2>2
<1>9. Mains'
  BY <1>1, <1>3 DEF Mains, AfterAccept
<1>10. Clear' => Clear /\ (version = 3 => ~Busy)
  BY <1>3 DEF Clear
<1>11. ASSUME Clear, version = 3 => ~Busy, version # 2, NEW v \in DOMAIN workers PROVE ~Active(v)
  <2>1. CASE version = 3
    BY <1>11, <2>1 DEF Busy, Active
  <2>2. CASE version # 3
    BY <1>1, <1>3, <1>11, <2>2 DEF Inv, Served, Alone
  <2> QED
    BY <2>1, <2>2
<1>12. ASSUME Clear' PROVE Own' /\ Alone' /\ \A v \in DOMAIN workers' : Serves(v)'
  <2>1. Clear /\ \A v \in DOMAIN workers : version = 2 \/ ~Active(v)
    BY <1>10, <1>11, <1>12
  <2>2. Own'
    BY <1>3, <2>1 DEF Inv, Served, Own
  <2>3. ASSUME NEW v \in DOMAIN workers PROVE workers'[v] = workers[v]
    BY <1>3, <1>7
  <2>4. ASSUME NEW v \in DOMAIN workers PROVE Serves(v)'
    BY <1>3, <2>1, <2>3, ServedStill
  <2>5. CASE version \in {1, 4}
    <3>1. ASSUME NEW v \in DOMAIN workers', v \notin DOMAIN workers PROVE Serves(v)'
      <4>1. workers'[v] = x
        BY <1>7, <2>5, <3>1
      <4>2. ConnOf(v)' = c
        BY <1>3, <1>4, <1>5, <1>6, <2>5, <4>1, DescriptorFacts DEF ConnOf, Connection
      <4> QED
        BY <1>4, <1>5, <4>1, <4>2 DEF Serves
    <3>2. Alone'
      BY <1>3, <1>7, <2>1, <2>3, <2>5 DEF Alone, Active, AfterAccept
    <3> QED
      BY <1>7, <2>2, <2>4, <2>5, <3>1, <3>2
  <2>6. CASE version \notin {1, 4}
    BY <1>3, <2>1, <2>2, <2>4, <2>6 DEF Alone, Active
  <2> QED
    BY <2>5, <2>6
<1>13. Held'
  <2>1. CASE version = 2
    BY <1>1, <1>3, <1>4, <1>6, <2>1, DescriptorFacts DEF Held, AfterAccept
  <2>2. CASE version = 4
    <3>1. \A v \in DOMAIN workers : ~Active(v) /\ workers'[v] = workers[v]
      BY <1>7, <1>11, <2>2 DEF Clear
    <3>2. \A v \in DOMAIN workers' : Active(v)' => workers'[v].fd = ClientSock' /\ ClientSock' # None
      BY <1>3, <1>4, <1>5, <1>7, <2>2, <3>1, DescriptorFacts DEF Active
    <3>3. main' = "serving"
      BY <1>3, <2>2 DEF AfterAccept
    <3> QED
      BY <1>1, <1>3, <1>6, <2>2, <3>2, <3>3 DEF Held
  <2>3. CASE version \notin {2, 4}
    BY <1>3, <2>3 DEF Held
  <2> QED
    BY <2>1, <2>2, <2>3
<1> QED
  BY <1>8, <1>9, <1>12, <1>13 DEF Inv, Served

LEMMA AcceptFailsKeeps == Inv /\ AcceptFails => Inv'
<1> SUFFICES ASSUME Inv, AcceptFails PROVE Inv'
  OBVIOUS
<1>1. /\ version \in {1, 3} /\ main = "accept" /\ main' \in {"accept", "end"}
      /\ version = 3 => main' = "accept"
      /\ UNCHANGED <<version, workers, got, overlap, toServer, toClient>>
  BY DEF AcceptFails, wires
<1>2. Types'
  <2>1. /\ queue' \in Seq(Clients) /\ fds' \in [Descriptors -> Clients \cup {None}]
        /\ ClientSock' \in Descriptors \cup {None}
    <3>1. CASE version = 1
      <4>1. /\ queue' = << >> /\ fds' = [d \in Descriptors |-> None]
            /\ ClientSock' = ClientSock
        BY <3>1 DEF AcceptFails
      <4> QED
        BY <4>1 DEF Inv, Types
    <3>2. CASE version = 3
      BY <3>2 DEF Inv, Types, AcceptFails
    <3> QED
      BY <1>1, <3>1, <3>2
  <2> QED
    BY <1>1, <2>1 DEF Inv, Types
<1>3. Mains' /\ Held' /\ (Clear' <=> Clear)
  BY <1>1 DEF Mains, Held, Clear
<1>4. ASSUME Clear PROVE Own' /\ Alone' /\ \A v \in DOMAIN workers' : Serves(v)'
  <2>1. Own' /\ Alone'
    BY <1>1, <1>4 DEF Inv, Served, Own, Alone, Active
  <2>2. CASE version = 1
    <3>1. \A v \in DOMAIN workers : ~Active(v)
      BY <1>1, <1>4, <2>2 DEF Inv, Served, Alone
    <3> QED
      BY <1>1, <1>4, <2>1, <3>1, ServedStill
  <2>3. CASE version = 3
    <3>1. UNCHANGED fds
      BY <2>3 DEF AcceptFails
    <3> QED
      BY <1>1, <1>4, <2>1, <3>1 DEF Inv, Served, Serves, ConnOf, Connection
  <2> QED
    BY <1>1, <2>2, <2>3
<1> QED
  BY <1>2, <1>3, <1>4 DEF Inv, Served

(* A worker is started, or the call fails.                                   *)
LEMMA StartKeeps ==
    ASSUME Inv, NEW x \in WorkerType, x.text = None,
           \/ main = "fork" /\ x.stage = "reading" /\ x.conn \in Clients
           \/ main = "create" /\ x.stage = "start",
           workers' = Append(workers, x) \/ workers' = workers,
           UNCHANGED <<version, queue, got, overlap, ClientSock, fds, toServer, toClient>>
    PROVE  Types' /\ (Clear => Own' /\ \A v \in DOMAIN workers' : Serves(v)')
           /\ (Clear /\ version # 2 => \A v \in DOMAIN workers' : Active(v)' => v = Len(workers'))
<1>1. Types /\ (main = "fork" => version = 2) /\ (main = "create" => version = 3)
  BY MainVersion DEF Inv
<1>2. ASSUME Clear PROVE Own' /\ \A v \in DOMAIN workers : version = 2 \/ ~Active(v)
  BY <1>1, <1>2 DEF Inv, Served, Own, Alone
<1>3. CASE workers' = workers
  <2>1. Types'
    BY <1>1, <1>3 DEF Types
  <2>2. ASSUME Clear, NEW v \in DOMAIN workers' PROVE Serves(v)'
    BY <1>2, <1>3, <2>2, ServedStill
  <2>3. ASSUME Clear, version # 2, NEW v \in DOMAIN workers' PROVE ~Active(v)'
    BY <1>2, <1>3, <2>3 DEF Active
  <2> QED
    BY <1>2, <2>1, <2>2, <2>3
<1>4. CASE workers' = Append(workers, x)
  <2>1. /\ workers' \in Seq(WorkerType) /\ Len(workers') \notin DOMAIN workers
        /\ DOMAIN workers' = DOMAIN workers \cup {Len(workers')}
        /\ workers'[Len(workers')] = x
        /\ \A v \in DOMAIN workers : workers'[v] = workers[v]
    BY <1>1, <1>4, OneStarts DEF Types
  <2>2. Types'
    BY <1>1, <2>1 DEF Types
  <2>3. ASSUME Clear, NEW v \in DOMAIN workers', v \in DOMAIN workers PROVE Serves(v)'
    BY <1>2, <2>1, <2>3, ServedStill
  <2>4. ASSUME NEW v \in DOMAIN workers', v \notin DOMAIN workers PROVE Serves(v)'
    <3>1. workers'[v] = x
      BY <2>1, <2>4
    <3>2. version = 2 => ConnOf(v)' = x.conn
      BY <3>1 DEF ConnOf
    <3> QED
      BY <1>1, <3>1, <3>2 DEF Serves
  <2>5. ASSUME Clear, version # 2, NEW v \in DOMAIN workers', Active(v)' PROVE v = Len(workers')
    BY <1>2, <2>1, <2>5 DEF Active
  <2> QED
    BY <1>2, <2>2, <2>3, <2>4, <2>5
<1> QED
  BY <1>3, <1>4

LEMMA ForkKeeps == Inv /\ Fork => Inv'
<1> SUFFICES ASSUME Inv, Fork PROVE Inv'
  OBVIOUS
<1> DEFINE x == Worker(ClientSock, fds[ClientSock], "reading")
<1>1. /\ main = "fork" /\ main' = "close" /\ version = 2
      /\ UNCHANGED <<version, queue, got, overlap, ClientSock, fds, toServer, toClient>>
  BY MainVersion DEF Fork, rest, wires
<1>2. workers' = Append(workers, x) \/ workers' = workers
  BY DEF Fork, Starts, Fails
<1>3. ClientSock \in Descriptors /\ fds[ClientSock] \in Clients
  BY <1>1 DEF Inv, Held, Types
<1>4. x \in WorkerType /\ x.text = None /\ x.stage = "reading" /\ x.conn \in Clients
  BY <1>3 DEF Worker, WorkerType, Stages
<1> HIDE DEF x
<1>5. Types' /\ (Clear => Own' /\ \A v \in DOMAIN workers' : Serves(v)')
  BY <1>1, <1>2, <1>4, StartKeeps
<1>6. Mains' /\ Alone' /\ (Clear' <=> Clear)
  BY <1>1 DEF Mains, Alone, Clear
<1>7. Held'
  BY <1>1 DEF Inv, Held
<1> QED
  BY <1>5, <1>6, <1>7 DEF Inv, Served

LEMMA CreateThreadKeeps == Inv /\ CreateThread => Inv'
<1> SUFFICES ASSUME Inv, CreateThread PROVE Inv'
  OBVIOUS
<1> DEFINE x == Worker(None, None, "start")
<1>1. /\ main = "create" /\ main' = "accept" /\ version = 3
      /\ UNCHANGED <<version, queue, got, overlap, ClientSock, fds, toServer, toClient>>
  BY MainVersion DEF CreateThread, rest, wires
<1>2. workers' = Append(workers, x) \/ workers' = workers
  BY DEF CreateThread, Starts, Fails
<1>3. x \in WorkerType /\ x.text = None /\ x.stage = "start"
  BY DEF Worker, WorkerType, Stages
<1> HIDE DEF x
<1>4. /\ Types' /\ (Clear => Own' /\ \A v \in DOMAIN workers' : Serves(v)')
      /\ (Clear => \A v \in DOMAIN workers' : Active(v)' => v = Len(workers'))
  BY <1>1, <1>2, <1>3, StartKeeps
<1>5. Mains' /\ Held' /\ (Clear' <=> Clear)
  BY <1>1 DEF Mains, Held, Clear
<1>6. Clear => Alone'
  BY <1>1, <1>4 DEF Alone
<1> QED
  BY <1>4, <1>5, <1>6 DEF Inv, Served

LEMMA CloseParentKeeps == Inv /\ CloseParent => Inv'
<1> SUFFICES ASSUME Inv, CloseParent PROVE Inv'
  OBVIOUS
<1>1. /\ main = "close" /\ main' = "reap" /\ version = 2
      /\ fds' = [fds EXCEPT ![ClientSock] = None]
      /\ UNCHANGED <<version, queue, got, overlap, ClientSock, workers, toServer, toClient>>
  BY MainVersion DEF CloseParent, rest, wires
<1>2. Types'
  <2>1. fds' \in [Descriptors -> Clients \cup {None}]
    BY <1>1 DEF Inv, Types
  <2> QED
    BY <1>1, <2>1 DEF Inv, Types
<1>3. Mains' /\ Alone' /\ (Clear' <=> Clear)
  BY <1>1 DEF Mains, Alone, Clear
<1>4. ASSUME Clear PROVE Own' /\ \A v \in DOMAIN workers' : Serves(v)'
  BY <1>1, <1>4, ServedStill DEF Inv, Served, Own
<1>5. Held'
  <2>1. \A d \in Descriptors : fds'[d] = None
    BY <1>1 DEF Inv, Held, Types
  <2> QED
    BY <1>1, <2>1 DEF Held
<1> QED
  BY <1>2, <1>3, <1>4, <1>5 DEF Inv, Served

LEMMA ReapKeeps == Inv /\ (WaitPid \/ AllReaped) => Inv'
<1> SUFFICES ASSUME Inv, WaitPid \/ AllReaped PROVE Inv'
  OBVIOUS
<1>1. /\ main = "reap" /\ main' \in {"reap", "accept"} /\ version = 2
      /\ UNCHANGED <<version, queue, got, overlap, ClientSock, fds, toServer, toClient>>
  BY MainVersion DEF WaitPid, AllReaped, rest, wires
<1>2. Mains' /\ Alone' /\ (Clear' <=> Clear)
  BY <1>1 DEF Mains, Alone, Clear
<1>3. Held'
  BY <1>1 DEF Inv, Held
<1>4. CASE workers' = workers
  <2>1. Types'
    BY <1>1, <1>4 DEF Inv, Types
  <2>2. ASSUME Clear PROVE Own' /\ \A v \in DOMAIN workers' : Serves(v)'
    BY <1>1, <1>4, <2>2, ServedStill DEF Inv, Served, Own
  <2> QED
    BY <1>2, <1>3, <2>1, <2>2 DEF Inv, Served
<1>5. ASSUME NEW w \in Exited, workers' = [workers EXCEPT ![w].stage = "reaped"]
      PROVE  Inv'
  <2> DEFINE x == [workers[w] EXCEPT !.stage = "reaped"]
  <2>1. w \in DOMAIN workers /\ workers[w] \in WorkerType
    BY <1>5, ConnectionOfWorker DEF Inv, Exited
  <2>2. x \in WorkerType /\ x.stage = "reaped"
    BY <2>1 DEF WorkerType, Stages
  <2>3. workers' = [workers EXCEPT ![w] = x]
    BY <1>5
  <2> HIDE DEF x
  <2>4. /\ workers' \in Seq(WorkerType) /\ DOMAIN workers' = DOMAIN workers
        /\ workers'[w] = x /\ \A v \in DOMAIN workers : v # w => workers'[v] = workers[v]
    BY <2>1, <2>2, <2>3, OneChanges DEF Inv, Types
  <2>5. Types'
    BY <1>1, <2>2, <2>4 DEF Inv, Types
  <2>6. ASSUME Clear PROVE Own' /\ \A v \in DOMAIN workers' : Serves(v)'
    <3>1. Serves(w)'
      BY <2>2, <2>4 DEF Serves
    <3>2. ASSUME NEW v \in DOMAIN workers, v # w PROVE Serves(v)'
      BY <1>1, <2>4, <2>6, <3>2, ServedStill
    <3> QED
      BY <1>1, <2>4, <2>6, <3>1, <3>2 DEF Inv, Served, Own
  <2> QED
    BY <1>2, <1>3, <2>5, <2>6 DEF Inv, Served
<1> QED
  BY <1>4, <1>5 DEF WaitPid, AllReaped
-----------------------------------------------------------------------------

LEMMA NextInv == Inv /\ [Next]_vars => Inv'
<1> SUFFICES ASSUME Inv, [Next]_vars PROVE Inv'
  OBVIOUS
<1>1. CASE ServerMain
  BY <1>1, AcceptKeeps, AcceptFailsKeeps, ForkKeeps, CloseParentKeeps, ReapKeeps, CreateThreadKeeps
     DEF ServerMain
<1>2. ASSUME NEW w \in DOMAIN workers, WorkerNext(w) PROVE Inv'
  BY <1>2, ThreadMainKeeps, ReadCalledKeeps, ReadReturnsKeeps, WriteKeeps, CloseKeeps DEF WorkerNext
<1>3. ASSUME NEW c \in Clients, ClientNext(c) \/ Interrupt(c) PROVE Inv'
  BY <1>3, ClientKeeps
<1>4. CASE UNCHANGED vars
  <2>1. UNCHANGED <<version, main, ClientSock, fds, workers, queue, toServer, toClient, got, overlap>>
    BY <1>4 DEF vars, server, wires
  <2> QED
    BY <2>1 DEF Inv, Types, Mains, Held, Served, Clear, Own, Alone, Serves, Active, ConnOf, Connection
<1> QED
  BY <1>1, <1>2, <1>3, <1>4 DEF Next

LEMMA EchoInv == Spec => []Inv
BY InitInv, NextInv, PTL DEF Spec

(* Each of the servers answers a client with the client's own message, the   *)
(* one with threads as long as it serves one client at a time.               *)
THEOREM AnswersAreOwn == Spec => []OwnEcho
<1>1. Inv => OwnEcho
  BY DEF Inv, Served, Clear, Own, OwnEcho
<1> QED
  BY <1>1, EchoInv, PTL

(* The servers that fork or select hold no descriptor of a client when they  *)
(* accept the next, whichever calls fail.                                    *)
THEOREM DescriptorsComeBack == Spec => []NoLeak
<1>1. Inv => NoLeak
  BY DEF Inv, Held, NoLeak
<1> QED
  BY <1>1, EchoInv, PTL
=============================================================================
