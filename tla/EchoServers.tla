---------------------------- MODULE EchoServers -----------------------------
(***************************************************************************)
(* The echo servers of lab1 and their client.  Version 1 serves one client  *)
(* after the other, version 2 forks a child for each, version 3 creates a   *)
(* thread for each and gives it the address of the variable ClientSock,     *)
(* version 4 waits with select() and serves the client it accepts.          *)
(*                                                                         *)
(* What serves a client is a worker: the process itself in versions 1 and   *)
(* 4, a child in version 2, a thread in version 3.  A client's message is   *)
(* the client's own name; descriptors are numbers that accept() reuses.     *)
(***************************************************************************)
EXTENDS Integers, Sequences, FiniteSets, FiniteSetsExt

CONSTANTS
    Clients,
    Versions,       \* the servers that are looked at
    MaxFds,         \* bound: descriptors accept() may return
    MaxFailures,    \* bound: calls of fork() and pthread_create() that fail
    Silents         \* bound: clients whose message may be ""

ASSUME EchoConstants ==
    /\ Clients \subseteq Nat \ {0} /\ IsFiniteSet(Clients) /\ Silents \subseteq Clients
    /\ Versions \subseteq 1..4
    /\ MaxFds \in Nat \ {0} /\ MaxFailures \in Nat

VARIABLES
    version, silent,   \* which server runs, and who sends ""
    main,              \* what main() does
    ClientSock,        \* the variable of that name, client_fd, Socket_fd
    fds,               \* the client each descriptor of the server is connected to
    workers,           \* in the order they were started
    ChildCounter,
    failures,          \* calls that failed so far
    queue,             \* connections not accepted yet
    client,            \* what each client does
    toServer, toClient,   \* what is on the way on each connection
    got,               \* what the client was answered
    overlap            \* history: a client was accepted while one was served

server == <<main, ClientSock, fds, workers, ChildCounter, failures>>
wires == <<toServer, toClient>>
rest == <<version, silent, queue, client, got, overlap>>
vars == <<version, silent, server, queue, client, wires, got, overlap>>

\* No client, no descriptor, no text.
None == 0
EndOfFile == -1
Descriptors == 1..MaxFds

\* The server listens: CreateTCPServerSocket(), the first part of main().
Init ==
    /\ version \in Versions /\ silent \in SUBSET Silents
    /\ main = "accept" /\ ClientSock = None /\ fds = [d \in Descriptors |-> None]
    /\ workers = << >> /\ ChildCounter = 0 /\ failures = 0
    /\ queue = << >>
    /\ client = [c \in Clients |-> "start"]
    /\ toServer = [c \in Clients |-> << >>] /\ toClient = [c \in Clients |-> << >>]
    /\ got = [c \in Clients |-> None]
    /\ overlap = FALSE

Busy == \E w \in DOMAIN workers : workers[w].stage \notin {"exited", "reaped"}

Worker(fd, conn, stage) == [fd |-> fd, conn |-> conn, text |-> None, stage |-> stage]
Starts(worker) == workers' = Append(workers, worker)

\* After a client is accepted.
AfterAccept == CASE version = 1 -> "serving" [] version = 4 -> "serving"
                 [] version = 2 -> "fork"    [] version = 3 -> "create"

\* accept() takes the lowest descriptor that is free.
Accept ==
    LET free == {d \in Descriptors : fds[d] = None}
        c == Head(queue)
    IN  /\ main = "accept" /\ queue # << >> /\ free # {}
        /\ queue' = Tail(queue)
        /\ ClientSock' = Min(free)
        /\ fds' = [fds EXCEPT ![Min(free)] = c]
        /\ main' = AfterAccept
        /\ IF version \in {1, 4} THEN Starts(Worker(Min(free), c, "reading")) ELSE UNCHANGED workers
        /\ overlap' = (overlap \/ Busy)
        /\ UNCHANGED <<version, silent, ChildCounter, failures, client, wires, got>>

\* There is no descriptor left.  The first server ends; the one with threads
\* puts -1 into ClientSock and tries again; the others never get here (NoLeak).
AcceptFails ==
    /\ main = "accept" /\ None \notin {fds[d] : d \in Descriptors}
    /\ \/ /\ version = 1 /\ main' = "end"
          /\ queue' = << >> /\ fds' = [d \in Descriptors |-> None] /\ UNCHANGED ClientSock
       \/ /\ version = 3 /\ ClientSock # None /\ ClientSock' = None
          /\ UNCHANGED <<main, queue, fds>>
    /\ UNCHANGED <<version, silent, workers, ChildCounter, failures, client, wires, got, overlap>>

Fails == failures < MaxFailures /\ failures' = failures + 1 /\ UNCHANGED workers

Fork ==
    /\ main = "fork" /\ main' = "close"
    /\ \/ Starts(Worker(ClientSock, fds[ClientSock], "reading")) /\ UNCHANGED failures
       \/ Fails
    /\ UNCHANGED <<rest, ClientSock, fds, ChildCounter, wires>>

\* Mutant: the parent keeps the client's socket.
CloseParent_Keeps ==
    /\ main = "close" /\ main' = "reap"
    /\ ChildCounter' = ChildCounter + 1
    /\ UNCHANGED <<rest, ClientSock, fds, workers, failures, wires>>

\* The child is counted even if fork() failed.
CloseParent ==
    /\ main = "close" /\ main' = "reap"
    /\ fds' = [fds EXCEPT ![ClientSock] = None]
    /\ ChildCounter' = ChildCounter + 1
    /\ UNCHANGED <<rest, ClientSock, workers, failures, wires>>

Exited == {w \in DOMAIN workers : workers[w].stage = "exited"}

\* Mutant: waitpid() waits for a child.
WaitPid_Blocks ==
    /\ main = "reap" /\ ChildCounter > 0
    /\ \E w \in Exited :
        /\ workers' = [workers EXCEPT ![w].stage = "reaped"]
        /\ ChildCounter' = ChildCounter - 1 /\ UNCHANGED main
    /\ UNCHANGED <<rest, ClientSock, fds, failures, wires>>

\* A child that has ended is waited for; with children that run the server goes
\* on, and with none, when a fork() has failed, it asks again for ever.
WaitPid ==
    /\ main = "reap" /\ ChildCounter > 0
    /\ IF Exited # {}
       THEN \E w \in Exited :
            /\ workers' = [workers EXCEPT ![w].stage = "reaped"]
            /\ ChildCounter' = ChildCounter - 1 /\ UNCHANGED main
       ELSE Busy /\ main' = "accept" /\ UNCHANGED <<workers, ChildCounter>>
    /\ UNCHANGED <<rest, ClientSock, fds, failures, wires>>

AllReaped ==
    /\ main = "reap" /\ ChildCounter = 0 /\ main' = "accept"
    /\ UNCHANGED <<rest, ClientSock, fds, workers, ChildCounter, failures, wires>>

\* After sleep(3).  The thread is given the address of ClientSock.
CreateThread ==
    /\ main = "create" /\ main' = "accept"
    /\ \/ Starts(Worker(None, None, "start")) /\ UNCHANGED failures
       \/ Fails
    /\ UNCHANGED <<rest, ClientSock, fds, ChildCounter, wires>>

ServerMain ==
    Accept \/ AcceptFails \/ Fork \/ CloseParent \/ WaitPid \/ AllReaped \/ CreateThread
-----------------------------------------------------------------------------
\* What a descriptor of the server stands for now.
Connection(fd) == IF fd = None THEN None ELSE fds[fd]

\* Mutant: a child uses the descriptors of its parent.
ConnOf_Shared(w) == Connection(workers[w].fd)

\* The connection a worker's descriptor stands for: a child has its own table.
ConnOf(w) == IF version = 2 THEN workers[w].conn ELSE Connection(workers[w].fd)

At(w, stage) == main # "end" /\ workers[w].stage = stage
Goes(w, stage) == workers' = [workers EXCEPT ![w].stage = stage]

ThreadMain(w) ==
    /\ At(w, "start")
    /\ workers' = [workers EXCEPT ![w].stage = "read", ![w].fd = ClientSock]
    /\ UNCHANGED <<rest, main, ClientSock, fds, ChildCounter, failures, wires>>

\* A thread: read() goes on with the connection the descriptor stands for now, or fails.
ReadCalled(w) ==
    /\ At(w, "read")
    /\ workers' = [workers EXCEPT ![w].conn = ConnOf(w),
                                  ![w].stage = IF ConnOf(w) = None THEN "write" ELSE "reading"]
    /\ UNCHANGED <<rest, main, ClientSock, fds, ChildCounter, failures, wires>>

\* The message, or nothing at the end of the connection.
ReadReturns(w) ==
    LET c == workers[w].conn
    IN  /\ At(w, "reading")
        /\ IF toServer[c] # << >>
           THEN /\ workers' = [workers EXCEPT ![w].stage = "write", ![w].text = Head(toServer[c])]
                /\ toServer' = [toServer EXCEPT ![c] = Tail(@)]
           ELSE client[c] = "done" /\ Goes(w, "write") /\ UNCHANGED toServer
        /\ UNCHANGED <<rest, main, ClientSock, fds, ChildCounter, failures, toClient>>

Write(w) ==
    LET c == ConnOf(w)
    IN  /\ At(w, "write") /\ Goes(w, "close")
        /\ toClient' = IF None \in {c, workers[w].text} THEN toClient
                       ELSE [toClient EXCEPT ![c] = Append(@, workers[w].text)]
        /\ UNCHANGED <<rest, main, ClientSock, fds, ChildCounter, failures, toServer>>

\* The first server leaves the socket open.  A thread closes what has the
\* number now.
Close(w) ==
    /\ At(w, "close") /\ Goes(w, "exited")
    /\ fds' = IF version \in {1, 2} \/ workers[w].fd = None THEN fds
              ELSE [fds EXCEPT ![workers[w].fd] = None]
    /\ main' = IF version \in {1, 4} THEN "accept" ELSE main
    /\ UNCHANGED <<rest, ClientSock, ChildCounter, failures, wires>>

WorkerNext(w) == ThreadMain(w) \/ ReadCalled(w) \/ ReadReturns(w) \/ Write(w) \/ Close(w)
-----------------------------------------------------------------------------
Connect(c) ==
    /\ client[c] = "start" /\ main # "end"
    /\ client' = [client EXCEPT ![c] = "connected"]
    /\ queue' = Append(queue, c)
    /\ UNCHANGED <<version, silent, server, wires, got, overlap>>

Send(c) ==
    /\ client[c] = "connected"
    /\ client' = [client EXCEPT ![c] = "waiting"]
    /\ toServer' = IF c \in silent THEN toServer ELSE [toServer EXCEPT ![c] = Append(@, c)]
    /\ UNCHANGED <<version, silent, server, queue, toClient, got, overlap>>

\* The server has the connection, or will have it.
Open(c) ==
    \/ c \in {fds[d] : d \in Descriptors} \cup {queue[i] : i \in DOMAIN queue}
    \/ \E w \in DOMAIN workers :
        /\ workers[w].conn = c
        /\ \/ workers[w].stage = "reading"
           \/ version = 2 /\ workers[w].stage \in {"write", "close"}

\* The client writes the answer, without its last character, to its socket
\* again (nothing, if that was all) and closes it.
Receive(c) ==
    /\ client[c] = "waiting"
    /\ IF toClient[c] # << >>
       THEN /\ got' = [got EXCEPT ![c] = Head(toClient[c])]
            /\ toClient' = [toClient EXCEPT ![c] = Tail(@)]
            /\ \/ UNCHANGED toServer
               \/ Open(c) /\ toServer' = [toServer EXCEPT ![c] = Append(@, Head(toClient[c]))]
       ELSE /\ ~Open(c) \/ main = "end"
            /\ got' = [got EXCEPT ![c] = EndOfFile]
            /\ UNCHANGED wires
    /\ client' = [client EXCEPT ![c] = "done"]
    /\ UNCHANGED <<version, silent, server, queue, overlap>>

\* Who is not answered interrupts the program.
Interrupt(c) ==
    /\ c \in silent /\ client[c] = "waiting"
    /\ client' = [client EXCEPT ![c] = "done"]
    /\ UNCHANGED <<version, silent, server, queue, wires, got, overlap>>

ClientNext(c) == Connect(c) \/ Send(c) \/ Receive(c)

Next ==
    \/ ServerMain
    \/ \E w \in DOMAIN workers : WorkerNext(w)
    \/ \E c \in Clients : ClientNext(c) \/ Interrupt(c)

\* Each process and thread runs as long as it can.
Spec ==
    /\ Init /\ [][Next]_vars
    /\ WF_vars(ServerMain)
    /\ \A w \in 1..Cardinality(Clients) : WF_vars(w \in DOMAIN workers /\ WorkerNext(w))
    /\ \A c \in Clients : WF_vars(Send(c) \/ Receive(c))
-----------------------------------------------------------------------------

\* A client is answered with its own message, by the server with threads as
\* long as no client is accepted while another is served
\* (TCPServer_v3.c:72-74 and 93-115: later threads read the same variable, and
\* use and close descriptors that stand for other clients by then).
OwnEcho ==
    ~(version = 3 /\ overlap) => \A c \in Clients : got[c] \in {None, EndOfFile, c}

\* The servers that fork or select hold the descriptor of one client at most
\* while they accept the next: they never run out (TCPServer_v2.c:103,
\* TCPServer_v4.c:144); the first server does (TCPServer_v1.c:80-105).
NoLeak == version \in {2, 4} /\ main = "accept" => \A d \in Descriptors : fds[d] = None

\* What keeps a server from answering: a call failed or the server has ended;
\* the one client at a time that versions 1 and 4 serve says nothing; or the
\* threads of version 3 mix up their clients.
Hindered ==
    \/ failures > 0 \/ main = "end"
    \/ version \in {1, 4} /\ \E w \in DOMAIN workers : At(w, "reading") /\ workers[w].conn \in silent
    \/ version = 3 /\ overlap

\* Otherwise each client that has sent its message is answered with it: also
\* while the children of version 2 wait for clients that say nothing.
EchoComes ==
    \A c \in Clients : client[c] = "waiting" /\ c \notin silent ~> got[c] = c \/ Hindered
=============================================================================
