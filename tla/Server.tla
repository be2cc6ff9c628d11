------------------------------- MODULE Server -------------------------------
(***************************************************************************)
(* The server process and its clients: the accept thread, one thread per   *)
(* connection, the blocking exchange of WireInfo, the end of a client, and *)
(* the server's shutdown (run_server, server_sock_thread_main and          *)
(* server_conn_main of src/kv_bench.cpp, UrmaManager::Exchange).           *)
(*                                                                         *)
(* A socket is what either end has written and whether it is closed.  A    *)
(* client may also die, which closes its socket at any time.               *)
(***************************************************************************)
EXTENDS Integers, FiniteSets

CONSTANTS
  Client,          (* client processes; each connects at most once *)
  NoClient,
  MAX_CLIENT_CNT,  (* size of conns                                *)
  Sizes,           (* values of --send-size; 0 is a peer that does not set it *)
  serverSize       (* --send-size of the server                    *)

ASSUME TableAssumption == MAX_CLIENT_CNT \in Nat \ {0}
ASSUME ClientAssumption == NoClient \notin Client
ASSUME SizeAssumption == Sizes \subseteq Nat /\ serverSize \in Sizes

Slot == 1 .. MAX_CLIENT_CNT

VARIABLES
  main,         (* run_server: "getchar", "acceptor", "conns", "exit" *)
  server_stop,
  joining,      (* index of the loop that joins the connection threads     *)
  acceptor,     (* "accept", "place" or "returned"                         *)
  accepted,     (* the client whose fd the accept thread holds             *)
  used,         (* conns[i].used                                           *)
  peer,         (* the client at the other end of conns[i].fd              *)
  thread,       (* conns[i].tid: where its thread is                       *)
  imported,     (* slots whose conns[i].conn holds imported objects        *)
  client,       (* "out", "exchange", "run", "bye" or "closed"             *)
  size,         (* the client's --send-size                                *)
  said,         (* clients whose 'E' is in the socket                      *)
  awaited,      (* history: clients whose end the server has begun to wait for *)
  greeted,      (* clients to which the server has written its WireInfo    *)
  hungup        (* clients whose socket the server's side has closed       *)

serverVars == <<main, server_stop, joining, acceptor, accepted, used, peer, thread,
                imported, awaited, greeted, hungup>>
clientVars == <<client, size, said>>
vars == <<serverVars, clientVars>>

Init ==
  /\ main = "getchar" /\ server_stop = FALSE /\ joining = 1
  /\ acceptor = "accept" /\ accepted = NoClient
  /\ used = {}
  /\ peer = [i \in Slot |-> NoClient]
  /\ thread = [i \in Slot |-> "none"]
  /\ imported = {}
  /\ client = [c \in Client |-> "out"]
  /\ size \in [Client -> Sizes]
  /\ said = {} /\ awaited = {} /\ greeted = {} /\ hungup = {}

\* The check of Exchange; a size of 0 is not compared.
SizesMatch(a, b) == a = 0 \/ b = 0 \/ a = b
-----------------------------------------------------------------------------
(***************************************************************************)
(* A client: connect, Exchange, run, 'E', close.                           *)
(***************************************************************************)
Become(c, stage) == client' = [client EXCEPT ![c] = stage]

\* connect succeeds as soon as the server listens, and SockSyncData writes the
\* client's WireInfo.
Connect(c) ==
  /\ client[c] = "out" /\ main # "exit"
  /\ Become(c, "exchange")
  /\ UNCHANGED <<serverVars, size, said>>

\* SockSyncData has the server's WireInfo.  The size check or an import may
\* fail, and then the socket is closed.
ClientExchange(c) ==
  /\ client[c] = "exchange" /\ c \in greeted
  /\ \/ SizesMatch(size[c], serverSize) /\ Become(c, "run")
     \/ Become(c, "closed")
  /\ UNCHANGED <<serverVars, size, said>>

\* SockSyncData reads end of file: the server closed without a word.
ClientRefused(c) ==
  /\ client[c] = "exchange" /\ c \in hungup \ greeted
  /\ Become(c, "closed")
  /\ UNCHANGED <<serverVars, size, said>>

\* The workers are joined; 'E' is written and the socket closed.
SayBye(c) ==
  /\ client[c] = "run"
  /\ said' = said \cup {c}
  /\ Become(c, "bye")
  /\ UNCHANGED <<serverVars, size>>

CloseClient(c) ==
  /\ client[c] = "bye"
  /\ Become(c, "closed")
  /\ UNCHANGED <<serverVars, size, said>>

\* The process dies.
ClientDies(c) ==
  /\ client[c] \in {"exchange", "run"}
  /\ Become(c, "closed")
  /\ UNCHANGED <<serverVars, size, said>>
-----------------------------------------------------------------------------
(***************************************************************************)
(* The accept thread.                                                      *)
(***************************************************************************)
acceptVars == <<acceptor, accepted>>
connVars == <<used, peer, thread, imported, awaited, greeted, hungup>>
mainVars == <<main, server_stop, joining>>

Waiting == {c \in Client : /\ client[c] # "out" /\ c # accepted /\ c \notin hungup
                           /\ \A i \in Slot : peer[i] # c}

\* The head of the loop.
AcceptReturns ==
  /\ acceptor = "accept" /\ server_stop
  /\ acceptor' = "returned"
  /\ UNCHANGED <<accepted, connVars, mainVars, clientVars>>

Accept ==
  /\ acceptor = "accept" /\ ~server_stop
  /\ accepted' \in Waiting
  /\ acceptor' = "place"
  /\ UNCHANGED <<connVars, mainVars, clientVars>>

\* accept fails with anything but EAGAIN: the thread returns for good.
AcceptFails ==
  /\ acceptor = "accept" /\ ~server_stop
  /\ acceptor' = "returned"
  /\ UNCHANGED <<accepted, connVars, mainVars, clientVars>>

\* The first unused slot is wiped and given to a new thread.
PlaceConnection ==
  /\ acceptor = "place"
  /\ \E i \in Slot \ used :
       /\ \A j \in Slot \ used : i <= j
       /\ used' = used \cup {i}
       /\ peer' = [peer EXCEPT ![i] = accepted]
       /\ thread' = [thread EXCEPT ![i] = "exchange"]
       /\ imported' = imported \ {i}
  /\ acceptor' = "accept" /\ accepted' = NoClient
  /\ UNCHANGED <<awaited, greeted, hungup, mainVars, clientVars>>

\* No slot is free, or pthread_create fails.
Refuse ==
  /\ acceptor = "place"
  /\ hungup' = hungup \cup {accepted}
  /\ acceptor' = "accept" /\ accepted' = NoClient
  /\ UNCHANGED <<used, peer, thread, imported, awaited, greeted, mainVars, clientVars>>
-----------------------------------------------------------------------------
(***************************************************************************)
(* A connection thread.                                                    *)
(***************************************************************************)
At(i, from, to) == thread[i] = from /\ thread' = [thread EXCEPT ![i] = to]

\* SockSyncData writes before it reads.
Greet(i) ==
  /\ At(i, "exchange", "sync")
  /\ greeted' = greeted \cup {peer[i]}
  /\ UNCHANGED <<used, peer, imported, awaited, hungup, acceptVars, mainVars, clientVars>>

\* The rest of Exchange: the client's WireInfo has arrived with the
\* connection.  conn is assigned only when every import succeeded.
ServerExchange(i) ==
  /\ thread[i] = "sync"
  /\ \/ /\ SizesMatch(size[peer[i]], serverSize)
        /\ thread' = [thread EXCEPT ![i] = "loop"]
        /\ imported' = imported \cup {i}
     \/ thread' = [thread EXCEPT ![i] = "out"] /\ UNCHANGED imported
  /\ UNCHANGED <<used, peer, awaited, greeted, hungup, acceptVars, mainVars, clientVars>>

\* while (!ctx->server_stop)
LoopTest(i) ==
  /\ At(i, "loop", IF server_stop THEN "out" ELSE "read")
  /\ awaited' = IF server_stop THEN awaited ELSE awaited \cup {peer[i]}
  /\ UNCHANGED <<used, peer, imported, greeted, hungup, acceptVars, mainVars, clientVars>>

\* Mutant: the read gives up when there is nothing to read.
ReadNonblocking(i) ==
  /\ thread[i] = "read"
  /\ At(i, "read", IF client[peer[i]] = "closed" THEN "out" ELSE "loop")
  /\ UNCHANGED <<used, peer, imported, awaited, greeted, hungup, acceptVars, mainVars, clientVars>>

\* The blocking read returns the 'E' first, then end of file.
Read(i) ==
  /\ thread[i] = "read"
  /\ \/ peer[i] \in said /\ At(i, "read", "loop")
     \/ peer[i] \notin said /\ client[peer[i]] = "closed" /\ At(i, "read", "out")
  /\ said' = said \ {peer[i]}
  /\ UNCHANGED <<used, peer, imported, awaited, greeted, hungup, acceptVars, mainVars, client, size>>

\* out: conn.reset(), close(fd), used = false, in this order.
ResetConnection(i) ==
  /\ At(i, "out", "close")
  /\ imported' = imported \ {i}
  /\ UNCHANGED <<used, peer, awaited, greeted, hungup, acceptVars, mainVars, clientVars>>

\* Mutant: the slot is given up together with the socket.
CloseSocketAndSlot(i) ==
  /\ At(i, "close", "unused")
  /\ hungup' = hungup \cup {peer[i]}
  /\ used' = used \ {i}
  /\ UNCHANGED <<peer, imported, awaited, greeted, acceptVars, mainVars, clientVars>>

CloseSocket(i) ==
  /\ At(i, "close", "unused")
  /\ hungup' = hungup \cup {peer[i]}
  /\ UNCHANGED <<used, peer, imported, awaited, greeted, acceptVars, mainVars, clientVars>>

ClearUsed(i) ==
  /\ At(i, "unused", "ended")
  /\ used' = used \ {i}
  /\ UNCHANGED <<peer, imported, awaited, greeted, hungup, acceptVars, mainVars, clientVars>>

ConnThread(i) ==
  \/ Greet(i) \/ ServerExchange(i) \/ LoopTest(i) \/ Read(i)
  \/ ResetConnection(i) \/ CloseSocket(i) \/ ClearUsed(i)
-----------------------------------------------------------------------------
(***************************************************************************)
(* The main thread.                                                        *)
(***************************************************************************)
Enter ==
  /\ main = "getchar"
  /\ server_stop' = TRUE
  /\ main' = "acceptor"
  /\ UNCHANGED <<joining, acceptVars, connVars, clientVars>>

\* Mutant: the connection threads are joined while connections still arrive.
JoinAcceptorNot ==
  /\ main = "acceptor"
  /\ main' = "conns" /\ joining' = 1
  /\ UNCHANGED <<server_stop, acceptVars, connVars, clientVars>>

JoinAcceptor ==
  /\ main = "acceptor" /\ acceptor = "returned"
  /\ main' = "conns" /\ joining' = 1
  /\ UNCHANGED <<server_stop, acceptVars, connVars, clientVars>>

\* A thread is joined if its slot is in use when the loop gets there; a thread
\* that has just cleared used touches nothing any more.
JoinConnection ==
  /\ main = "conns" /\ joining <= MAX_CLIENT_CNT
  /\ joining \notin used \/ thread[joining] = "ended"
  /\ joining' = joining + 1
  /\ UNCHANGED <<main, server_stop, acceptVars, connVars, clientVars>>

\* Mutant: the listening socket stays open.
DestroyKeepsListening ==
  /\ main = "conns" /\ joining > MAX_CLIENT_CNT
  /\ main' = "exit"
  /\ UNCHANGED <<server_stop, joining, acceptVars, connVars, clientVars>>

\* close(listen_fd) resets the clients nobody accepted; destroy_context.
Destroy ==
  /\ main = "conns" /\ joining > MAX_CLIENT_CNT
  /\ main' = "exit"
  /\ hungup' = hungup \cup Waiting
  /\ UNCHANGED <<server_stop, joining, acceptVars, used, peer, thread, imported, awaited, greeted,
                 clientVars>>

AllOver == main = "exit" /\ (\A c \in Client : client[c] \in {"out", "closed"})
           /\ UNCHANGED vars

ServerStep ==
  \/ AcceptReturns \/ Accept \/ AcceptFails \/ PlaceConnection \/ Refuse
  \/ (\E i \in Slot : ConnThread(i))
  \/ Enter \/ JoinAcceptor \/ JoinConnection \/ Destroy

ClientStep(c) ==
  \/ ClientExchange(c) \/ ClientRefused(c) \/ SayBye(c) \/ CloseClient(c)

Next ==
  \/ ServerStep
  \/ \E c \in Client : Connect(c) \/ ClientStep(c) \/ ClientDies(c)
  \/ AllOver

Spec == Init /\ [][Next]_vars

\* Threads are scheduled, and a client ends its run: its workers stop when the
\* time is up.  Nobody has to press enter, connect or die.
FairSpec ==
  /\ Spec
  /\ WF_vars(AcceptReturns) /\ WF_vars(Accept) /\ WF_vars(PlaceConnection \/ Refuse)
  /\ WF_vars(JoinAcceptor) /\ WF_vars(JoinConnection) /\ WF_vars(Destroy)
  /\ \A i \in Slot : WF_vars(ConnThread(i))
  /\ \A c \in Client : WF_vars(ClientStep(c))
-----------------------------------------------------------------------------
\* The shape of the state.
TypeOK ==
  /\ main \in {"getchar", "acceptor", "conns", "exit"} /\ server_stop \in BOOLEAN
  /\ joining \in 1 .. MAX_CLIENT_CNT + 1
  /\ acceptor \in {"accept", "place", "returned"}
  /\ accepted \in Client \cup {NoClient}
  /\ used \subseteq Slot /\ imported \subseteq Slot
  /\ peer \in [Slot -> Client \cup {NoClient}]
  /\ thread \in [Slot -> {"none", "exchange", "sync", "loop", "read", "out", "close",
                         "unused", "ended"}]
  /\ client \in [Client -> {"out", "exchange", "run", "bye", "closed"}]
  /\ size \in [Client -> Sizes]
  /\ {said, awaited, greeted, hungup} \subseteq SUBSET Client

\* The accept thread never wipes a slot whose thread still uses it: used is
\* the last thing server_conn_main writes.  The state is well typed.
SlotHasOneThread ==
  TypeOK /\ \A i \in Slot : thread[i] \in {"none", "ended"} \/ i \in used

\* When run_server calls destroy_context no connection thread is left and no
\* connection holds imported objects, however late a client arrived.
NothingLeftAtExit ==
  main = "exit" => imported = {} /\ \A i \in Slot : thread[i] \in {"none", "ended"}

\* As long as a client runs whose end the server has begun to wait for, the
\* server keeps its registered segment, also after enter is pressed.
AwaitedKeepSegment == main = "exit" => \A c \in awaited : client[c] # "run"

\* Once enter is pressed the server exits and no client is left waiting, not
\* even one that was never accepted.
EveryoneEnds ==
  server_stop ~> (main = "exit" /\ \A c \in Client : client[c] \in {"out", "closed"})
=============================================================================
