---------------------------- MODULE ServerProofs ----------------------------
(***************************************************************************)
(* Proofs about module Server: for every number of clients and slots, no   *)
(* slot is shared, nothing is left when the server exits, and the segment  *)
(* outlives the clients whose end is awaited.                              *)
(***************************************************************************)
EXTENDS Server, TLAPS

(***************************************************************************)
(* The inductive invariant.                                                *)
(***************************************************************************)
Over == {"none", "ended"}

\* A thread that is not over has a slot marked as used and a client that has
\* connected, and only one that is past Exchange has imported objects.
ThreadInv ==
  \A i \in Slot :
    /\ thread[i] \in Over \/ i \in used
    /\ thread[i] # "none" => peer[i] \in Client /\ client[peer[i]] # "out"
    /\ i \in imported => thread[i] \in {"loop", "read", "out"}

\* No two slots are given to one client; the one the accept thread has just
\* accepted has connected and has no slot.
PeerInv ==
  /\ \A i, j \in Slot : peer[i] = peer[j] /\ peer[i] \in Client => i = j
  /\ acceptor = "place" => /\ accepted \in Client /\ client[accepted] # "out"
                           /\ \A i \in Slot : peer[i] # accepted

\* The main thread has joined what it is past.
JoinInv ==
  /\ main \in {"conns", "exit"} => acceptor = "returned"
  /\ main = "conns" => \A i \in Slot : i < joining => thread[i] \in Over
  /\ main = "exit" => \A i \in Slot : thread[i] \in Over

\* The thread of a client whose end is awaited blocks in its read until the
\* client has said 'E' or closed the socket.
AwaitInv ==
  /\ \A c \in said : client[c] \in {"bye", "closed"}
  /\ \A c \in awaited : client[c] \in {"exchange", "run"} =>
       \E i \in Slot : peer[i] = c /\ thread[i] = "read"
  /\ \A c \in awaited : client[c] # "out"

ServerInv == TypeOK /\ ThreadInv /\ PeerInv /\ JoinInv /\ AwaitInv
-----------------------------------------------------------------------------
(***************************************************************************)
(* Each step preserves the invariant.                                      *)
(***************************************************************************)

\* A step of client c alone.  It says 'E' on leaving its run, and no client
\* returns to an earlier stage.
LEMMA ClientMoves ==
  ASSUME ServerInv, NEW c \in Client, NEW st \in {"exchange", "run", "bye", "closed"},
         Become(c, st), serverVars' = serverVars, size' = size,
         said' = said \/ (st = "bye" /\ said' = said \cup {c}),
         c \in said => st \in {"bye", "closed"},
         st \in {"exchange", "run"} => client[c] \in {"out", "exchange"}
  PROVE  ServerInv'
<1>0. TypeOK /\ ThreadInv /\ PeerInv /\ JoinInv /\ AwaitInv
  BY DEF ServerInv
<1>1. /\ client' = [client EXCEPT ![c] = st]
      /\ UNCHANGED <<main, server_stop, joining, acceptor, accepted, used, peer, thread,
                     imported, awaited, greeted, hungup, size>>
  BY DEF Become, serverVars
<1>2. \A d \in Client : client'[d] = IF d = c THEN st ELSE client[d]
  BY <1>0, <1>1 DEF TypeOK
<1>3. TypeOK'  BY <1>0, <1>1 DEF TypeOK
<1>4. ThreadInv'  BY <1>0, <1>1, <1>2 DEF ThreadInv
<1>5. PeerInv'  BY <1>0, <1>1, <1>2 DEF PeerInv
<1>6. JoinInv'  BY <1>0, <1>1 DEF JoinInv
<1>7. AwaitInv'
  <2>1. said \subseteq Client /\ awaited \subseteq Client  BY <1>0 DEF TypeOK
  <2>2. \A d \in said' : client'[d] \in {"bye", "closed"}
    BY <2>1, <1>0, <1>2 DEF AwaitInv
  <2>3. \A d \in awaited : client'[d] # "out"
    BY <2>1, <1>0, <1>2 DEF AwaitInv
  <2>4. \A d \in awaited : client'[d] \in {"exchange", "run"} => client[d] \in {"exchange", "run"}
    BY <2>1, <1>0, <1>2 DEF AwaitInv
  <2>. QED  BY <2>2, <2>3, <2>4, <1>0, <1>1 DEF AwaitInv
<1>. QED  BY <1>3, <1>4, <1>5, <1>6, <1>7 DEF ServerInv

\* Every step of a client is such a move.
LEMMA ClientKeeps ==
  ASSUME ServerInv, NEW c \in Client, Connect(c) \/ ClientStep(c) \/ ClientDies(c)
  PROVE  ServerInv'
<1>1. c \in said => client[c] \in {"bye", "closed"}  BY DEF ServerInv, AwaitInv
<1>2. CASE Connect(c)
  <2>1. Become(c, "exchange") /\ serverVars' = serverVars /\ size' = size /\ said' = said
    BY <1>2 DEF Connect
  <2>2. c \notin said  BY <1>1, <1>2 DEF Connect
  <2>. QED  BY Zenon, <1>2, <2>1, <2>2, ClientMoves DEF Connect
<1>3. CASE ClientExchange(c)
  <2>1. /\ client[c] = "exchange" /\ (Become(c, "run") \/ Become(c, "closed"))
        /\ serverVars' = serverVars /\ size' = size /\ said' = said
    BY <1>3 DEF ClientExchange
  <2>2. c \notin said  BY <1>1, <2>1
  <2>3. CASE Become(c, "run")  BY Zenon, <2>1, <2>2, <2>3, ClientMoves
  <2>4. CASE Become(c, "closed")  BY Zenon, <2>1, <2>2, <2>4, ClientMoves
  <2>. QED  BY <2>1, <2>3, <2>4
<1>4. CASE ClientRefused(c)
  <2>1. Become(c, "closed") /\ serverVars' = serverVars /\ size' = size /\ said' = said
    BY <1>4 DEF ClientRefused
  <2>2. c \notin said  BY <1>1, <1>4 DEF ClientRefused
  <2>. QED  BY Zenon, <1>4, <2>1, <2>2, ClientMoves DEF ClientRefused
<1>5. CASE SayBye(c)
  <2>1. Become(c, "bye") /\ serverVars' = serverVars /\ size' = size
    BY <1>5 DEF SayBye
  <2>. QED  BY <1>1, <1>5, <2>1, ClientMoves DEF SayBye
<1>6. CASE CloseClient(c)
  <2>1. Become(c, "closed") /\ serverVars' = serverVars /\ size' = size /\ said' = said
    BY <1>6 DEF CloseClient
  <2>. QED  BY Zenon, <2>1, ClientMoves
<1>7. CASE ClientDies(c)
  <2>1. Become(c, "closed") /\ serverVars' = serverVars /\ size' = size /\ said' = said
    BY <1>7 DEF ClientDies
  <2>2. c \notin said  BY <1>1, <1>7 DEF ClientDies
  <2>. QED  BY Zenon, <1>7, <2>1, <2>2, ClientMoves DEF ClientDies
<1>. QED  BY <1>2, <1>3, <1>4, <1>5, <1>6, <1>7 DEF ClientStep

\* A connection thread gives up its slot last of all, and leaves its read only
\* when its client has ended.
LEMMA ThreadKeeps ==
  ASSUME ServerInv, NEW i \in Slot, ConnThread(i)
  PROVE  ServerInv'
<1>0. TypeOK /\ ThreadInv /\ PeerInv /\ JoinInv /\ AwaitInv
  BY DEF ServerInv
<1>. DEFINE to == thread'[i]
            Changes ==
              /\ thread' = [thread EXCEPT ![i] = to]
              /\ used' = used \/ (to = "ended" /\ used' = used \ {i})
              /\ \/ imported' = imported \/ imported' = imported \ {i}
                 \/ imported' = imported \cup {i} /\ to = "loop"
              /\ awaited' = awaited \/ (awaited' = awaited \cup {peer[i]} /\ to = "read")
              /\ said' = said \/ said' = said \ {peer[i]}
              /\ greeted' = greeted \/ greeted' = greeted \cup {peer[i]}
              /\ hungup' = hungup \/ hungup' = hungup \cup {peer[i]}
              /\ UNCHANGED <<peer, client, size, acceptor, accepted, main, server_stop,
                             joining>>
            Place ==
              /\ thread[i] \notin Over
              /\ to \in {"sync", "loop", "read", "out", "close", "unused", "ended"}
              /\ i \in imported' => to \in {"loop", "read", "out"}
              /\ thread[i] = "read" => client[peer[i]] = "closed" \/ peer[i] \in said
<1>1. Changes /\ Place
  <2>0. thread \in [Slot -> {"none", "exchange", "sync", "loop", "read", "out", "close",
                           "unused", "ended"}]
    BY <1>0 DEF TypeOK
  <2>1. CASE Greet(i)
    <3>1. /\ thread[i] = "exchange" /\ thread'[i] = "sync"
          /\ thread' = [thread EXCEPT ![i] = "sync"]
          /\ greeted' = greeted \cup {peer[i]}
          /\ UNCHANGED <<used, peer, imported, awaited, hungup, acceptor,
                          accepted, main, server_stop, joining, client, size, said>>
      BY <2>0, <2>1 DEF Greet, At, acceptVars, mainVars, clientVars
    <3>2. Changes  BY Zenon, <3>1
    <3>3. Place  BY <3>1, <1>0 DEF Over, ThreadInv
    <3>. QED  BY <3>2, <3>3
  <2>2. CASE ServerExchange(i)
    <3>1. /\ thread[i] = "sync"
          /\ \/ /\ thread'[i] = "loop" /\ thread' = [thread EXCEPT ![i] = "loop"]
                /\ imported' = imported \cup {i}
                /\ SizesMatch(size[peer[i]], serverSize)
             \/ /\ thread'[i] = "out" /\ thread' = [thread EXCEPT ![i] = "out"]
                /\ imported' = imported
          /\ UNCHANGED <<used, peer, awaited, greeted, hungup, acceptor, accepted,
                          main, server_stop, joining, client, size, said>>
      BY Zenon, <2>0, <2>2 DEF ServerExchange, At, acceptVars, mainVars, clientVars
    <3>2. Changes  BY Zenon, <3>1
    <3>3. Place  BY <3>1, <1>0 DEF Over, ThreadInv
    <3>. QED  BY <3>2, <3>3
  <2>3. CASE LoopTest(i)
    <3>1. /\ thread[i] = "loop"
          /\ \/ /\ thread'[i] = "out" /\ thread' = [thread EXCEPT ![i] = "out"]
                /\ awaited' = awaited
             \/ /\ thread'[i] = "read" /\ thread' = [thread EXCEPT ![i] = "read"]
                /\ awaited' = awaited \cup {peer[i]}
          /\ UNCHANGED <<used, peer, imported, greeted, hungup, acceptor,
                          accepted, main, server_stop, joining, client, size, said>>
      BY Zenon, <2>0, <2>3 DEF LoopTest, At, acceptVars, mainVars, clientVars
    <3>2. Changes  BY Zenon, <3>1
    <3>3. Place  BY <3>1, <1>0 DEF Over, ThreadInv
    <3>. QED  BY <3>2, <3>3
  <2>4. CASE Read(i)
    <3>1. /\ thread[i] = "read"
          /\ \/ /\ thread'[i] = "loop" /\ thread' = [thread EXCEPT ![i] = "loop"]
                /\ peer[i] \in said
             \/ /\ thread'[i] = "out" /\ thread' = [thread EXCEPT ![i] = "out"]
                /\ client[peer[i]] = "closed"
          /\ said' = said \ {peer[i]}
          /\ UNCHANGED <<used, peer, imported, awaited, greeted, hungup,
                          acceptor, accepted, main, server_stop, joining, client, size>>
      BY <2>0, <2>4 DEF Read, At, acceptVars, mainVars, clientVars
    <3>2. Changes  BY Zenon, <3>1
    <3>3. Place  BY <3>1, <1>0 DEF Over, ThreadInv
    <3>. QED  BY <3>2, <3>3
  <2>5. CASE ResetConnection(i)
    <3>1. /\ thread[i] = "out" /\ thread'[i] = "close"
          /\ thread' = [thread EXCEPT ![i] = "close"]
          /\ imported' = imported \ {i}
          /\ UNCHANGED <<used, peer, awaited, greeted, hungup, acceptor,
                          accepted, main, server_stop, joining, client, size, said>>
      BY <2>0, <2>5 DEF ResetConnection, At, acceptVars, mainVars, clientVars
    <3>2. Changes  BY Zenon, <3>1
    <3>3. Place  BY <3>1, <1>0 DEF Over, ThreadInv
    <3>. QED  BY <3>2, <3>3
  <2>6. CASE CloseSocket(i)
    <3>1. /\ thread[i] = "close" /\ thread'[i] = "unused"
          /\ thread' = [thread EXCEPT ![i] = "unused"]
          /\ hungup' = hungup \cup {peer[i]}
          /\ UNCHANGED <<used, peer, imported, awaited, greeted, acceptor,
                          accepted, main, server_stop, joining, client, size, said>>
      BY <2>0, <2>6 DEF CloseSocket, At, acceptVars, mainVars, clientVars
    <3>2. Changes  BY Zenon, <3>1
    <3>3. Place  BY <3>1, <1>0 DEF Over, ThreadInv
    <3>. QED  BY <3>2, <3>3
  <2>7. CASE ClearUsed(i)
    <3>1. /\ thread[i] = "unused" /\ thread'[i] = "ended"
          /\ thread' = [thread EXCEPT ![i] = "ended"]
          /\ used' = used \ {i}
          /\ UNCHANGED <<peer, imported, awaited, greeted, hungup, acceptor,
                          accepted, main, server_stop, joining, client, size, said>>
      BY <2>0, <2>7 DEF ClearUsed, At, acceptVars, mainVars, clientVars
    <3>2. Changes  BY Zenon, <3>1
    <3>3. Place  BY <3>1, <1>0 DEF Over, ThreadInv
    <3>. QED  BY <3>2, <3>3
  <2>. HIDE DEF Changes, Place
  <2>. QED  BY Zenon, <2>1, <2>2, <2>3, <2>4, <2>5, <2>6, <2>7 DEF ConnThread
<1>2. /\ thread'[i] = to /\ \A j \in Slot : j # i => thread'[j] = thread[j]
      /\ peer[i] \in Client /\ client[peer[i]] # "out"
  BY <1>0, <1>1 DEF TypeOK, ThreadInv, Over
<1>3. TypeOK'  BY <1>0, <1>1, <1>2 DEF TypeOK
<1>4. ThreadInv'  BY <1>0, <1>1, <1>2 DEF ThreadInv, Over
<1>5. PeerInv'  BY <1>0, <1>1 DEF PeerInv
<1>6. JoinInv'  BY <1>0, <1>1, <1>2 DEF JoinInv
<1>7. AwaitInv'
  <2>1. \A c \in said' : client'[c] \in {"bye", "closed"}  BY <1>0, <1>1 DEF AwaitInv
  <2>2. \A c \in awaited' : client'[c] # "out"  BY <1>0, <1>1, <1>2 DEF AwaitInv
  <2>3. ASSUME NEW c \in awaited', client[c] \in {"exchange", "run"}
        PROVE  \E j \in Slot : peer[j] = c /\ thread'[j] = "read"
    <3>1. CASE c \in awaited
      <4>1. PICK j \in Slot : peer[j] = c /\ thread[j] = "read"
        BY <3>1, <2>3, <1>0 DEF AwaitInv
      <4>2. j # i  BY <4>1, <2>3, <1>0, <1>1 DEF AwaitInv
      <4>. QED  BY <4>1, <4>2, <1>2
    <3>2. CASE c = peer[i] /\ to = "read"  BY <3>2, <1>2
    <3>. QED  BY <3>1, <3>2, <1>1
  <2>. QED  BY <2>1, <2>2, <2>3, <1>1 DEF AwaitInv
<1>. QED  BY <1>3, <1>4, <1>5, <1>6, <1>7 DEF ServerInv

\* The accept thread gives a slot to a client that has none.
LEMMA AcceptorKeeps ==
  ASSUME ServerInv, AcceptReturns \/ Accept \/ AcceptFails \/ PlaceConnection \/ Refuse
  PROVE  ServerInv'
<1>0. TypeOK /\ ThreadInv /\ PeerInv /\ JoinInv /\ AwaitInv
  BY DEF ServerInv
<1>. USE DEF connVars, mainVars, clientVars
<1>1. CASE AcceptReturns \/ AcceptFails
  <2>1. /\ acceptor' = "returned" /\ accepted' = accepted
        /\ connVars' = connVars /\ mainVars' = mainVars /\ clientVars' = clientVars
    BY <1>1 DEF AcceptReturns, AcceptFails
  <2>2. TypeOK'  BY <1>0, <2>1 DEF TypeOK
  <2>3. PeerInv'  BY <1>0, <2>1 DEF PeerInv
  <2>4. (ThreadInv /\ JoinInv /\ AwaitInv)'
    BY <1>0, <2>1 DEF ThreadInv, JoinInv, AwaitInv
  <2>. QED  BY <2>2, <2>3, <2>4 DEF ServerInv
<1>2. CASE Accept
  <2>1. /\ acceptor = "accept" /\ accepted' \in Waiting /\ acceptor' = "place"
        /\ connVars' = connVars /\ mainVars' = mainVars /\ clientVars' = clientVars
    BY <1>2 DEF Accept
  <2>2. /\ accepted' \in Client /\ client[accepted'] # "out"
        /\ \A i \in Slot : peer[i] # accepted'
    BY <2>1 DEF Waiting
  <2>3. TypeOK'  BY <1>0, <2>1, <2>2 DEF TypeOK
  <2>4. PeerInv'  BY <1>0, <2>1, <2>2 DEF PeerInv
  <2>5. JoinInv'  BY <1>0, <2>1 DEF JoinInv
  <2>6. (ThreadInv /\ AwaitInv)'
    BY <1>0, <2>1 DEF ThreadInv, AwaitInv
  <2>. QED  BY <2>3, <2>4, <2>5, <2>6 DEF ServerInv
<1>3. CASE PlaceConnection
  <2>1. PICK i \in Slot \ used :
          /\ used' = used \cup {i}
          /\ peer' = [peer EXCEPT ![i] = accepted]
          /\ thread' = [thread EXCEPT ![i] = "exchange"]
          /\ imported' = imported \ {i}
    BY Zenon, <1>3 DEF PlaceConnection
  <2>2. /\ acceptor = "place" /\ acceptor' = "accept" /\ accepted' = NoClient
        /\ UNCHANGED <<awaited, greeted, hungup, main, server_stop, joining,
                       client, size, said>>
    BY <1>3 DEF PlaceConnection
  <2>3. /\ peer'[i] = accepted /\ thread'[i] = "exchange" /\ thread[i] \in Over
        /\ \A j \in Slot : j # i => peer'[j] = peer[j] /\ thread'[j] = thread[j]
        /\ accepted \in Client /\ client[accepted] # "out"
        /\ \A j \in Slot : peer[j] # accepted
    BY <1>0, <2>1, <2>2 DEF TypeOK, ThreadInv, PeerInv
  <2>4. TypeOK'  BY <1>0, <2>1, <2>2 DEF TypeOK
  <2>5. ThreadInv'  BY <1>0, <2>1, <2>2, <2>3 DEF ThreadInv
  <2>6. PeerInv'  BY <1>0, <2>2, <2>3 DEF PeerInv
  <2>7. JoinInv'  BY <1>0, <2>2 DEF JoinInv
  <2>8. AwaitInv'
    <3>1. ASSUME NEW c \in awaited, client[c] \in {"exchange", "run"}
          PROVE  \E j \in Slot : peer'[j] = c /\ thread'[j] = "read"
      <4>1. PICK j \in Slot : peer[j] = c /\ thread[j] = "read"
        BY <3>1, <1>0 DEF AwaitInv
      <4>2. j # i  BY <4>1, <2>3 DEF Over
      <4>. QED  BY <4>1, <4>2, <2>3
    <3>. QED  BY <3>1, <1>0, <2>2 DEF AwaitInv
  <2>. QED  BY <2>4, <2>5, <2>6, <2>7, <2>8 DEF ServerInv
<1>4. CASE Refuse
  <2>1. /\ acceptor = "place" /\ acceptor' = "accept" /\ accepted' = NoClient
        /\ hungup' = hungup \cup {accepted}
        /\ UNCHANGED <<used, peer, thread, imported, awaited, greeted, main,
                       server_stop, joining, client, size, said>>
    BY <1>4 DEF Refuse
  <2>2. accepted \in Client  BY <1>0, <2>1 DEF PeerInv
  <2>3. TypeOK'  BY <1>0, <2>1, <2>2 DEF TypeOK
  <2>4. PeerInv'  BY <1>0, <2>1 DEF PeerInv
  <2>5. JoinInv'  BY <1>0, <2>1 DEF JoinInv
  <2>6. (ThreadInv /\ AwaitInv)'
    BY <1>0, <2>1 DEF ThreadInv, AwaitInv
  <2>. QED  BY <2>3, <2>4, <2>5, <2>6 DEF ServerInv
<1>. QED  BY <1>1, <1>2, <1>3, <1>4

\* The main thread passes a slot only when its thread is over, and no thread
\* is started any more.
LEMMA MainKeeps ==
  ASSUME ServerInv, Enter \/ JoinAcceptor \/ JoinConnection \/ Destroy
  PROVE  ServerInv'
<1>0. TypeOK /\ ThreadInv /\ PeerInv /\ JoinInv /\ AwaitInv
  BY DEF ServerInv
<1>1. /\ UNCHANGED <<acceptor, accepted, used, peer, thread, imported, awaited,
                     greeted, client, size, said>>
      /\ main' \in {"getchar", "acceptor", "conns", "exit"} /\ server_stop' \in BOOLEAN
      /\ joining' \in 1 .. MAX_CLIENT_CNT + 1 /\ hungup' \in SUBSET Client
  <2>. USE <1>0 DEF acceptVars, connVars, clientVars
  <2>1. CASE Enter  BY <2>1 DEF Enter, TypeOK
  <2>2. CASE JoinAcceptor  BY <2>2, TableAssumption DEF JoinAcceptor, TypeOK
  <2>3. CASE JoinConnection  BY <2>3, TableAssumption DEF JoinConnection, TypeOK
  <2>4. CASE Destroy  BY <2>4 DEF Destroy, Waiting, TypeOK
  <2>. QED  BY <2>1, <2>2, <2>3, <2>4
<1>2. TypeOK'  BY <1>0, <1>1 DEF TypeOK
<1>3. (ThreadInv /\ PeerInv /\ AwaitInv)'
  BY <1>0, <1>1 DEF ThreadInv, PeerInv, AwaitInv
<1>4. JoinInv'
  <2>. USE TableAssumption DEF JoinInv, Slot
  <2>1. CASE Enter  BY <2>1, <1>1 DEF Enter
  <2>2. CASE JoinAcceptor  BY <2>2, <1>1 DEF JoinAcceptor
  <2>3. CASE JoinConnection
    <3>1. thread[joining] \in Over  BY <2>3, <1>0 DEF JoinConnection, ThreadInv, Over, TypeOK
    <3>. QED  BY <2>3, <3>1, <1>0, <1>1 DEF JoinConnection, TypeOK
  <2>4. CASE Destroy  BY <2>4, <1>0, <1>1 DEF Destroy, TypeOK
  <2>. QED  BY <2>1, <2>2, <2>3, <2>4
<1>. QED  BY <1>2, <1>3, <1>4 DEF ServerInv
-----------------------------------------------------------------------------
(***************************************************************************)
(* The theorems.                                                           *)
(***************************************************************************)

\* The invariant holds at the start: nobody has connected.
LEMMA InitHolds == Init => ServerInv
<1>. SUFFICES ASSUME Init  PROVE ServerInv  OBVIOUS
<1>1. TypeOK
  <2>1. joining \in 1 .. MAX_CLIENT_CNT + 1  BY TableAssumption DEF Init
  <2>2. /\ peer \in [Slot -> Client \cup {NoClient}]
        /\ thread \in [Slot -> {"none", "exchange", "sync", "loop", "read", "out", "close",
                                "unused", "ended"}]
        /\ client \in [Client -> {"out", "exchange", "run", "bye", "closed"}]
    BY DEF Init
  <2>3. {said, awaited, greeted, hungup} \subseteq SUBSET Client  BY DEF Init
  <2>. QED  BY Zenon, <2>1, <2>2, <2>3 DEF Init, TypeOK
<1>2. ThreadInv /\ JoinInv /\ AwaitInv
  BY DEF Init, ThreadInv, JoinInv, AwaitInv, Over
<1>3. PeerInv  BY ClientAssumption DEF Init, PeerInv
<1>. QED  BY <1>1, <1>2, <1>3 DEF ServerInv

\* A step in which nothing changes preserves the invariant.
LEMMA StutterKeeps ==
  ASSUME ServerInv, UNCHANGED vars  PROVE ServerInv'
BY DEF ServerInv, TypeOK, ThreadInv, PeerInv, JoinInv, AwaitInv, vars, serverVars,
       clientVars

\* Every state of the server and its clients satisfies the invariant, whatever
\* the number of clients and the size of the table of connections.
THEOREM Invariance == Spec => []ServerInv
<1>1. ASSUME ServerInv, [Next]_vars  PROVE ServerInv'
  <2>1. CASE Next
    <3>1. CASE ServerStep
      BY <3>1, <1>1, ThreadKeeps, AcceptorKeeps, MainKeeps DEF ServerStep
    <3>2. ASSUME NEW c \in Client, Connect(c) \/ ClientStep(c) \/ ClientDies(c)
          PROVE  ServerInv'
      BY <3>2, <1>1, ClientKeeps
    <3>3. CASE AllOver  BY <3>3, <1>1, StutterKeeps DEF AllOver
    <3>. QED  BY <2>1, <3>1, <3>2, <3>3 DEF Next
  <2>2. CASE UNCHANGED vars  BY <2>2, <1>1, StutterKeeps
  <2>. QED  BY <1>1, <2>1, <2>2
<1>. QED  BY <1>1, InitHolds, PTL DEF Spec

\* The accept thread never wipes a slot that a thread still uses.
THEOREM SlotsAreExclusive == Spec => []SlotHasOneThread
<1>1. ServerInv => SlotHasOneThread
  BY DEF ServerInv, ThreadInv, SlotHasOneThread, Over
<1>. QED  BY <1>1, Invariance, PTL

\* run_server leaves no thread and no imported object behind.
THEOREM ExitLeavesNothing == Spec => []NothingLeftAtExit
<1>1. ASSUME ServerInv, main = "exit"
      PROVE  imported = {} /\ \A i \in Slot : thread[i] \in Over
  BY <1>1 DEF ServerInv, TypeOK, ThreadInv, JoinInv, Over
<1>2. ServerInv => NothingLeftAtExit  BY <1>1 DEF NothingLeftAtExit, Over
<1>. QED  BY <1>2, Invariance, PTL

\* The registered segment outlives every client whose end is awaited.
THEOREM SegmentOutlivesAwaited == Spec => []AwaitedKeepSegment
<1>1. ServerInv => AwaitedKeepSegment
  BY DEF ServerInv, JoinInv, AwaitInv, AwaitedKeepSegment, Over
<1>. QED  BY <1>1, Invariance, PTL
=============================================================================
