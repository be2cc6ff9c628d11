----------------------------- MODULE Lifecycle -----------------------------
(***************************************************************************)
(* Who owns which URMA object, from UrmaManager::Init to the end of the    *)
(* process: the client and the server with one manager (run_client,        *)
(* run_server and destroy_context of src/kv_bench.cpp), and those of       *)
(* dual-device mode with a manager for each port (run_dual_client,         *)
(* run_dual_server).  The poll threads of PollThread run beside the main   *)
(* thread modelled here; the server's connections are in Server.           *)
(*                                                                         *)
(* Every object is owned through unique_ptr or shared_ptr; an edge         *)
(* <<holder, object>> of own is one such pointer.  An object is destroyed, *)
(* by the urma_delete_, urma_unregister_ or urma_unimport_ call of its     *)
(* destructor, when its last edge goes.  Any creating call may fail.       *)
(***************************************************************************)
EXTENDS PollThread, Sequences

CONSTANTS
  Modes,        (* the modes that are tried *)
  lanes         (* number of send jettys in a pool *)

ASSUME ModesAssumption == Modes \subseteq {"client", "server", "dual_client", "dual_server"}
ASSUME LaneCountAssumption == lanes \in Nat \ {0}

VARIABLES
  mode,
  pc,           (* where the main thread is                               *)
  at,           (* the manager it is working on                           *)
  i,            (* position in CreateOrder or ClearOrder                  *)
  failed,       (* the step of start-up that failed, and for which manager *)
  counted,      (* the library counts its urma_init calls                 *)
  refs,         (* urma_init calls not yet undone                         *)
  uninit,       (* urma_uninit was called                                 *)
  own,          (* the pointers                                           *)
  initialized,  (* per manager: initialized_                              *)
  held,         (* lanes the workers' slots still point to when they end  *)
  late,         (* objects destroyed after the library went down          *)
  stray         (* objects destroyed after their context                  *)

library == <<counted, refs, uninit>>
objects == <<own, held, late, stray>>
vars == <<mode, pc, at, i, failed, library, initialized, objects, pollVars>>

(***************************************************************************)
(* The four functions of kv_bench.cpp that own the managers: how many they *)
(* have, the phases each manager goes through, and where an error of Init  *)
(* and any other error leads: to the clean-up ("destroy"), to stopping the *)
(* managers so far ("stop"), or out of the process as it is ("left").      *)
(***************************************************************************)
run_client ==
  [managers |-> 1, phases |-> <<"init", "buffer", "exchange", "workers">>,
   initError |-> "destroy", error |-> "destroy"]
run_server ==
  [managers |-> 1, phases |-> <<"init", "buffer", "workers">>,
   initError |-> "destroy", error |-> "destroy"]

\* Mutant: the managers before the one that failed go on polling.
RunDualNoStop ==
  [managers |-> ports, phases |-> <<"init", "buffer", "exchange", "workers">>,
   initError |-> "left", error |-> "left"]

run_dual_client ==
  [managers |-> ports, phases |-> <<"init", "buffer", "exchange", "workers">>,
   initError |-> "stop", error |-> "left"]
run_dual_server ==
  [managers |-> ports, phases |-> <<"init", "buffer", "exchange", "workers">>,
   initError |-> "left", error |-> "left"]

Program ==
  CASE mode = "client" -> run_client [] mode = "server" -> run_server
    [] mode = "dual_client" -> run_dual_client [] mode = "dual_server" -> run_dual_server

Lane(p) == {<<p, "lane", n>> : n \in 1 .. lanes}
Context(p) == <<p, "context", 0>>
Jfce(p) == <<p, "jfce", 0>>
Jfc(p) == <<p, "jfc", 0>>
SharedJfr(p) == <<p, "jfr", 0>>
RecvJetty(p) == <<p, "recv", 0>>
RecvJfr(p) == <<p, "jfr", 1>>
LocalSeg(p) == <<p, "segment", 0>>
TargetJetty(p) == <<p, "target", 0>>
RemoteSeg(p) == <<p, "segment", 1>>

\* Holders that are not objects themselves.
Resource(p) == <<p, "resource", 0>>
Pool(p) == <<p, "pool", 0>>
Manager(p) == <<p, "manager", 0>>
Connection(p) == <<p, "connection", 0>>
Workers == <<1, "workers", 0>>

Live(edges) == {e[2] : e \in edges}
HeldBy(h) == {e \in own : e[1] = h}

\* The library must not be called any more: after the last urma_uninit if it
\* counts, and after the first one if it does not.
Down == uninit /\ (counted => refs = 0)

Init ==
  /\ PollInit
  /\ mode \in Modes /\ pc = "init" /\ at = 1 /\ i = 1 /\ failed = <<"none", 0>>
  /\ counted \in BOOLEAN /\ refs = 0 /\ uninit = FALSE
  /\ own = {} /\ held = {} /\ late = {} /\ stray = {}
  /\ initialized = [p \in Port |-> FALSE]

\* The pointers gone are reset.  A jetty destroyed by that lets go of its JFR.
Reset(gone) ==
  LET kept == own \ gone
      died == Live(own) \ Live(kept)
      left == {e \in kept : e[1] \notin died}
      dead == Live(own) \ Live(left)
  IN  /\ own' = left
      /\ late' = IF Down THEN late \cup dead ELSE late
      /\ stray' = stray \cup {o \in dead : Context(o[1]) \notin Live(own)}
      /\ UNCHANGED held

Goto(label) == pc' = label

\* The end of what every manager goes through: the next manager begins at
\* first, or all are through.
NextManager(first, next) ==
  IF at < Program.managers THEN at' = at + 1 /\ Goto(first) ELSE at' = 1 /\ Goto(next)

\* The end of a phase of start-up.
NextPhase(phase) ==
  NextManager(phase, LET n == CHOOSE n \in DOMAIN Program.phases : Program.phases[n] = phase
                     IN  Program.phases[n + 1])
-----------------------------------------------------------------------------
(***************************************************************************)
(* Start-up.                                                               *)
(***************************************************************************)

InitSteps == {"init", "device", "create", "rearm", "poll"}

\* Where a failed step leads.
GiveUp(label) ==
  LET next == IF label \in InitSteps THEN Program.initError ELSE Program.error
  IN  Goto(next) /\ at' = (IF next = "stop" THEN 1 ELSE at)

\* A step of start-up fails.
Fails(label) ==
  /\ pc = label
  /\ failed' = <<label, at>>
  /\ GiveUp(label)
  /\ UNCHANGED <<mode, i, library, initialized, objects, pollVars>>

\* UrmaManager::Init up to urma_init.
InitUrmaLib ==
  /\ pc = "init"
  /\ refs' = refs + 1
  /\ Goto("device")
  /\ UNCHANGED <<mode, at, i, failed, counted, uninit, initialized, objects, pollVars>>

\* The device, its eid index and its attributes are found.
FindDevice ==
  /\ pc = "device"
  /\ Goto("create") /\ i' = 1
  /\ UNCHANGED <<mode, at, failed, library, initialized, objects, pollVars>>

\* UrmaResource::Init: the context, the queues, the lanes, the RECV jetty.
CreateOrder ==
  <<Context(at), Jfce(at), Jfc(at)>> \o [n \in 1 .. lanes |-> <<at, "lane", n>>]
    \o <<RecvJetty(at)>>

\* The pointers that exist once object o is created.
Created(o) ==
  CASE o \in Lane(at) -> {<<Pool(at), o>>, <<o, SharedJfr(at)>>,
                          <<Resource(at), SharedJfr(at)>>}
    [] o = RecvJetty(at) -> {<<Resource(at), o>>, <<o, RecvJfr(at)>>}
    [] OTHER -> {<<Resource(at), o>>}

Create ==
  /\ pc = "create"
  /\ own' = own \cup Created(CreateOrder[i])
  /\ IF i < Len(CreateOrder) THEN i' = i + 1 /\ UNCHANGED pc
     ELSE i' = 1 /\ Goto(IF eventMode THEN "rearm" ELSE "poll")
  /\ UNCHANGED <<mode, at, failed, library, initialized, held, late, stray, pollVars>>

\* UrmaJetty::Create for the first lane leaves the shared JFR behind when
\* only urma_create_jetty fails.
CreateJettyFails ==
  /\ pc = "create" /\ CreateOrder[i] \in Lane(at)
  /\ own' = own \cup {<<Resource(at), SharedJfr(at)>>}
  /\ failed' = <<pc, at>>
  /\ GiveUp(pc)
  /\ UNCHANGED <<mode, i, library, initialized, held, late, stray, pollVars>>

\* In event mode the queue is armed before the poll thread exists.
RearmJfc ==
  /\ pc = "rearm"
  /\ armed' = [armed EXCEPT ![at] = TRUE]
  /\ Goto("poll")
  /\ UNCHANGED <<mode, at, i, failed, library, initialized, objects, eventMode, level, poll,
                 stop, cq, notice, arrivals, faults>>

\* The end of Init: from here on Stop has work to do, even if the poll thread
\* cannot be started.
EnsurePollThread ==
  /\ pc = "poll"
  /\ initialized' = [initialized EXCEPT ![at] = TRUE]
  /\ stop' = [stop EXCEPT ![at] = FALSE]
  /\ \/ /\ PollGoto(at, "test")
        /\ NextPhase("init")
        /\ UNCHANGED failed
     \/ /\ failed' = <<pc, at>>
        /\ GiveUp(pc)
        /\ UNCHANGED poll
  /\ UNCHANGED <<mode, i, library, objects, eventMode, level, queue, faults>>

\* The manager and its resource both keep the segment.
RegisterBuffer ==
  /\ pc = "buffer"
  /\ own' = own \cup {<<Resource(at), LocalSeg(at)>>, <<Manager(at), LocalSeg(at)>>}
  /\ NextPhase("buffer")
  /\ UNCHANGED <<mode, i, failed, library, initialized, held, late, stray, pollVars>>

\* connect or accept, then Exchange, which publishes the new connection only
\* when every import succeeded.  Its reads have no time-out: it may take for
\* ever.
Exchange ==
  /\ pc = "exchange"
  /\ own' = own \cup {<<Connection(at), o>> : o \in {TargetJetty(at), RemoteSeg(at)}}
  /\ NextPhase("exchange")
  /\ UNCHANGED <<mode, i, failed, library, initialized, held, late, stray, pollVars>>

\* The workers run and are joined; in a server, the clients end.  A pipeline
\* that returned -1 leaves the lanes of its other active requests in their
\* slots; a dual worker resets its pointers.
RunWorkers ==
  /\ pc = "workers"
  /\ held' \in IF mode = "client" THEN SUBSET Lane(1) ELSE {{}}
  /\ own' = own \cup {<<Workers, l>> : l \in held'}
  /\ Goto("destroy")
  /\ UNCHANGED <<mode, at, i, failed, library, initialized, late, stray, pollVars>>
-----------------------------------------------------------------------------
(***************************************************************************)
(* destroy_context, and the loop over the ports that replaces it in        *)
(* dual-device mode.                                                       *)
(***************************************************************************)

\* conn.reset()
DropConnection ==
  /\ pc = "destroy"
  /\ Reset(HeldBy(Connection(at)))
  /\ Goto("stop")
  /\ UNCHANGED <<mode, at, i, failed, library, initialized, pollVars>>

\* The managers are stopped because Init failed on one of them.
RollingBack == mode = "dual_client" /\ failed[1] \in InitSteps

\* What follows Stop: the manager is deleted, or the next one is stopped.
AfterStop ==
  IF ~RollingBack THEN Goto("manager") /\ UNCHANGED at
  ELSE IF at < failed[2] THEN Goto("stop") /\ at' = at + 1
  ELSE Goto("left") /\ UNCHANGED at

\* UrmaManager::Stop does nothing before initialized_, and else sets stop_.
Stop ==
  /\ pc = "stop"
  /\ IF initialized[at]
     THEN stop' = [stop EXCEPT ![at] = TRUE] /\ Goto("join") /\ UNCHANGED at
     ELSE AfterStop /\ UNCHANGED stop
  /\ UNCHANGED <<mode, i, failed, library, initialized, objects, eventMode, level, poll,
                 queue, faults>>

\* Mutant: the poll thread is not joined.
JoinNot ==
  /\ pc = "join"
  /\ Goto("clear") /\ i' = 1
  /\ UNCHANGED <<mode, at, failed, library, initialized, objects, pollVars>>

Join ==
  /\ pc = "join" /\ poll[at] \in {"off", "done"}
  /\ Goto("clear") /\ i' = 1
  /\ UNCHANGED <<mode, at, failed, library, initialized, objects, pollVars>>

\* Mutant: the context is closed first.
ClearContextFirst ==
  <<Context(at), LocalSeg(at), Pool(at), RecvJetty(at), SharedJfr(at), Jfc(at), Jfce(at)>>

\* UrmaResource::Clear; the pool lets go of all its lanes at once.
ClearOrder ==
  <<LocalSeg(at), Pool(at), RecvJetty(at), SharedJfr(at), Jfc(at), Jfce(at), Context(at)>>

ClearNext ==
  /\ pc \in {"clear", "delete"}
  /\ Reset(IF ClearOrder[i] = Pool(at) THEN HeldBy(Pool(at))
                                       ELSE {<<Resource(at), ClearOrder[i]>>})
  /\ IF i < Len(ClearOrder) THEN i' = i + 1 /\ UNCHANGED <<pc, at>>
     ELSE /\ i' = 1
          /\ IF pc = "clear" THEN Goto("segment") /\ UNCHANGED at
                             ELSE NextManager("destroy", "free")
  /\ UNCHANGED <<mode, failed, library, initialized, pollVars>>

\* Mutant: localSeg_ is left to the manager's destructor.
KeepSegment ==
  /\ pc = "segment"
  /\ initialized' = [initialized EXCEPT ![at] = FALSE]
  /\ Goto("uninit")
  /\ UNCHANGED <<mode, at, i, failed, library, objects, pollVars>>

\* Stop goes on: localSeg_.reset(), before urma_uninit.
DropSegment ==
  /\ pc = "segment"
  /\ initialized' = [initialized EXCEPT ![at] = FALSE]
  /\ Reset({<<Manager(at), LocalSeg(at)>>})
  /\ Goto("uninit")
  /\ UNCHANGED <<mode, at, i, failed, library, pollVars>>

Uninit ==
  /\ pc = "uninit"
  /\ refs' = refs - 1 /\ uninit' = TRUE
  /\ AfterStop
  /\ UNCHANGED <<mode, i, failed, counted, initialized, objects, pollVars>>

\* delete of the manager: its members go, localSeg_ before resource_, whose
\* destructor clears it again.
DeleteManager ==
  /\ pc = "manager"
  /\ Reset(HeldBy(Manager(at)))
  /\ Goto("delete") /\ i' = 1
  /\ UNCHANGED <<mode, at, failed, library, initialized, pollVars>>

\* free_bench_workers, after the manager is gone.
FreeWorkers ==
  /\ pc = "free"
  /\ Reset(HeldBy(Workers))
  /\ Goto("exit")
  /\ UNCHANGED <<mode, at, i, failed, library, initialized, pollVars>>

TearDown ==
  {"destroy", "stop", "join", "clear", "segment", "uninit", "manager", "delete", "free"}
Ended == pc \in {"exit", "left"}

Main ==
  \/ InitUrmaLib \/ FindDevice \/ Create \/ CreateJettyFails \/ RearmJfc \/ EnsurePollThread
  \/ RegisterBuffer \/ Exchange \/ RunWorkers
  \/ \E label \in {"init", "device", "create", "rearm", "buffer", "exchange", "workers"} :
       Fails(label)
  \/ DropConnection \/ Stop \/ Join \/ ClearNext \/ DropSegment \/ Uninit
  \/ DeleteManager \/ FreeWorkers

mainVars == <<mode, pc, at, i, failed, library, initialized, objects>>

\* A WR of the workers is reported, also late, as long as its queue exists.
Completion(p) ==
  /\ mode \in {"client", "dual_client"} /\ failed[1] = "none"
  /\ pc \in {"workers", "destroy", "stop", "join", "clear"} /\ Jfc(p) \in Live(own)
  /\ Arrive(p)
  /\ UNCHANGED mainVars

\* The process ends with the main thread.
PollThreadStep(p) == ~Ended /\ PollStep(p) /\ UNCHANGED mainVars

Next ==
  \/ Main
  \/ \E p \in Port : Completion(p) \/ PollThreadStep(p)
  \/ Ended /\ UNCHANGED vars

Spec == Init /\ [][Next]_vars

\* Every thread is scheduled.  Of the exchange, which waits for the peer, and
\* of the workers nothing is assumed: both may go on for ever.
FairSpec ==
  /\ Spec
  /\ WF_vars(pc \notin {"exchange", "workers"} /\ Main)
  /\ \A p \in Port : WF_vars(PollThreadStep(p))
-----------------------------------------------------------------------------
Kinds ==
  {"lane", "context", "jfce", "jfc", "jfr", "recv", "segment", "target", "resource",
   "pool", "manager", "connection", "workers"}

\* The shape of the state: pointers lead from holders to objects.
TypeOK ==
  /\ PollTypeOK
  /\ mode \in Modes
  /\ pc \in InitSteps \cup {"buffer", "exchange", "workers", "exit", "left"} \cup TearDown
  /\ at \in Port /\ i \in 1 .. Len(CreateOrder) \cup 1 .. Len(ClearOrder)
  /\ counted \in BOOLEAN /\ refs \in 0 .. ports /\ uninit \in BOOLEAN
  /\ initialized \in [Port -> BOOLEAN]
  /\ \A e \in own : \A n \in 1 .. 2 : e[n][1] \in Port /\ e[n][2] \in Kinds
  /\ held \subseteq Lane(1)

\* A poll thread never runs without its queues: PollThreadMain calls
\* urma_wait_jfc and urma_poll_jfc on them until it is joined, also while other
\* managers are stopped; if the library counts, it is up, too.  The state is
\* well typed.
PollerHasQueue ==
  /\ TypeOK
  /\ \A p \in Alive : {Jfc(p), Jfce(p), Context(p)} \subseteq Live(own)
  /\ Alive # {} /\ counted => ~Down

\* At the end of destroy_context, whatever step of start-up failed, and of a
\* dual run, no object and no poll thread is left, and urma_init is undone
\* unless Init failed half-way.  When Init fails on a port of run_dual_client,
\* the ports before it are stopped, and only objects of that port are left.
AllReleased ==
  /\ pc = "exit" => /\ own = {} /\ Alive = {}
                    /\ failed[1] \notin {"device", "create", "rearm"} => refs = 0
  /\ pc = "left" /\ RollingBack =>
       Alive = {} /\ \A e \in own : e[2][1] = failed[2]

\* When the workers left no lane in their slots, and a library with several
\* users counts them, every object is destroyed before urma_uninit; the order
\* of Stop and destroy_context sees to it.
DrainedMeansInTime ==
  held = {} /\ (Program.managers = 1 \/ counted) => late = {}

\* Of the objects of a context only the buffer's segment and the lanes (with
\* their JFR) that workers still point to survive it.
ContextOutlives ==
  stray \subseteq {LocalSeg(p) : p \in Port} \cup held
                  \cup (IF held = {} THEN {} ELSE {SharedJfr(1)})

\* Tear-down, once begun, comes to its end for every manager, whatever failed
\* before and whatever still completes: pollThread_.join() in Stop waits for a
\* thread that looks at stop_ at least every 100 ms.
TearDownEnds == pc \in TearDown ~> Ended

\* A completion is fetched while the poll thread lives: urma_rearm_jfc after
\* each batch keeps the events coming, unless a poll failed in event mode or
\* the queue is edge-triggered.
CompletionsFetched ==
  \A p \in Port : cq[p] > 0 ~> cq[p] = 0 \/ poll[p] = "done" \/ Ended \/ MayStrand

\* "All URMA resources must be released before urma_uninit": no destructor
\* calls into the library afterwards.
NothingAfterUninit == late = {}
=============================================================================
