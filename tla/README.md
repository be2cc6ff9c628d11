# kv-bench: a TLA+ verification project

kv-bench measures WRITE and READ traffic over URMA (the UMDK user-mode library)
between a client process and a server process. This directory holds TLA+ models
of the parts of it in which several things happen at once or in which an
address, a counter or an owner can go wrong; TLC configurations that check them
on small instances; and proofs, checked by TLAPS, of the results that matter
most, for every instance.

Paths below are relative to the repository; `K` stands for
`src/kv_bench.cpp`. `PROJECT.json` maps every definition to the source lines it
models and lists runs, mutants, findings, hazards and theorems.

## 1. The system

### Threads and what they share

    client process                                        server process
    main ── starts ──> workers (1..threads) ── stop ──>   main (waits for enter)
      │                  │   │      │                       │
      │                  │   │      └─ histograms ─> sampler│
      │                  │   └─ send-lane pool (mutex)      accept thread
      │                  └─ event slots (atomic words)      │
      │                        ^                            connection threads
      └─ UrmaManager ── poll thread ── completion queue     (one per client)
                                           ^                   │
                             hardware ─────┘   TCP: WireInfo, end byte
                                └───────── WRITE/READ ──> registered segment

* A **worker** takes a send lane (a *jetty*) from the pool, acquires an event
  for each work request (*WR*), posts the WRs and waits for their events.
* The **poll thread** reads completions and writes the verdict of each into the
  event slot its `user_ctx` names.
* `ctx->fatal` is the one flag by which a worker stops the others.
* The **sampler** reads the workers' histograms and counters while they run.
* The **server** only exchanges addresses with each client over TCP and keeps
  its segment registered until the client is gone.

### Inventory

| Part | State | Operations | What makes it hard | Correct when |
|---|---|---|---|---|
| Event slots (`urma/event_slot_pool.h`, event calls of `urma/urma_manager.cpp`) | one atomic word per slot, generations, free stack | Acquire, Complete, Probe, Abort, WaitEvent | lock-free; completions late, failed, lost, after a timeout; 32-bit generation wraps | a verdict belongs to the event it is reported for; no slot is lost or shared |
| Send-lane pool (`urma/urma_send_lane.h`) | vector, idle queue, idle flags, reverse map | Add, PopIdle, Release, Remove, Clear | swap-with-last removal renumbers; release of lanes no longer in the pool | the four containers agree; a lane has one owner |
| Write and get pipelines (`K` 867–1470) | request slots, free and active lists, counters | collect, post, roll back, drain | several requests in flight, partial posts, timeouts, `fatal` | no lane is reused with a WR in flight; counters are honest; every worker ends |
| Synchronous rounds of mixed mode (`K` 773–865, 1473–1641) and of dual-device mode (`K` 1986–2066) | a lane per port, an event per WR | client_do_write, client_do_get, dual_worker_main | a post refused after others were accepted; one port of several fails | lanes and events come back or are quarantined; pools never run dry |
| Buffer layout (`K` 435–472 and the address arithmetic) | offsets | posting | strides of thread, slot, send and half must match the buffer sizes | in bounds, no overlap |
| Life cycle (`run_client`, `run_server`, `run_dual_client`, `run_dual_server`, `destroy_context`, `UrmaManager::Init/Stop`, `UrmaResource`) | ownership graph of URMA objects | create, fail, stop, destroy | shared pointers outlive their manager; one of several managers fails or stops first | everything is destroyed, in a legal order |
| Poll thread (`PollThreadMain`) | completion queue, armed or not; `stop_` | wait, poll, ack and rearm | a completion between the last poll and the rearm; a poll that fails; Stop at any moment | completions are fetched; the join returns; the queue outlives the thread |
| Cycle clock (`clock.cpp`) and the waits on it | counter, multiplier, shift | kv_clock_init, kv_now_ns | the product wraps | a wait ends |
| Server (`K` 2403–2624) and handshake (`UrmaManager::Exchange`) | connection table, sockets | accept, exchange, wait, stop | slot reuse, shutdown during a handshake, clients that die | no slot has two threads; shutdown completes |
| Histogram and sampler (`hist.h`, `K` 1736–1825) | buckets, total, extremes | record, snapshot, delta, merge, percentile | read bucket by bucket while written | no sample lost or shown twice; percentiles right |
| Chip routing, WR construction, command line, CPU/NUMA placement, chip query | | | | not modelled, see section 8 |

## 2. The modules

| Module | Models | Kind |
|---|---|---|
| `Events` | what the event layer promises | abstract specification |
| `EventSlotPool` | the lock-free slots, one atomic access per step | component |
| `EventSlotPoolLemmas` | tokens and words, facts about one slot, the kinds of step | proofs |
| `EventSlotPoolInvariant` | that `PoolInv` is inductive | proofs |
| `EventSlotPoolProofs` | the properties that follow from it | proofs |
| `EventSlotPoolRefinement` | that it implements `Events` | proofs |
| `LaneQueue` | what the lane pool promises: a FIFO queue of lanes | abstract specification |
| `SendJettyPool` | the lane pool with its four containers | component |
| `Pipeline` | workers, lane pool, events, `fatal`: write and get mode | composition |
| `Rounds` | the same for the synchronous rounds of mixed and dual-device mode | composition |
| `RoundsInvariant` | its inductive invariant, and most of the steps that preserve it | proofs |
| `RoundsProofs` | the remaining steps, and the properties that follow | proofs |
| `BufferLayout` | which bytes the WRs in flight touch | component |
| `BufferLayoutProofs` | the address arithmetic, for all parameters | proofs |
| `PollThread` | the poll threads and their completion queues | component |
| `Lifecycle` | who owns which URMA object, from Init to the end of the process; runs the poll threads beside the main thread | composition |
| `Server` | server threads, clients, sockets, shutdown | composition |
| `ServerProofs` | its safety properties, for any number of clients and slots | proofs |
| `CycleClock` | the fixed-point clock at a reduced width, and a wait on it | component |
| `Hist` | recording workers, the sampler, the summary; percentiles as operators | component |
| `MC...` | instances: symmetry sets and model values for TLC | |

The composition modules use the *abstract* interfaces: events as in `Events`
(acquired, pending, one verdict, cancelled), lanes as in `LaneQueue` without its
order (any idle lane may come next, which allows more than the FIFO does). That
the concrete pools provide these interfaces is checked by `ImplementsEvents`
(also proved) and `ImplementsQueue`.

### How state and actions correspond to the code

**EventSlotPool.** `states`, `generations`, `freeSlots`, `freeCount` are the
members of the class. A token is `generation * kSlotCount + index`, a word
`token * 4 + tag`: the shifts of the C++ code as arithmetic, so that the wrap of
the generation (`GenLimit`, 2^32 in the code) is exact. The worker and the poll
thread share only the words: `Acquire` and `Complete` touch one word once and
are single steps; `Probe` and `Abort` are a load and a compare-and-swap with any
number of `Complete` steps in between. `WaitEvent` is its loop of probes with the
last probe after the deadline and the Abort after that. The hardware reports a
posted WR at most once, at any time, also after the worker gave up.

**SendJettyPool.** Every operation holds `mutex_` throughout and is one step.
`held` and `dropped` record which pointers the callers have.

**Pipeline.** A step is one access to shared state (lane pool, `fatal`), one
WaitEvent, or a stretch of local work. `LoopCheck`, `CollectSlot`,
`ReleaseLane`, `CollectEnd` are the collect phase; `SendCheck` to `PostRejected`
are the send loop with post_one_req / post_one_get; `RollbackWait`,
`RollbackEnd` undo a request that was posted in part; `WriteDrain` and
`GetDrain...` are the two different drains. Where the code releases a lane and
resets the slot's pointer at once (`GiveBack`) this is one step. The drain of get
releases all lanes of a request (`GetDrainRelease`, one step each) before it
resets the pointers (`GetDrainReset`), so that for a while its slot points to
lanes other workers may have; `Holds` leaves these pointers out. `Deliver` is the poll thread,
`LateComplete` a completion nobody waits for any more, `Deadline` the clock.
The rate limiter appears as its sleep between two readings of the flags.

**Rounds.** The three kinds of round differ in the ports their WRs go to
(`PortsOf`): a mixed write posts two WRs on one lane, a mixed get one, a dual
round one on each port. What follows is the same code in all three functions and
one set of actions here: `Acquire` (a lane and the events of its WRs), `Post` or
`PostRejected`, `WaitEvent` for each accepted WR, `Settle` for each lane, and
`RoundDone` or `RoundFailed`. `lost` is history: the lane a worker let go of
without releasing it.

**BufferLayout.** Addresses are offsets; a WR in flight is a record of its
digits (worker, slot, send, half), local and remote address and length. `server`
has the op and the size the server was started with, by which it lays out its own
buffer; `Accepted` is the check of Exchange, which compares the `send_size` of
the two ends and nothing else.

**PollThread.** `poll` is where PollThreadMain is: at the test of `stop_`, in
urma_wait_jfc, at urma_poll_jfc, between the poll and the rearm. The queue raises
an event when a completion arrives while it is armed. Whether a rearm with
completions waiting raises one at once (`level`) is the device's business and
both are tried.

**Lifecycle.** `own` is the set of smart pointers as edges; an object dies with
its last edge, as the destructors do. The four functions that own managers are
records (`run_client`, ...) of how many managers they have, which phases each
goes through and where an error leads. `Create` and `ClearNext` walk the creation
order of `UrmaResource` and the order in which Stop clears it. Every creating
call may fail. `Exchange` stands for connect or accept and the reads of the
handshake, none of which has a timeout. `counted` says whether the library counts its urma_init calls.

**Server.** A socket is what each end wrote and whether it is closed. `used`,
`thread`, `peer`, `imported` are the connection table; client steps are the
client's half of the handshake, its run and its end byte.

**CycleClock.** `sftacc` and `CalcMultShift` are the two loops of the function of
that name as the extremes they search for; `kv_now_ns` keeps the low `Width` bits
of the product as `uint64_t` does. `BeginWait` to `GiveUp` are WaitEvent.

**Hist.** `RecordCount` is the atomic increment of a bucket, `RecordTotal` the
updates that follow it; `SamplerReads` reads one bucket. Bucket indices, value
ranges and percentiles are operators translated from `hist.h`; percentiles are
compared with the ranking of the recorded samples. Only buckets some member of
`Values` falls into are kept; all others stay zero.

## 3. Runs

### Runs that pass

| Run | Question | Answer |
|---|---|---|
| `event_slot_pool` | worker and poll thread interleaved in every way; completions late, failed, missing; slots used beyond a wrap of the generation | the inductive invariant `PoolInv` holds throughout. Until a slot wraps, verdicts are faithful, what is about an ended event changes nothing, and the pool implements `Events`; afterwards a stale token can match only a full cycle of generations away. Every call returns |
| `send_jetty_pool` | two threads, four lanes, any order of operations | containers agree, one owner, statistics exact, implements `LaneQueue` |
| `pipeline` | one worker, writing or reading, two overlapping requests of two WRs, all failures, hardware that may never answer | idle lanes are quiet, slots and events accounted for, counters earned; a write run without trouble counts everything; a worker told to stop finishes |
| `shared_lanes` | two workers, three lanes, requests of two sends, `fatal` | no lane shared; none lost unless a WR failed, was refused or timed out, so an empty pool is contention; at most one request per worker begins after `fatal` |
| `lifecycle` | client and server, with one manager or two, in polling and in event mode; start-up failing at each step; lanes left in slots; completions arriving and polls failing at any time | all objects are released, a poll thread never lives without its queue, only the expected objects outlive the context; tear-down ends, the joins of the poll threads included; completions are fetched |
| `server` | two clients for one slot, enter at any time, handshakes that fail, deaths | a slot has one thread, nothing is left at exit, awaited clients keep the segment, and after enter everyone ends |
| `rounds` | two workers in mixed mode, two threads on two ports in dual mode, on the smallest pools, with refused posts and late, failed and lost WRs | an idle lane carries no WR; a pool is never empty when a round asks; a round leaves neither lane nor event behind |
| `layout` | the WRs in flight in write, get and mixed mode; servers with the client's or other arguments | inside the client's buffer and that of a server started for the client; READs land apart; one worker's targets differ |
| `hist` | two workers recording while the sampler scans | no interval loses or repeats a sample; the summary's percentiles are the bucket of the sample of that rank, and every latency fits its bucket |

`TypeOK` of a module is a conjunct of one of its invariants (`PoolInv`,
`ContainersAgree`, `SlotsAccounted`, `PollerHasQueue`, `SlotHasOneThread`,
`LanesSuffice`, `IntervalsDisjoint`).

### Runs that show a disagreement

Each checks one property that a comment states and that the code does not have.
`PROJECT.json` quotes the lines.

| Run | Stated | What happens |
|---|---|---|
| `get_drain` (`CleanRunCountsAll`) | the get pipeline is "isomorphic" to write; the write drain says why consumed WRs must be skipped | the get drain waits for completions that ProbeEvent has consumed, times out, drops healthy lanes and counts an error (`K`:1433) |
| `lifecycle_fatal` (`NothingAfterUninit`) | all objects must be freed before urma_uninit | lanes in the slots of a worker that gave up are destroyed after it (`K`:1928) |
| `clock` (`WaitEnds`) | WaitEvent times out after `--timeout-ms`; the multiplier is chosen so that the product does not overflow | the product of the counter since power-on wraps, about every 1100 s for the usual frequencies. A wait that begins less than its timeout before that has a deadline no reading reaches (`clock.cpp`:139) |

### Observations without a run

Smaller disagreements between a comment (translated here) and the code, met while
modelling. The models follow the code.

* An exhausted lane pool is called "not fatal, retry later" (`K`:1207) and "not
  fatal, wait for completions to release a jetty" (`K`:1395; likewise
  `DESIGN.md`:171 and the repository's `README.md`:139), but post_one_req and post_one_get return -1
  (`K`:923, `K`:1241), the worker sets `fatal` and the run is aborted. The pool is
  sized `max(jetty_count, threads, 10 * concurrency)`, not times `threads`, so
  healthy workers reach this; in `shared_lanes` they do. What that run shows is
  that nothing but contention leads there: `LanesKept`.
* The server's data area "covers the largest window of the client's pipeline"
  (`K`:461), but its length comes from the server's own op and value_size, which
  Exchange does not compare (`urma/urma_manager.cpp`:542). In get or mixed mode
  a client whose `--value-size` is larger than the server's computes addresses
  behind the server's buffer. `InBounds` is about a server started for the client
  (`ServerFits`); in write mode Exchange sees to the size.
* "Wait for the client's end" (`K`:2430): not when enter was pressed during the
  handshake, since `server_stop` is tested before the first read (`K`:2433).
  `AwaitedKeepSegment` is about the clients whose read has begun.
* A get round of mixed mode reads one value and is counted as two (`K`:1544).
* "A window for each thread" (`K`:2097): the threads of dual mode advance modulo
  the whole buffer (`K`:2056) and meet in a slice.
* "To avoid address collisions between requests in flight" (`K`:900): the remote offset has no
  thread in it (`K`:904), so the same slot of two workers has the same target.
  `TargetsDisjointPerWorker` is what holds.
* "3 significant decimal digits of resolution" in "the standard HdrHistogram
  layout" (`hist.h`:4): the
  linear part ends at half the sub-buckets (`hist.h`:148), so that half of every
  bucket is unused and 1024 is reported as 1026. `BucketsHoldTheirValues` states
  the resolution the code has.
* The drain deadlines (`K`:1117, `K`:1422), the end of a run and the statistics
  per second are computed from the same clock and are affected by its wrap too.
* "The poll thread is started with the first worker" (`urma/urma_manager.h`:75):
  Init starts it (`urma/urma_manager.cpp`:244). The models start it there.
* An Init that fails after urma_init does not call urma_uninit, and Stop does
  nothing for it. `AllReleased` demands the call unless Init failed half-way.
* In event mode a poll that fails, or returns nothing, is not followed by a rearm
  (`urma/urma_manager.cpp`:433): if the queue was disarmed by the event, no event
  comes any more. With an edge-triggered queue a completion between the poll and
  the rearm waits for the next one. `CompletionsFetched` names these cases
  (`MayStrand`) and holds of all others.
* The four managers of dual mode stop one after the other, and each calls
  urma_uninit (`K`:2210). Unless the library counts its users, three of them
  destroy objects after it; `DrainedMeansInTime` with several managers, and what
  `PollerHasQueue` says of the library, are about one that counts.
* The error returns of run_dual_server after its first manager and those of
  run_dual_client after its last one stop and free nothing (`K`:2101); the process
  ends with them. `AllReleased` says what holds when a port of run_dual_client
  fails to initialise.
* Dual mode merges the workers' histograms two seconds after their deadline and
  before it joins them (`K`:2185): a worker inside a longer WaitEvent is missed.

### Mutants

Every property of every passing run has a mutant: a variant of one mapped
definition with a plausible bug (a dropped guard, a missing reset, a stride
without the thread) under which TLC finds the property violated. They are
defined next to the original, with a comment that begins "Mutant:".

## 4. Bounds, and why they are enough

* **EventSlotPool**: 2 slots, so that a completion for one can hit the other if
  an index is wrong. `MaxEvents = 3` acquisitions in all, in any distribution: a
  late completion of the first event of a slot meets the second, and with
  `GenLimit = 3` (generations 1 and 2) the third event of a slot has the token of
  the first. `NoWrap` tells the two phases apart. The proofs remove these bounds.
* **SendJettyPool**: 4 lanes make removal from the middle, from the end, and of
  the lane that was moved there before, three different cases; 2 threads can
  release in the opposite order.
* **Pipeline**: `MaxRequests` bounds the requests a worker begins. Three requests
  on two slots reuse a slot; sends of two WRs (`pipeline`) and requests of two
  sends (`shared_lanes`) give partial posts at every position; two workers on
  three lanes run the pool dry. In `pipeline`, `EventSlots` is concurrency times
  the WRs of a request, the least the code's `static_assert` would admit, so
  `EventsSuffice` is tight.
* **Rounds**: as many lanes as threads, the least `run_client` and
  `run_dual_client` make; two rounds, so that a lane or an event left behind by
  the first is missed by the second. Two of the four ports: a failing port and
  another one. The proofs remove these bounds.
* **Server**: two clients for one slot: reuse, and a refusal; `Sizes` holds an
  equal, a different and an unset `send_size`. The proofs remove the bounds for
  the safety properties.
* **Lifecycle**, **PollThread**: two managers: one that fails or stops and one
  that is already there or still runs. Two lanes: none, one or all left in slots.
  Batches of one completion, so that the second of two is left in the queue when
  it is rearmed; one failing poll.
* **CycleClock**: 8 bits for the 64 of the code, 4 for the 32 of the multiplier,
  and a second of 8 units, so that the multiplier and shift are chosen by the
  same loops as the real ones and neither is trivial. The counter starts
  anywhere.
* **BufferLayout**: two of everything; a size of 6, even as the pipelines need it
  and no power of two, which would hide a wrong modulus; servers of a smaller, the
  same and a larger size. The properties relate at most two WRs, so
  `MaxInFlight = 4` of them at a time are enough. The proofs remove the bounds.
* **Hist**: `highest` 100 with one significant digit gives several buckets of
  different widths. Two workers with two samples each, so that one records on
  either side of the sampler's position; one value in a bucket that is wider than
  one and one above the range. `BucketsHoldTheirValues` ranges over all
  latencies up to the largest recorded one.

Symmetry is used on lanes and workers where nothing tells them apart, and never
in a run with a liveness property. Deadlock is checked in every run: modules whose
processes end have an explicit final step, enabled only when everyone has
ended (`AllDone`, `Joined`, `AllOver`, `Ended`), so a worker that is stuck is
reported.

## 5. Fairness

* `EventSlotPool`: weak fairness of `WorkerStep`: the thread inside a call keeps
  running and its clock reaches the deadline. Nothing is assumed of the poll
  thread or the hardware. The compare-and-swap loop of Abort ends because a
  slot's word changes at most once per event.
* `Pipeline`: weak fairness of each worker's own steps, as the scheduler of an
  operating system gives. Not of `Deliver` (hardware may never answer) nor of
  `Deadline`: `StopsWhenTold` begins where the deadline has passed or `fatal` is
  set. WaitEvent has a timeout, so a waiting worker always has a step.
* `Server`: weak fairness of the accept thread, of each connection thread, of the
  main thread's joins and of each client's own steps (a client runs for
  `--duration` seconds and then says goodbye). Not of pressing enter, of new
  clients arriving, or of clients dying.
* `Lifecycle`: weak fairness of the main thread, except in the exchange and while
  the workers run, and of each poll thread. connect, accept and the reads of the
  handshake wait for the peer without a timeout, so nothing is assumed of them and
  `TearDownEnds` begins with the tear-down, in which the main thread waits for the
  poll threads only. urma_wait_jfc returns after 100 ms, so a poll thread
  always has a step. Nothing is assumed of the arrival of completions.
* `CycleClock`: the counter moves on, and a worker that can find the deadline
  passed, or its event complete, again and again does so at some time (strong
  fairness, because each reading is only there for a moment). The wait that never
  ends is not a wait that was never looked at.

## 6. Proofs

### EventSlotPoolLemmas, ...Invariant, ...Proofs, ...Refinement

Assumptions: at least one slot (`SlotAssumption`), more than one generation
(`GenAssumption`), `MaxAcquire` and `MaxEvents` numbers (`BoundAssumption`). They
are arbitrary, so they bound nothing in the proof; the properties that the wrap
of the generation would break have the hypothesis `NoWrap`, "no slot has been
acquired 2^32 times yet", about the state they speak of. `NoWrapBefore` shows
that it can only be lost, never regained.

The properties are not inductive. `PoolInv` adds

* `GenerationsInv`: a slot's generation and every token are a function of the
  ordinal of the acquisition (`GenOf`), which is how the wrap is handled;
* `WordsInv`: a word is zero or carries the latest token of its slot, and a
  verdict in it was delivered for that token, so that Complete's
  compare-and-swap can only hit the event it is meant for;
* `CallInv`: what the worker read before its compare-and-swap is still about its
  own event, whatever Complete did in between;
* `ResultsInv` and `LiveInv`: verdicts handed out were delivered, and an event is
  live exactly if it is its slot's latest and the slot is in use.

The step proof has one case per action and one step per conjunct an action can
disturb. Arithmetic on tokens and words (decoding inverts encoding; `GenOf`
repeats only after `GenLimit - 1`) is in lemmas of its own. From `PoolInv` follow
`TypeCorrect`, `FreeStackIsExact`, `OneLiveEvent`, `ResultsFaithful`,
`AliasWindow` (without the hypothesis `NoWrap`) and the
action property `EndedInert`.

`PoolImplementsEvents` maps live events to `pending` or `verdict` by what their
slot's word says and shows that each step of the pool is a step of `Events` or
changes nothing there, as long as `NoWrap` holds; `BoundedPoolImplementsEvents` is
the plain refinement for runs that never wrap. With it the workers' models may
treat an event as an object of its own.

### BufferLayoutProofs

Assumptions: what `validate_input_params` lets pass (`SizeAssumption`,
`OpAssumption`): positive numbers, an even size in write and get mode,
concurrency at most `KV_MAX_CONCURRENCY`, and an even `DATA_WINDOW_PER_THREAD`.
`Ops` may hold any of the three modes, and `ServerSizes` any numbers
(`ServerAssumption`). `AlwaysInBounds` bounds the server's side only for a server
that fits (`ServerFits`): it was started with the client's op and, in get and
mixed mode, with a value_size not below the client's. The code does not enforce
this, it is up to who starts the two ends. In write mode the sizes need no such
hypothesis: `ServerRoom` takes them from the check of Exchange (`Accepted`).
Arithmetic is that of unbounded integers; see section 8.

An address is a block number times half a send. The block number is a mixed-radix
number with the digits thread, slot, send and half: it is below the product of
the radices (`RadixBound`), which is the client's buffer's length in blocks and at
most the server's (`ServerRoom`), and it
determines its digits (`RadixUnique`), so different WRs use different blocks.
In mixed mode `LayoutInv` says that offsets are multiples of a round; the modulus
is one too (`BlockModulo`), so the second value of a round never runs over the
end. `AlwaysInBounds`, `ReadsLandApart` and `TargetsApart` follow.

### RoundsInvariant, RoundsProofs

Assumptions: mixed or dual mode (`ModeAssumption`), positive numbers of threads and
ports and any number of rounds (`CountAssumption`), and a
finite pool of at least as many lanes as threads (`PoolAssumption`), which is how
`run_client` and `run_dual_client` size it.

None of the three properties is inductive: that a lane in the pool is quiet
depends on what a worker knows of its own WRs when it settles the lane.
`RoundsInv` adds, for each worker,

* `Position`: how far posting and waiting are, and that the WRs of one lane are
  consecutive, so that the one settled is the last of its lane;
* `Holds`: it has a lane on exactly the ports of the WRs it still has to settle;
* `Slots`: it has exactly the event slots of the WRs it still has to wait for;
* `Lost`: a quarantined lane means that the round will fail (some WR before the
  current one has not succeeded) or has failed, so the worker begins no other;

and for the whole, `OnWire`: the lane of an outstanding WR is quarantined or
still with the round that posted it, which has not seen it succeed; `Single`: a
WR is outstanding once; `OneOwner`: a lane is in its pool or has one owner.
`PoolsSuffice` is a counting argument: a worker that asks has neither a lane nor
a quarantined one on that port, so the owners of the port's lanes are the other
workers, fewer than there are lanes.

### ServerProofs

Assumptions: at least one slot, and a name for "no client" that is no client.
`ServerInv` says that a thread that is not over has a used slot, a client of its
own and, only between Exchange and the end, imported objects (`ThreadInv`,
`PeerInv`); that the main thread is past a slot only when its thread is over and
the accept thread has returned (`JoinInv`); and that the thread of a client whose
end is awaited is in its read as long as the client neither said 'E' nor closed
(`AwaitInv`), which is why the segment is still there. The three safety properties
of the run follow. It also holds of three clients on two slots (checked with TLC,
2,037,554 states).

### Only model-checked

Liveness (`CallsReturn`, `StopsWhenTold`, `EveryoneEnds`, `TearDownEnds`,
`CompletionsFetched`): fairness and ENABLED are beyond the prover. What `hist.h`
computes, and the queue of `SendJettyPool`, whose Remove filters a sequence
(`ContainersAgree`, `OneOwner`, `ImplementsQueue`): both would need induction over
data. The safety properties of `Pipeline` and `Lifecycle`.

## 7. Environment

Modelled from how the code uses it, and marked external in `PROJECT.json`: the
UMDK library accepts or refuses a post; the hardware reports an accepted WR at
most once, at any time, with success or failure; TCP delivers in order and shows
the end of a closed connection; clocks move forward, except where `CycleClock`
looks at how they wrap. Atomics are sequentially
consistent in the models: the words use acquire and release on a single location
each, where the order of one location's changes is all the pool relies on.

## 8. Not modelled

* **Chip routing**: chooses the path of a send, never whether it completes; its
  weights are multiplied in 32 bits (`K`:714), which can distort the split and
  nothing else.
* **WR construction** (`BuildBondpWr`, `PostJettyRw`): fills library structures.
* **Command line, CPU and NUMA placement, chip query**: I/O; the ranges that
  argument checking enforces are the models' assumptions.
* Parts of modelled components: the encoding of `WireInfo`, partial reads and the
  fallback to another transport type (handshake); the regression of the clock's
  calibration, which is a choice of its result; `kv_hist_mean`; the rates the
  sampler prints; 64-bit overflow of addresses, which the admitted sizes exclude;
  failure of `pthread_create`.

## 9. Plan

The order in which the project grew, and what is next:

1. Events and lanes, each with an abstract specification (done).
2. The three client loops on top of the abstract interfaces (done).
3. Server, life cycle, buffer layout, histogram (done).
4. Proofs of the event slots and of the address arithmetic (done).
5. The poll thread in both modes, the dual life cycle, the clock (done).
6. Proofs of the rounds and of the server (done).
7. Next: the safety properties of `Pipeline`, whose invariant is that of `Rounds`
   for several requests at a time; chip routing and its 32-bit weights as a pure
   module; `WireInfo` and the transport fallback.

## 10. Running it

    tlc -workers 2 -config EventSlotPool.cfg EventSlotPool
    tlc -workers 2 -config SharedLanes.cfg MCPipeline
    tlapm EventSlotPoolInvariant.tla
    tlapm RoundsProofs.tla

The longest TLC run takes about a minute, the longest proof several.
