---------------------------- MODULE BufferLayout ----------------------------
(***************************************************************************)
(* Which bytes of the client's and of the server's registered buffer the   *)
(* WRs in flight touch (layout_client_buffer, layout_server_buffer and the *)
(* address arithmetic of post_one_req, post_one_get, client_do_write and   *)
(* client_do_get in src/kv_bench.cpp).                                     *)
(*                                                                         *)
(* Addresses are offsets from the start of a buffer; size stands for       *)
(* send_size in write mode and for value_size otherwise.  The server lays  *)
(* out its buffer by its own op and size, of which Exchange has compared   *)
(* the send_size only.                                                     *)
(***************************************************************************)
EXTENDS Integers, FiniteSets

CONSTANTS
  Ops,    (* the values of --op that are tried *)
  size, threads, concurrency, fixed_offset,
  ServerSizes,   (* the sizes the server may have been started with *)
  MaxInFlight,   (* bound: a pipeline posts only while fewer WRs are in flight *)
  KV_SENDS_PER_REQ, KV_MAX_CONCURRENCY, DATA_WINDOW_PER_THREAD, SERVER_DATA_WINDOW

ASSUME OpAssumption == Ops \subseteq {"write", "get", "mixed"} /\ fixed_offset \in BOOLEAN
\* What validate_input_params lets pass; the pipelines split a send in two.
ASSUME SizeAssumption ==
  /\ size \in Nat \ {0} /\ (Ops # {"mixed"} => size % 2 = 0)
  /\ threads \in Nat \ {0}
  /\ KV_MAX_CONCURRENCY \in Nat /\ concurrency \in 1 .. KV_MAX_CONCURRENCY
  /\ KV_SENDS_PER_REQ \in Nat \ {0}
  /\ DATA_WINDOW_PER_THREAD \in Nat \ {0} /\ DATA_WINDOW_PER_THREAD % 2 = 0
  /\ SERVER_DATA_WINDOW \in Nat \ {0}
ASSUME ServerAssumption == ServerSizes \subseteq Nat
ASSUME BoundAssumption == MaxInFlight \in Nat

Worker == 0 .. threads - 1
SlotIdx == 0 .. concurrency - 1
Server == [op : {"write", "get", "mixed"}, size : ServerSizes]

VARIABLES
  op,     (* args->op of the client                    *)
  server, (* op and size of the server                 *)
  wire,   (* the WRs in flight                         *)
  off,    (* w->off, used by the rounds of mixed mode  *)
  busy    (* the workers inside a round of mixed mode  *)

vars == <<op, server, wire, off, busy>>

\* data_len of layout_client_buffer.
ClientDataLen ==
  CASE op = "write" -> threads * concurrency * size
    [] op = "get"   -> threads * concurrency * size * KV_SENDS_PER_REQ
    [] op = "mixed" -> threads * DATA_WINDOW_PER_THREAD * size

\* data_len of layout_server_buffer, by the arguments of the server.
ServerDataLen ==
  IF server.op = "mixed" THEN SERVER_DATA_WINDOW * server.size
                         ELSE KV_SENDS_PER_REQ * KV_MAX_CONCURRENCY * server.size

\* Mutant: Exchange compares nothing.
AnyServer(srv) == TRUE

\* The servers Exchange accepts.  WireInfo has the send_size, which is the size
\* of either end in write mode; op and value_size are not sent.
Accepted(srv) == op = "write" /\ srv.op = "write" => srv.size = size

Init ==
  /\ op \in Ops /\ wire = {} /\ busy = {}
  /\ server \in Server /\ Accepted(server)
  /\ off = [w \in Worker |-> w * DATA_WINDOW_PER_THREAD * size]

Wr(w, slot, send, half, local, remote, len) ==
  [worker |-> w, slot |-> slot, send |-> send, half |-> half,
   local |-> local, remote |-> remote, len |-> len]

\* post_one_req: the sends of a request share the local block of their slot.
WriteWr(w, slot, send, half) ==
  Wr(w, slot, send, half,
     slot * size + half * (size \div 2),
     slot * size * KV_SENDS_PER_REQ + send * size + half * (size \div 2),
     size \div 2)

\* Mutant: the threads share the landing zone.
GetWrNoThread(w, slot, send, half) ==
  Wr(w, slot, send, half,
     slot * size * KV_SENDS_PER_REQ + send * size + half * (size \div 2),
     slot * size * KV_SENDS_PER_REQ + send * size + half * (size \div 2),
     size \div 2)

\* post_one_get: every send has a block of its own, apart for each thread.
GetWr(w, slot, send, half) ==
  Wr(w, slot, send, half,
     w * concurrency * size * KV_SENDS_PER_REQ + slot * size * KV_SENDS_PER_REQ
       + send * size + half * (size \div 2),
     slot * size * KV_SENDS_PER_REQ + send * size + half * (size \div 2),
     size \div 2)

\* Mutant: the slots share the target.
PipelineWrOneTarget(w, slot, send, half) ==
  [ (IF op = "write" THEN WriteWr(w, slot, send, half) ELSE GetWr(w, slot, send, half))
    EXCEPT !.remote = send * size + half * (size \div 2) ]

PipelineWr(w, slot, send, half) ==
  IF op = "write" THEN WriteWr(w, slot, send, half) ELSE GetWr(w, slot, send, half)

\* One WR of a pipelined request is posted.
PostPipelined(w, slot, send, half) ==
  /\ op \in {"write", "get"}
  /\ Cardinality(wire) < MaxInFlight
  /\ wire' = wire \cup {PipelineWr(w, slot, send, half)}
  /\ UNCHANGED <<op, server, off, busy>>

\* WR n of a round of mixed mode.
MixedWr(w, n) ==
  Wr(w, 0, 0, n, off[w] + n * size, (off[w] + n * size) % (SERVER_DATA_WINDOW * size), size)

\* client_do_write posts two WRs, or one when the post of B fails;
\* client_do_get posts one.
MixedRound(w) ==
  /\ op = "mixed" /\ w \notin busy
  /\ \E n \in {1, 2} : wire' = wire \cup {MixedWr(w, k) : k \in 0 .. n - 1}
  /\ busy' = busy \cup {w}
  /\ UNCHANGED <<op, server, off>>

\* Mutant: the offset runs on past the window.
MixedRoundDoneNoWrap(w) ==
  /\ w \in busy /\ \A r \in wire : r.worker # w
  /\ off[w] < 2 * threads * DATA_WINDOW_PER_THREAD * size
  /\ off' = [off EXCEPT ![w] = @ + 2 * size]
  /\ busy' = busy \ {w}
  /\ UNCHANGED <<op, server, wire>>

\* The round was waited for: w->off is advanced by round_bytes, whether it
\* wrote two values or read one, unless fixed_offset is set.  A worker whose
\* round fails stays where it is: its loop ends.
MixedRoundDone(w) ==
  /\ w \in busy /\ \A r \in wire : r.worker # w
  /\ off' = IF fixed_offset THEN off
            ELSE [off EXCEPT ![w] =
                    (@ + 2 * size) % (threads * DATA_WINDOW_PER_THREAD * size)]
  /\ busy' = busy \ {w}
  /\ UNCHANGED <<op, server, wire>>

Complete(r) == wire' = wire \ {r} /\ UNCHANGED <<op, server, off, busy>>

Next ==
  \/ \E w \in Worker, slot \in SlotIdx, send \in 0 .. KV_SENDS_PER_REQ - 1, half \in {0, 1} :
       PostPipelined(w, slot, send, half)
  \/ \E w \in Worker : MixedRound(w) \/ MixedRoundDone(w)
  \/ \E r \in wire : Complete(r)

Spec == Init /\ [][Next]_vars
-----------------------------------------------------------------------------
Disjoint(a, b, len) == a + len <= b \/ b + len <= a

\* The server was started for this client: with the same op and, where Exchange
\* does not compare the sizes, with a value_size that is not smaller.
ServerFits == server.op = op /\ (op = "write" \/ server.size >= size)

\* No WR leaves the client's registered buffer, nor the buffer of a server that
\* was started for it: the layout functions of both ends, the check of Exchange
\* and the address arithmetic agree.
InBounds ==
  \A r \in wire : /\ r.local >= 0 /\ r.local + r.len <= ClientDataLen
                  /\ r.remote >= 0
                  /\ ServerFits => r.remote + r.len <= ServerDataLen

\* Two READs in flight never land on the same byte of the client's buffer,
\* whichever threads, slots and sends they belong to.
LandingsDisjoint ==
  op = "get" => \A r, s \in wire : r # s => Disjoint(r.local, s.local, r.len)

\* The requests one worker has in flight use different bytes of the server.
TargetsDisjointPerWorker ==
  op # "mixed" => \A r, s \in wire : r.worker = s.worker /\ r # s
                                     => Disjoint(r.remote, s.remote, r.len)
-----------------------------------------------------------------------------
(***************************************************************************)
(* The inductive invariant behind these properties.                        *)
(***************************************************************************)
PipelineWrs ==
  {PipelineWr(w, slot, send, half) :
     w \in Worker, slot \in SlotIdx, send \in 0 .. KV_SENDS_PER_REQ - 1, half \in {0, 1}}

\* The values of w->off: rounds of two values tile the buffer.
Offsets == {j * (2 * size) : j \in 0 .. threads * (DATA_WINDOW_PER_THREAD \div 2) - 1}

\* A WR of a pipeline is one of those its loops compute; a WR of mixed mode
\* begins at the offset of a round or one value later, and its target is the
\* same place modulo the server's window.
LayoutInv ==
  /\ op \in Ops /\ server \in Server /\ Accepted(server)
  /\ off \in [Worker -> Offsets]
  /\ op # "mixed" => wire \subseteq PipelineWrs
  /\ op = "mixed" => \A r \in wire :
       /\ r.len = size /\ r.remote = r.local % (SERVER_DATA_WINDOW * size)
       /\ \E o \in Offsets, n \in {0, 1} : r.local = o + n * size
=============================================================================
