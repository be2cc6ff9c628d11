------------------------- MODULE BufferLayoutProofs -------------------------
(***************************************************************************)
(* The address arithmetic is right for every number of threads, every      *)
(* concurrency and every size the command line admits: all WRs stay inside *)
(* the client's buffer, and inside that of a server started for the        *)
(* client, READs never land on each other, and the requests of one worker  *)
(* have different targets.                                                 *)
(*                                                                         *)
(* Every address is a block number times a block length.  The block number *)
(* is written in a mixed radix (thread, slot, send, half), so it is        *)
(* bounded by the product of the radices and determines its digits.        *)
(***************************************************************************)
EXTENDS BufferLayout, TLAPS

(***************************************************************************)
(* Arithmetic.                                                             *)
(***************************************************************************)

\* Block a of length len ends before block n begins.
LEMMA BlocksOrdered ==
  ASSUME NEW a \in Nat, NEW n \in Nat, NEW len \in Nat, a < n
  PROVE  a * len + len <= n * len
<1>1. PICK d \in Nat : n = a + 1 + d
  <2>1. n - a - 1 \in Nat /\ n = a + 1 + (n - a - 1)
    OBVIOUS
  <2>2. QED BY <2>1
<1>2. n * len = a * len + len + d * len
  BY <1>1
<1>3. d * len \in Nat /\ a * len \in Nat /\ n * len \in Nat
  OBVIOUS
<1>4. QED BY <1>2, <1>3

\* A longer block makes a longer row of blocks.
LEMMA RowsOrdered ==
  ASSUME NEW n \in Nat, NEW a \in Nat, NEW b \in Nat, a <= b
  PROVE  n * a <= n * b
<1>1. PICK d \in Nat : b = a + d
  <2>1. b - a \in Nat /\ b = a + (b - a)
    OBVIOUS
  <2>2. QED BY <2>1
<1>2. n * b = n * a + n * d
  BY <1>1
<1>3. n * a \in Nat /\ n * d \in Nat /\ n * b \in Nat
  OBVIOUS
<1>4. QED BY <1>2, <1>3

\* Different blocks have no byte in common.
LEMMA BlocksApart ==
  ASSUME NEW a \in Nat, NEW b \in Nat, NEW len \in Nat, a # b
  PROVE  Disjoint(a * len, b * len, len)
<1>1. CASE a < b
  BY <1>1, BlocksOrdered DEF Disjoint
<1>2. CASE b < a
  BY <1>2, BlocksOrdered DEF Disjoint
<1>3. QED BY <1>1, <1>2

\* A number with a leading digit below n and a rest below m is below n * m.
LEMMA RadixBound ==
  ASSUME NEW n \in Nat, NEW m \in Nat, NEW a \in 0 .. n - 1, NEW b \in 0 .. m - 1
  PROVE  a * m + b \in 0 .. n * m - 1
<1>1. a * m + m <= n * m
  BY BlocksOrdered
<1>2. a * m \in Nat /\ n * m \in Nat
  OBVIOUS
<1>3. QED BY <1>1, <1>2

\* A number determines its digits.
LEMMA RadixUnique ==
  ASSUME NEW m \in Nat, NEW a \in Nat, NEW c \in Nat,
         NEW b \in 0 .. m - 1, NEW d \in 0 .. m - 1, a * m + b = c * m + d
  PROVE  a = c /\ b = d
<1>1. a * m \in Nat /\ c * m \in Nat
  OBVIOUS
<1>2. CASE a < c
  <2>1. a * m + m <= c * m
    BY <1>2, BlocksOrdered
  <2>2. QED BY <1>1, <2>1
<1>3. CASE c < a
  <2>1. c * m + m <= a * m
    BY <1>3, BlocksOrdered
  <2>2. QED BY <1>1, <2>1
<1>4. CASE a = c
  <2>1. a * m = c * m
    BY <1>4
  <2>2. QED BY <1>1, <1>4, <2>1
<1>5. QED BY <1>2, <1>3, <1>4

\* A remainder is known by what it leaves.
LEMMA RemainderUnique ==
  ASSUME NEW y \in Nat, NEW d \in Nat \ {0}, NEW q \in Nat, NEW r \in 0 .. d - 1,
         y = q * d + r
  PROVE  y % d = r
<1>1. PICK a \in Nat, b \in 0 .. d - 1 : b = y % d /\ y = a * d + b
  <2>1. (y \div d) \in Nat /\ (y % d) \in 0 .. d - 1 /\ y = (y \div d) * d + (y % d)
    OBVIOUS
  <2>2. QED BY <2>1, Zenon
<1>2. a * d + b = q * d + r
  BY <1>1, Zenon
<1>3. b = r
  BY <1>2, RadixUnique
<1>4. QED BY <1>1, <1>3

\* The remainder of a block's address by a whole number of blocks is the
\* address of a block.
LEMMA BlockModulo ==
  ASSUME NEW x \in Nat, NEW n \in Nat \ {0}, NEW len \in Nat \ {0}
  PROVE  \E r \in 0 .. n - 1 : (x * len) % (n * len) = r * len
<1>1. PICK q \in Nat, r \in 0 .. n - 1 : x = q * n + r
  <2>1. (x \div n) \in Nat /\ (x % n) \in 0 .. n - 1 /\ x = (x \div n) * n + (x % n)
    OBVIOUS
  <2>2. QED BY <2>1
<1>2. x * len = q * (n * len) + r * len
  BY <1>1
<1>3. n * len \in Nat \ {0} /\ x * len \in Nat /\ r * len \in Nat
  OBVIOUS
<1>4. r * len \in 0 .. (n * len) - 1
  <2>1. r * len + len <= n * len
    BY BlocksOrdered
  <2>2. QED BY <1>3, <2>1
<1>5. (x * len) % (n * len) = r * len
  BY <1>2, <1>3, <1>4, RemainderUnique, Zenon
<1>6. QED BY <1>5, Zenon

(***************************************************************************)
(* The WRs of the pipelines.                                               *)
(***************************************************************************)
Unit == size \div 2
SendIdx == 0 .. KV_SENDS_PER_REQ - 1

\* The number of a WR among those of its worker's request slots, and among
\* those of all workers.
SlotBlock(slot, send, half) == (slot * KV_SENDS_PER_REQ + send) * 2 + half
Block(w, slot, send, half) ==
  ((w * concurrency + slot) * KV_SENDS_PER_REQ + send) * 2 + half

\* The constants are numbers, and a send is two units.
LEMMA ConstantTypes ==
  /\ size \in Nat \ {0} /\ threads \in Nat \ {0} /\ KV_SENDS_PER_REQ \in Nat \ {0}
  /\ concurrency \in Nat \ {0} /\ KV_MAX_CONCURRENCY \in Nat
  /\ concurrency <= KV_MAX_CONCURRENCY
  /\ op \in Ops /\ op # "mixed" => Unit \in Nat /\ size = 2 * Unit
BY SizeAssumption DEF Unit

\* Bounds of the block numbers.
LEMMA BlockBounds ==
  ASSUME NEW w \in Worker, NEW slot \in SlotIdx, NEW send \in SendIdx, NEW half \in {0, 1}
  PROVE  /\ slot * 2 + half \in 0 .. threads * (concurrency * 2) - 1
         /\ SlotBlock(slot, send, half)
              \in 0 .. (KV_MAX_CONCURRENCY * KV_SENDS_PER_REQ) * 2 - 1
         /\ Block(w, slot, send, half)
              \in 0 .. ((threads * concurrency) * KV_SENDS_PER_REQ) * 2 - 1
<1>1. /\ w \in 0 .. threads - 1 /\ slot \in 0 .. concurrency - 1 /\ half \in 0 .. 2 - 1
      /\ slot \in 0 .. KV_MAX_CONCURRENCY - 1 /\ send \in 0 .. KV_SENDS_PER_REQ - 1
      /\ threads \in Nat \ {0} /\ concurrency \in Nat /\ KV_SENDS_PER_REQ \in Nat
      /\ KV_MAX_CONCURRENCY \in Nat
  BY ConstantTypes DEF Worker, SlotIdx, SendIdx
<1>2. slot * 2 + half \in 0 .. threads * (concurrency * 2) - 1
  <2>1. slot * 2 + half \in 0 .. concurrency * 2 - 1
    BY <1>1, RadixBound
  <2>2. concurrency * 2 \in Nat /\ 0 \in 0 .. threads - 1
    BY <1>1
  <2>3. 0 * (concurrency * 2) + (slot * 2 + half) \in 0 .. threads * (concurrency * 2) - 1
    BY <1>1, <2>1, <2>2, RadixBound
  <2>4. QED BY <1>1, <2>3
<1>3. SlotBlock(slot, send, half) \in 0 .. (KV_MAX_CONCURRENCY * KV_SENDS_PER_REQ) * 2 - 1
  <2>1. slot * KV_SENDS_PER_REQ + send \in 0 .. KV_MAX_CONCURRENCY * KV_SENDS_PER_REQ - 1
    BY <1>1, RadixBound
  <2>2. KV_MAX_CONCURRENCY * KV_SENDS_PER_REQ \in Nat
    BY <1>1
  <2>3. QED BY <1>1, <2>1, <2>2, RadixBound DEF SlotBlock
<1>4. Block(w, slot, send, half)
        \in 0 .. ((threads * concurrency) * KV_SENDS_PER_REQ) * 2 - 1
  <2>1. w * concurrency + slot \in 0 .. threads * concurrency - 1
    BY <1>1, RadixBound
  <2>2. threads * concurrency \in Nat
    BY <1>1
  <2>3. (w * concurrency + slot) * KV_SENDS_PER_REQ + send
          \in 0 .. (threads * concurrency) * KV_SENDS_PER_REQ - 1
    BY <1>1, <2>1, <2>2, RadixBound
  <2>4. (threads * concurrency) * KV_SENDS_PER_REQ \in Nat
    BY <1>1, <2>2
  <2>5. QED BY <1>1, <2>3, <2>4, RadixBound DEF Block
<1>5. QED BY <1>2, <1>3, <1>4

\* A block number determines the WR it is the number of.
LEMMA BlockUnique ==
  ASSUME NEW w \in Worker, NEW slot \in SlotIdx, NEW send \in SendIdx, NEW half \in {0, 1},
         NEW w2 \in Worker, NEW slot2 \in SlotIdx, NEW send2 \in SendIdx, NEW half2 \in {0, 1}
  PROVE  /\ SlotBlock(slot, send, half) = SlotBlock(slot2, send2, half2)
              => slot = slot2 /\ send = send2 /\ half = half2
         /\ Block(w, slot, send, half) = Block(w2, slot2, send2, half2)
              => w = w2 /\ slot = slot2 /\ send = send2 /\ half = half2
<1>1. /\ w \in Nat /\ w2 \in Nat
      /\ slot \in 0 .. concurrency - 1 /\ slot2 \in 0 .. concurrency - 1
      /\ send \in 0 .. KV_SENDS_PER_REQ - 1 /\ send2 \in 0 .. KV_SENDS_PER_REQ - 1
      /\ half \in 0 .. 2 - 1 /\ half2 \in 0 .. 2 - 1
      /\ concurrency \in Nat /\ KV_SENDS_PER_REQ \in Nat
  BY ConstantTypes DEF Worker, SlotIdx, SendIdx
<1>2. ASSUME SlotBlock(slot, send, half) = SlotBlock(slot2, send2, half2)
      PROVE  slot = slot2 /\ send = send2 /\ half = half2
  <2> DEFINE a == slot * KV_SENDS_PER_REQ + send
             c == slot2 * KV_SENDS_PER_REQ + send2
  <2>1. a \in Nat /\ c \in Nat /\ a * 2 + half = c * 2 + half2
    BY <1>1, <1>2 DEF SlotBlock
  <2>2. a = c /\ half = half2
    BY <1>1, <2>1, RadixUnique
  <2>3. slot = slot2 /\ send = send2
    BY <1>1, <2>2, RadixUnique
  <2>4. QED BY <2>2, <2>3
<1>3. ASSUME Block(w, slot, send, half) = Block(w2, slot2, send2, half2)
      PROVE  w = w2 /\ slot = slot2 /\ send = send2 /\ half = half2
  <2> DEFINE u == w * concurrency + slot
             v == w2 * concurrency + slot2
  <2>1. u \in Nat /\ v \in Nat
    BY <1>1
  <2> DEFINE a == u * KV_SENDS_PER_REQ + send
             c == v * KV_SENDS_PER_REQ + send2
  <2>2. a \in Nat /\ c \in Nat
    <3> HIDE DEF u, v
    <3>1. QED BY <1>1, <2>1
  <2>3. a * 2 + half = c * 2 + half2
    BY <1>3 DEF Block
  <2>4. a = c /\ half = half2
    <3> HIDE DEF a, c
    <3>1. QED BY <1>1, <2>2, <2>3, RadixUnique
  <2>5. u = v /\ send = send2
    <3> HIDE DEF u, v
    <3>1. QED BY <1>1, <2>1, <2>4, RadixUnique
  <2>6. w = w2 /\ slot = slot2
    BY <1>1, <2>5, RadixUnique
  <2>7. QED BY <2>4, <2>5, <2>6
<1>4. QED BY <1>2, <1>3

\* Every address of a pipeline's WR is a block number times the unit.
LEMMA Addresses ==
  ASSUME op \in Ops, op # "mixed",
         NEW w \in Worker, NEW slot \in SlotIdx, NEW send \in SendIdx, NEW half \in {0, 1}
  PROVE  LET r == PipelineWr(w, slot, send, half)
         IN  /\ r.worker = w /\ r.len = Unit
             /\ r.remote = SlotBlock(slot, send, half) * Unit
             /\ op = "get" => r.local = Block(w, slot, send, half) * Unit
             /\ op = "write" => r.local = (slot * 2 + half) * Unit
<1>1. /\ w \in Nat /\ slot \in Nat /\ send \in Nat /\ half \in Nat /\ Unit \in Nat
      /\ concurrency \in Nat /\ KV_SENDS_PER_REQ \in Nat /\ size = 2 * Unit
  BY ConstantTypes DEF Worker, SlotIdx, SendIdx
<1>2. /\ w * concurrency * size * KV_SENDS_PER_REQ + slot * size * KV_SENDS_PER_REQ
           + send * size + half * Unit = Block(w, slot, send, half) * Unit
      /\ slot * size * KV_SENDS_PER_REQ + send * size + half * Unit
           = SlotBlock(slot, send, half) * Unit
      /\ slot * size + half * Unit = (slot * 2 + half) * Unit
  BY <1>1 DEF Block, SlotBlock
<1>3. CASE op = "write"
  BY <1>2, <1>3 DEF PipelineWr, WriteWr, Wr, Unit
<1>4. CASE op = "get"
  BY <1>2, <1>4 DEF PipelineWr, GetWr, Wr, Unit
<1>5. QED BY <1>3, <1>4, OpAssumption

\* A server that fits has room for what layout_server_buffer would give the
\* client's own arguments; in write mode Exchange has seen to the size.
LEMMA ServerRoom ==
  ASSUME op \in Ops, server \in Server, Accepted(server), ServerFits
  PROVE  /\ ServerDataLen \in Nat
         /\ op = "mixed" => SERVER_DATA_WINDOW * size <= ServerDataLen
         /\ op # "mixed" => (KV_SENDS_PER_REQ * KV_MAX_CONCURRENCY) * size <= ServerDataLen
<1>1. /\ size \in Nat /\ SERVER_DATA_WINDOW \in Nat /\ KV_SENDS_PER_REQ \in Nat
      /\ KV_MAX_CONCURRENCY \in Nat
  BY SizeAssumption
<1>2. server.size \in Nat /\ server.op = op
  BY ServerAssumption DEF Server, ServerFits
<1>3. size <= server.size
  BY <1>1, <1>2 DEF ServerFits, Accepted
<1>4. KV_SENDS_PER_REQ * KV_MAX_CONCURRENCY \in Nat
  BY <1>1
<1>5. PICK s \in Nat : s = server.size
  BY <1>2
<1>6. /\ SERVER_DATA_WINDOW * size <= SERVER_DATA_WINDOW * s
      /\ SERVER_DATA_WINDOW * s \in Nat
  BY <1>1, <1>3, <1>5, RowsOrdered
<1>7. PICK m \in Nat : m = KV_SENDS_PER_REQ * KV_MAX_CONCURRENCY
  BY <1>4
<1>8. m * size <= m * s /\ m * s \in Nat
  BY <1>1, <1>3, <1>5, RowsOrdered
<1>9. ServerDataLen = IF op = "mixed" THEN SERVER_DATA_WINDOW * s ELSE m * s
  BY <1>2, <1>5, <1>7 DEF ServerDataLen
<1>10. QED BY <1>6, <1>7, <1>8, <1>9

\* The buffers hold a whole number of units.
LEMMA BufferUnits ==
  ASSUME op \in Ops, op # "mixed"
  PROVE  /\ op = "get" => ClientDataLen = (((threads * concurrency) * KV_SENDS_PER_REQ) * 2) * Unit
         /\ op = "write" => ClientDataLen = (threads * (concurrency * 2)) * Unit
         /\ KV_SENDS_PER_REQ * KV_MAX_CONCURRENCY * size
              = ((KV_MAX_CONCURRENCY * KV_SENDS_PER_REQ) * 2) * Unit
<1>1. /\ threads \in Nat /\ concurrency \in Nat /\ KV_SENDS_PER_REQ \in Nat
      /\ KV_MAX_CONCURRENCY \in Nat /\ Unit \in Nat /\ size = 2 * Unit
  BY ConstantTypes
<1>2. /\ threads * concurrency * size * KV_SENDS_PER_REQ
           = (((threads * concurrency) * KV_SENDS_PER_REQ) * 2) * Unit
      /\ threads * concurrency * size = (threads * (concurrency * 2)) * Unit
      /\ KV_SENDS_PER_REQ * KV_MAX_CONCURRENCY * size
           = ((KV_MAX_CONCURRENCY * KV_SENDS_PER_REQ) * 2) * Unit
  BY <1>1
<1>3. QED BY <1>2, OpAssumption DEF ClientDataLen

\* A block below the number of blocks lies inside the buffer.
LEMMA BlockInside ==
  ASSUME NEW n \in Nat, NEW a \in 0 .. n - 1, NEW len \in Nat
  PROVE  a * len >= 0 /\ a * len + len <= n * len
<1>1. a \in Nat /\ a < n /\ a * len \in Nat
  OBVIOUS
<1>2. QED BY <1>1, BlocksOrdered

\* The WRs of the pipelines stay inside the client's buffer and inside what
\* layout_server_buffer would give the client's arguments.
LEMMA PipelineInside ==
  ASSUME op \in Ops, op # "mixed", NEW r \in PipelineWrs
  PROVE  /\ r.local >= 0 /\ r.local + r.len <= ClientDataLen
         /\ r.remote \in Nat /\ r.len \in Nat
         /\ r.remote + r.len <= KV_SENDS_PER_REQ * KV_MAX_CONCURRENCY * size
<1>1. PICK w \in Worker, slot \in SlotIdx, send \in SendIdx, half \in {0, 1} :
        r = PipelineWr(w, slot, send, half)
  BY DEF PipelineWrs, SendIdx
<1>2. /\ Unit \in Nat /\ (KV_MAX_CONCURRENCY * KV_SENDS_PER_REQ) * 2 \in Nat
      /\ threads * (concurrency * 2) \in Nat
      /\ ((threads * concurrency) * KV_SENDS_PER_REQ) * 2 \in Nat
  <2>1. threads * concurrency \in Nat /\ concurrency * 2 \in Nat
        /\ KV_MAX_CONCURRENCY * KV_SENDS_PER_REQ \in Nat /\ KV_SENDS_PER_REQ \in Nat
    BY ConstantTypes
  <2>2. (threads * concurrency) * KV_SENDS_PER_REQ \in Nat
    BY <2>1
  <2>3. QED BY <2>1, <2>2, ConstantTypes
<1>3. /\ r.remote \in Nat /\ r.len \in Nat
      /\ r.remote + r.len <= KV_SENDS_PER_REQ * KV_MAX_CONCURRENCY * size
  BY <1>1, <1>2, Addresses, BlockBounds, BlockInside, BufferUnits
<1>4. r.local >= 0 /\ r.local + r.len <= ClientDataLen
  <2>1. CASE op = "get"
    <3>1. PICK n \in Nat : n = ((threads * concurrency) * KV_SENDS_PER_REQ) * 2
      BY <1>2
    <3>2. PICK a \in 0 .. n - 1 : a = Block(w, slot, send, half)
      BY <3>1, BlockBounds
    <3>3. r.local = a * Unit /\ r.len = Unit /\ ClientDataLen = n * Unit
      BY <1>1, <2>1, <3>1, <3>2, Addresses, BufferUnits
    <3>4. QED BY <1>2, <3>3, BlockInside
  <2>2. CASE op = "write"
    BY <1>1, <1>2, <2>2, Addresses, BlockBounds, BlockInside, BufferUnits
  <2>3. QED BY <2>1, <2>2, OpAssumption
<1>5. QED BY <1>3, <1>4

\* Two WRs of one worker have different targets, and two READs different
\* landing zones.
LEMMA PipelineApart ==
  ASSUME op \in Ops, op # "mixed", NEW r \in PipelineWrs, NEW s \in PipelineWrs, r # s
  PROVE  /\ r.worker = s.worker => Disjoint(r.remote, s.remote, r.len)
         /\ op = "get" => Disjoint(r.local, s.local, r.len)
<1>1. PICK w \in Worker, slot \in SlotIdx, send \in SendIdx, half \in {0, 1} :
        r = PipelineWr(w, slot, send, half)
  BY DEF PipelineWrs, SendIdx
<1>2. PICK w2 \in Worker, slot2 \in SlotIdx, send2 \in SendIdx, half2 \in {0, 1} :
        s = PipelineWr(w2, slot2, send2, half2)
  BY DEF PipelineWrs, SendIdx
<1>3. ~(w = w2 /\ slot = slot2 /\ send = send2 /\ half = half2)
  BY <1>1, <1>2
<1>4. /\ SlotBlock(slot, send, half) \in Nat /\ SlotBlock(slot2, send2, half2) \in Nat
      /\ Block(w, slot, send, half) \in Nat /\ Block(w2, slot2, send2, half2) \in Nat
      /\ Unit \in Nat
  BY BlockBounds, ConstantTypes
<1>5. ASSUME r.worker = s.worker PROVE Disjoint(r.remote, s.remote, r.len)
  <2>1. w = w2
    BY <1>1, <1>2, <1>5, Addresses
  <2>2. SlotBlock(slot, send, half) # SlotBlock(slot2, send2, half2)
    BY <1>3, <2>1, BlockUnique
  <2>3. QED BY <1>1, <1>2, <1>4, <2>2, Addresses, BlocksApart
<1>6. ASSUME op = "get" PROVE Disjoint(r.local, s.local, r.len)
  <2>1. Block(w, slot, send, half) # Block(w2, slot2, send2, half2)
    BY <1>3, BlockUnique
  <2>2. QED BY <1>1, <1>2, <1>4, <1>6, <2>1, Addresses, BlocksApart
<1>7. QED BY <1>5, <1>6

(***************************************************************************)
(* The rounds of mixed mode.                                               *)
(***************************************************************************)

\* The buffer is a whole number of rounds of two values.
LEMMA WindowRounds ==
  \E H \in Nat \ {0} :
    /\ DATA_WINDOW_PER_THREAD \div 2 = H /\ DATA_WINDOW_PER_THREAD = 2 * H
    /\ threads * H \in Nat \ {0}
    /\ threads * DATA_WINDOW_PER_THREAD * size = (threads * H) * (2 * size)
    /\ threads * DATA_WINDOW_PER_THREAD * size = (threads * H * 2) * size
<1>1. PICK H \in Nat \ {0} :
        DATA_WINDOW_PER_THREAD \div 2 = H /\ DATA_WINDOW_PER_THREAD = 2 * H
  BY SizeAssumption
<1>2. threads \in Nat \ {0} /\ size \in Nat
  BY ConstantTypes
<1>3. threads * H \in Nat \ {0}
  BY <1>2
<1>4. /\ threads * DATA_WINDOW_PER_THREAD * size = (threads * H) * (2 * size)
      /\ threads * DATA_WINDOW_PER_THREAD * size = (threads * H * 2) * size
  BY <1>1, <1>2
<1>5. QED BY <1>1, <1>3, <1>4

\* A worker's first offset is that of a round.
LEMMA FirstOffset ==
  ASSUME NEW w \in Worker
  PROVE  w * DATA_WINDOW_PER_THREAD * size \in Offsets
<1>1. PICK H \in Nat \ {0} :
        DATA_WINDOW_PER_THREAD \div 2 = H /\ DATA_WINDOW_PER_THREAD = 2 * H
  BY WindowRounds
<1>2. w \in 0 .. threads - 1 /\ threads \in Nat /\ size \in Nat
  BY ConstantTypes DEF Worker
<1>3. w * H + 0 \in 0 .. threads * H - 1
  BY <1>1, <1>2, RadixBound
<1>4. w * DATA_WINDOW_PER_THREAD * size = (w * H + 0) * (2 * size)
  BY <1>1, <1>2
<1>5. QED BY <1>1, <1>3, <1>4 DEF Offsets

\* The advance of client_worker_main leads from the offset of a round to the
\* offset of a round.
LEMMA NextOffset ==
  ASSUME NEW o \in Offsets
  PROVE  (o + 2 * size) % (threads * DATA_WINDOW_PER_THREAD * size) \in Offsets
<1>1. PICK H \in Nat \ {0} :
        /\ DATA_WINDOW_PER_THREAD \div 2 = H /\ threads * H \in Nat \ {0}
        /\ threads * DATA_WINDOW_PER_THREAD * size = (threads * H) * (2 * size)
  BY WindowRounds
<1>2. PICK j \in 0 .. threads * H - 1 : o = j * (2 * size)
  BY <1>1 DEF Offsets
<1>3. j \in Nat /\ 2 * size \in Nat \ {0}
  BY <1>1, <1>2, ConstantTypes
<1>4. o + 2 * size = (j + 1) * (2 * size)
  BY <1>2, <1>3
<1>5. PICK r \in 0 .. threads * H - 1 :
        ((j + 1) * (2 * size)) % ((threads * H) * (2 * size)) = r * (2 * size)
  <2>1. PICK x \in Nat, n \in Nat \ {0}, len \in Nat \ {0} :
          x = j + 1 /\ n = threads * H /\ len = 2 * size
    BY <1>1, <1>3
  <2>2. \E r \in 0 .. n - 1 : (x * len) % (n * len) = r * len
    BY BlockModulo, Zenon
  <2>3. QED BY <2>1, <2>2
<1>6. QED BY <1>1, <1>4, <1>5 DEF Offsets

\* Both values of a round lie inside the client's buffer and inside the window
\* of the server that the client's arguments describe.
LEMMA MixedInside ==
  ASSUME op = "mixed", NEW o \in Offsets, NEW n \in {0, 1}
  PROVE  LET a == o + n * size
             t == a % (SERVER_DATA_WINDOW * size)
         IN  /\ a >= 0 /\ a + size <= ClientDataLen
             /\ t \in Nat /\ t + size <= SERVER_DATA_WINDOW * size
<1>1. PICK H \in Nat \ {0} :
        /\ DATA_WINDOW_PER_THREAD \div 2 = H /\ threads * H \in Nat \ {0}
        /\ threads * DATA_WINDOW_PER_THREAD * size = (threads * H * 2) * size
  BY WindowRounds
<1>2. PICK j \in 0 .. threads * H - 1 : o = j * (2 * size)
  BY <1>1 DEF Offsets
<1>3. size \in Nat \ {0} /\ SERVER_DATA_WINDOW \in Nat \ {0} /\ j \in Nat
  BY <1>1, <1>2, SizeAssumption
<1>4. o + n * size = (j * 2 + n) * size /\ j * 2 + n \in Nat
  BY <1>2, <1>3
<1>5. j * 2 + n \in 0 .. threads * H * 2 - 1 /\ threads * H * 2 \in Nat
  BY <1>1, RadixBound
<1>6. ClientDataLen = (threads * H * 2) * size
  BY <1>1 DEF ClientDataLen
<1>7. PICK r \in 0 .. SERVER_DATA_WINDOW - 1 :
        ((j * 2 + n) * size) % (SERVER_DATA_WINDOW * size) = r * size
  BY <1>3, <1>4, BlockModulo, Zenon
<1>8. r * size \in Nat /\ r * size + size <= SERVER_DATA_WINDOW * size
  BY <1>3, BlockInside
<1>9. (j * 2 + n) * size >= 0 /\ (j * 2 + n) * size + size <= (threads * H * 2) * size
  BY <1>3, <1>5, BlockInside
<1>10. QED BY <1>4, <1>6, <1>7, <1>8, <1>9

(***************************************************************************)
(* The invariant.                                                          *)
(***************************************************************************)

\* The invariant holds before the first WR: each worker starts at its window.
LEMMA LayoutInit == Init => LayoutInv
BY FirstOffset DEF Init, LayoutInv

\* Posting, ending a round and completing preserve it.
LEMMA LayoutStep == LayoutInv /\ [Next]_vars => LayoutInv'
<1> SUFFICES ASSUME LayoutInv, [Next]_vars PROVE LayoutInv'
  OBVIOUS
<1>1. ASSUME NEW w \in Worker, NEW slot \in SlotIdx, NEW send \in 0 .. KV_SENDS_PER_REQ - 1,
             NEW half \in {0, 1}, PostPipelined(w, slot, send, half)
      PROVE  LayoutInv'
  <2>1. PipelineWr(w, slot, send, half) \in PipelineWrs
    BY DEF PipelineWrs
  <2>2. op' = op /\ PipelineWrs' = PipelineWrs
    BY <1>1 DEF PostPipelined, PipelineWrs, PipelineWr, WriteWr, GetWr, Wr
  <2>3. QED BY <1>1, <2>1, <2>2 DEF PostPipelined, LayoutInv, Accepted
<1>2. ASSUME NEW w \in Worker, MixedRound(w) PROVE LayoutInv'
  <2>1. ASSUME NEW k \in {0, 1}
        PROVE  /\ MixedWr(w, k).len = size
               /\ MixedWr(w, k).remote = MixedWr(w, k).local % (SERVER_DATA_WINDOW * size)
               /\ \E o \in Offsets, n \in {0, 1} : MixedWr(w, k).local = o + n * size
    BY DEF MixedWr, Wr, LayoutInv
  <2>2. \A r \in wire' : r \in wire \/ \E k \in {0, 1} : r = MixedWr(w, k)
    BY <1>2 DEF MixedRound
  <2>3. QED BY <1>2, <2>1, <2>2 DEF MixedRound, LayoutInv, Accepted
<1>3. ASSUME NEW w \in Worker, MixedRoundDone(w) PROVE LayoutInv'
  <2>1. off' \in [Worker -> Offsets]
    BY <1>3, NextOffset DEF MixedRoundDone, LayoutInv
  <2>2. PipelineWrs' = PipelineWrs
    BY <1>3 DEF MixedRoundDone, PipelineWrs, PipelineWr, WriteWr, GetWr, Wr
  <2>3. QED BY <1>3, <2>1, <2>2 DEF MixedRoundDone, LayoutInv, Accepted
<1>4. ASSUME NEW r \in wire, Complete(r) PROVE LayoutInv'
  <2>1. PipelineWrs' = PipelineWrs
    BY <1>4 DEF Complete, PipelineWrs, PipelineWr, WriteWr, GetWr, Wr
  <2>2. QED BY <1>4, <2>1 DEF Complete, LayoutInv, Accepted
<1>5. CASE UNCHANGED vars
  <2>1. PipelineWrs' = PipelineWrs
    BY <1>5 DEF vars, PipelineWrs, PipelineWr, WriteWr, GetWr, Wr
  <2>2. QED BY <1>5, <2>1 DEF vars, LayoutInv, Accepted
<1>6. QED BY <1>1, <1>2, <1>3, <1>4, <1>5 DEF Next

\* The WRs in flight are always those the address arithmetic describes.
THEOREM LayoutInvariant == Spec => []LayoutInv
<1>1. QED BY LayoutInit, LayoutStep, PTL DEF Spec

\* No WR ever leaves the client's registered buffer, nor the server's when the
\* server was started with the client's op and no smaller value_size, for every
\* size, number of threads and concurrency.  In write mode the sizes are no
\* hypothesis: the check of Exchange makes the server's buffer long enough.
THEOREM AlwaysInBounds == Spec => []InBounds
<1>1. LayoutInv => InBounds
  <2> SUFFICES ASSUME LayoutInv, NEW r \in wire
               PROVE  /\ r.local >= 0 /\ r.local + r.len <= ClientDataLen
                      /\ r.remote >= 0
                      /\ ServerFits => r.remote + r.len <= ServerDataLen
    BY DEF InBounds
  <2>1. op \in Ops /\ server \in Server /\ Accepted(server)
    BY DEF LayoutInv
  <2>2. CASE op = "mixed"
    <3>1. /\ r.local >= 0 /\ r.local + r.len <= ClientDataLen
          /\ r.remote \in Nat /\ r.len = size
          /\ r.remote + r.len <= SERVER_DATA_WINDOW * size
      BY <2>2, MixedInside DEF LayoutInv
    <3>2. size \in Nat /\ SERVER_DATA_WINDOW * size \in Nat
      BY SizeAssumption
    <3>3. QED BY <2>1, <2>2, <3>1, <3>2, ServerRoom
  <2>3. CASE op # "mixed"
    <3>1. /\ r.local >= 0 /\ r.local + r.len <= ClientDataLen
          /\ r.remote \in Nat /\ r.len \in Nat
          /\ r.remote + r.len <= KV_SENDS_PER_REQ * KV_MAX_CONCURRENCY * size
      BY <2>3, PipelineInside DEF LayoutInv
    <3>2. KV_SENDS_PER_REQ * KV_MAX_CONCURRENCY * size \in Nat
      <4>1. KV_SENDS_PER_REQ * KV_MAX_CONCURRENCY \in Nat /\ size \in Nat
        BY SizeAssumption
      <4>2. QED BY <4>1
    <3>3. QED BY <2>1, <2>3, <3>1, <3>2, ServerRoom
  <2>4. QED BY <2>2, <2>3
<1>2. QED BY <1>1, LayoutInvariant, PTL

\* Two READs of get mode never land on the same byte: post_one_get gives every
\* thread, slot, send and half a block of its own.
THEOREM ReadsLandApart == Spec => []LandingsDisjoint
<1>1. LayoutInv => LandingsDisjoint
  BY PipelineApart DEF LayoutInv, LandingsDisjoint
<1>2. QED BY <1>1, LayoutInvariant, PTL

\* The WRs one worker has in flight in write or get mode touch different bytes
\* of the server: the stride of a slot is a whole request.
THEOREM TargetsApart == Spec => []TargetsDisjointPerWorker
<1>1. LayoutInv => TargetsDisjointPerWorker
  BY PipelineApart DEF LayoutInv, TargetsDisjointPerWorker
<1>2. QED BY <1>1, LayoutInvariant, PTL
=============================================================================
