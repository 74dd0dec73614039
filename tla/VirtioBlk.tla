----------------------------- MODULE VirtioBlk -----------------------------
(***************************************************************************)
(* The virtio block device of src/virtio_blk.c with the two rings it       *)
(* shares with the guest's driver, its one-block cache, its request line   *)
(* at the PLIC, and a driver that submits requests at any moment and       *)
(* collects them in its interrupt handler.                                 *)
(*                                                                         *)
(* A request is named by the head of its descriptor chain and moves one    *)
(* whole block (sector = 2 * block), as the code's 1024-byte loops         *)
(* require.  The queue is set up once and is ready.  The device runs on    *)
(* the CPU thread, between instructions.                                   *)
(***************************************************************************)
EXTENDS Integers, Sequences, FiniteSets, SequencesExt

CONSTANTS
  Heads,      \* the descriptors that can head a chain
  Blocks, Values,
  Image,      \* fs.img: the disk at boot
  Traffic,    \* the requests the driver makes, with what it puts in the buffer
  QueueNum,   \* dev.queue_num
  IdxMod,     \* the ring indices are uint16_t: arithmetic modulo this
  Latency     \* DISK_LATENCY_CYCLES, in instructions

Requests == [type : {"in", "out"}, block : Blocks]

ASSUME VirtioConstants ==
  /\ QueueNum \in Nat \ {0} /\ IdxMod \in Nat
  /\ IsFiniteSet(Heads) /\ Cardinality(Heads) <= QueueNum
  /\ IdxMod > QueueNum /\ IdxMod % QueueNum = 0
  /\ Latency \in Nat \ {0}
  /\ Image \in [Blocks -> Values]
  /\ Traffic \subseteq [req : Requests, buf : Values]

Slots == 0 .. QueueNum - 1
Indices == 0 .. IdxMod - 1
\* What the memory of a free head holds.
Blank == [req |-> CHOOSE r \in Requests : TRUE, buf |-> CHOOSE v \in Values : TRUE]

VARIABLES
  disk,       \* dev.disk_data, by block
  cache,      \* bc
  req, buf,   \* guest memory: the request and the data buffer of each head
  avail, availIdx,  \* guest memory: the avail ring
  used, usedIdx,    \* guest memory: the used ring
  prevAvail,  \* the static prev_avail of process_queue
  ops,        \* pending_ops, first element first: [head, left] where left is
              \* what completion_time leaves
  mapped,     \* whether get_pa finds the driver's buffers under csr[SATP]:
              \* a kernel table does, a user program's does not
  request, inService,  \* the PLIC's pending and claimed bits of the disk
  handler,    \* the driver's interrupt handler: "out", "in", "leaving"
  usedSeen    \* the driver's index into the used ring

data  == <<disk, cache, req, buf>>
rings == <<avail, availIdx, used, usedIdx>>
plic  == <<request, inService>>
vars  == <<data, rings, prevAvail, ops, mapped, plic, handler, usedSeen>>

\* The heads between two indices of a ring.
Window(ring, from, to) == {ring[(from + k) % QueueNum] : k \in 0 .. ((to - from) % IdxMod) - 1}

Started  == {ops[i].head : i \in DOMAIN ops}
Notified == Window(avail, prevAvail, availIdx)   \* not started yet
Finished == Window(used, usedSeen, usedIdx)      \* not collected yet
Free     == Heads \ (Started \cup Notified \cup Finished)

\* virtio_disk_update is not through its list yet.
Due == {i \in DOMAIN ops : ops[i].left = 0}
Updating == Due # {}

-----------------------------------------------------------------------------
(* The device *)

\* Mutant of ProcessQueue: the loop starts one entry late.
ProcessQueue_SkipsFirst ==
  LET n == (availIdx - prevAvail) % IdxMod
      new == [k \in 1 .. n - 1 |-> [head |-> avail[(availIdx - k) % QueueNum], left |-> Latency]]
  IN  /\ ~Updating /\ mapped /\ n > 0
      /\ ops' = new \o ops
      /\ prevAvail' = availIdx
      /\ UNCHANGED <<data, rings, mapped, plic, handler, usedSeen>>

\* A store of 0 to QueueNotify: process_queue starts an operation for each new
\* entry of the avail ring and puts it at the head of the list.
ProcessQueue ==
  LET n == (availIdx - prevAvail) % IdxMod
      new == [k \in 1 .. n |-> [head |-> avail[(availIdx - k) % QueueNum], left |-> Latency]]
  IN  /\ ~Updating /\ mapped /\ n > 0
      /\ ops' = new \o ops
      /\ prevAvail' = availIdx
      /\ UNCHANGED <<data, rings, mapped, plic, handler, usedSeen>>

\* Mutant of Tick: the completion time of a started operation is pushed back.
Tick_Postpones ==
  /\ ~Updating /\ ops # <<>>
  /\ ops' = [i \in DOMAIN ops |-> [ops[i] EXCEPT !.left = Latency]]
  /\ UNCHANGED <<data, rings, prevAvail, mapped, plic, handler, usedSeen>>

\* An instruction ends and virtio_disk_update looks at the list.
Tick ==
  /\ ~Updating /\ ops # <<>>
  /\ ops' = [i \in DOMAIN ops |-> [ops[i] EXCEPT !.left = @ - 1]]
  /\ UNCHANGED <<data, rings, prevAvail, mapped, plic, handler, usedSeen>>

\* load_block.
Load(block) == IF cache.valid /\ cache.block = block THEN cache
               ELSE [valid |-> TRUE, block |-> block, data |-> disk[block]]

\* Mutant of Transfer: a write goes to the disk past the cache.
Transfer_PastCache(d) ==
  /\ cache' = Load(req[d].block)
  /\ IF req[d].type = "in"
       THEN buf' = [buf EXCEPT ![d] = cache'.data] /\ UNCHANGED disk
       ELSE disk' = [disk EXCEPT ![req[d].block] = buf[d]] /\ UNCHANGED buf

\* The disk I/O of complete_disk_operation: a read delivers from the cache, a
\* write goes through the cache to the disk.
Transfer(d) ==
  IF req[d].type = "in"
    THEN /\ cache' = Load(req[d].block)
         /\ buf' = [buf EXCEPT ![d] = cache'.data] /\ UNCHANGED disk
    ELSE /\ cache' = [Load(req[d].block) EXCEPT !.data = buf[d]]
         /\ disk' = [disk EXCEPT ![req[d].block] = cache'.data] /\ UNCHANGED buf

\* Mutant of Complete: the operation stays in the list.
Complete_KeepsOp ==
  LET i == Min(Due)
      d == ops[i].head
  IN  /\ Updating
      /\ IF mapped THEN Transfer(d) ELSE UNCHANGED <<disk, cache, buf>>
      /\ used' = [used EXCEPT ![usedIdx % QueueNum] = d]
      /\ usedIdx' = (usedIdx + 1) % IdxMod
      /\ ops' = [ops EXCEPT ![i].left = Latency]
      /\ request' = TRUE
      /\ UNCHANGED <<req, avail, availIdx, prevAvail, mapped, inService, handler, usedSeen>>

\* Mutant of Complete: the used index is published but the entry goes to the
\* slot after it.
Complete_WrongSlot ==
  LET i == Min(Due)
      d == ops[i].head
  IN  /\ Updating
      /\ IF mapped THEN Transfer(d) ELSE UNCHANGED <<disk, cache, buf>>
      /\ used' = [used EXCEPT ![(usedIdx + 1) % QueueNum] = d]
      /\ usedIdx' = (usedIdx + 1) % IdxMod
      /\ ops' = RemoveAt(ops, i)
      /\ request' = TRUE
      /\ UNCHANGED <<req, avail, availIdx, prevAvail, mapped, inService, handler, usedSeen>>

\* Mutant of Complete: the used index does not wrap around.
Complete_NoWrap ==
  LET i == Min(Due)
      d == ops[i].head
  IN  /\ Updating
      /\ IF mapped THEN Transfer(d) ELSE UNCHANGED <<disk, cache, buf>>
      /\ used' = [used EXCEPT ![usedIdx % QueueNum] = d]
      /\ usedIdx' = usedIdx + 1
      /\ ops' = RemoveAt(ops, i)
      /\ request' = TRUE
      /\ UNCHANGED <<req, avail, availIdx, prevAvail, mapped, inService, handler, usedSeen>>

\* complete_disk_operation for the first due operation of the list, and its
\* removal.  Where get_pa finds no mapping the addresses are 0 and the I/O is
\* skipped, but the used ring is written all the same.
Complete ==
  LET i == Min(Due)
      d == ops[i].head
  IN  /\ Updating
      /\ IF mapped THEN Transfer(d) ELSE UNCHANGED <<disk, cache, buf>>
      /\ used' = [used EXCEPT ![usedIdx % QueueNum] = d]
      /\ usedIdx' = (usedIdx + 1) % IdxMod
      /\ ops' = RemoveAt(ops, i)
      /\ request' = TRUE
      /\ UNCHANGED <<req, avail, availIdx, prevAvail, mapped, inService, handler, usedSeen>>

-----------------------------------------------------------------------------
(* The guest's driver: external code, used as the rings require *)

Submit(d, t) ==
  /\ ~Updating /\ d \in Free
  /\ req' = [req EXCEPT ![d] = t.req] /\ buf' = [buf EXCEPT ![d] = t.buf]
  /\ avail' = [avail EXCEPT ![availIdx % QueueNum] = d]
  /\ availIdx' = (availIdx + 1) % IdxMod
  /\ UNCHANGED <<disk, cache, used, usedIdx, prevAvail, ops, mapped, plic, handler, usedSeen>>

\* The interrupt is taken and claimed.
Claim ==
  /\ ~Updating /\ handler = "out" /\ request /\ ~inService
  /\ handler' = "in" /\ request' = FALSE /\ inService' = TRUE
  /\ UNCHANGED <<data, rings, prevAvail, ops, mapped, usedSeen>>

\* The handler collects what the used ring shows, and frees the head: its
\* memory is blank from then on.
Collect ==
  LET d == used[usedSeen % QueueNum]
  IN  /\ ~Updating /\ handler = "in" /\ usedSeen # usedIdx
      /\ usedSeen' = (usedSeen + 1) % IdxMod
      /\ req' = [req EXCEPT ![d] = Blank.req] /\ buf' = [buf EXCEPT ![d] = Blank.buf]
      /\ UNCHANGED <<disk, cache, rings, prevAvail, ops, mapped, plic, handler>>

Leave ==
  /\ ~Updating /\ handler = "in" /\ usedSeen = usedIdx
  /\ handler' = "leaving"
  /\ UNCHANGED <<data, rings, prevAvail, ops, mapped, plic, usedSeen>>

\* The store to the complete register: plic_complete clears the pending bit
\* along with the claimed one.
EndOfInterrupt ==
  /\ ~Updating /\ handler = "leaving"
  /\ handler' = "out" /\ request' = FALSE /\ inService' = FALSE
  /\ UNCHANGED <<data, rings, prevAvail, ops, mapped, usedSeen>>

\* A write to satp, whether or not an operation is in flight.
SwitchTable ==
  /\ ~Updating
  /\ mapped' = ~mapped
  /\ UNCHANGED <<data, rings, prevAvail, ops, plic, handler, usedSeen>>

-----------------------------------------------------------------------------

Init ==
  /\ disk = Image
  /\ \E b \in Blocks : cache = [valid |-> FALSE, block |-> b, data |-> disk[b]]
  /\ req = [d \in Heads |-> Blank.req] /\ buf = [d \in Heads |-> Blank.buf]
  /\ \E d \in Heads : avail = [s \in Slots |-> d] /\ used = avail
  /\ availIdx = 0 /\ usedIdx = 0 /\ prevAvail = 0 /\ usedSeen = 0
  /\ ops = <<>> /\ mapped = TRUE
  /\ request = FALSE /\ inService = FALSE /\ handler = "out"

Device == Tick \/ Complete
Handler == Claim \/ Collect \/ Leave \/ EndOfInterrupt

Next ==
  \/ Device \/ ProcessQueue \/ Handler \/ SwitchTable
  \/ \E d \in Heads, t \in Traffic : Submit(d, t)

\* The CPU goes on executing, so time passes and the list is worked off; the
\* driver need not do anything.
Spec == Init /\ [][Next]_vars /\ WF_vars(Device)

-----------------------------------------------------------------------------
(* Properties *)

\* The variables keep their ranges.
TypeOK ==
  /\ disk \in [Blocks -> Values] /\ buf \in [Heads -> Values]
  /\ cache \in [valid : BOOLEAN, block : Blocks, data : Values]
  /\ req \in [Heads -> Requests]
  /\ avail \in [Slots -> Heads] /\ used \in [Slots -> Heads]
  /\ availIdx \in Indices /\ usedIdx \in Indices /\ prevAvail \in Indices /\ usedSeen \in Indices
  /\ ops \in Seq([head : Heads, left : 0 .. Latency])
  /\ mapped \in BOOLEAN /\ request \in BOOLEAN /\ inService \in BOOLEAN
  /\ handler \in {"out", "in", "leaving"}

\* A head is in one place: waiting in the avail ring, in the list (once), or
\* in the used ring; no request is doubled and no ring entry overwritten.
OnePlace ==
  /\ Started \cap Notified = {} /\ Started \cap Finished = {} /\ Notified \cap Finished = {}
  /\ \A i, k \in DOMAIN ops : ops[i].head = ops[k].head => i = k
  /\ Cardinality(Notified) = (availIdx - prevAvail) % IdxMod
  /\ Cardinality(Finished) = (usedIdx - usedSeen) % IdxMod

\* The one-block cache never differs from the disk.
CacheCoherent == cache.valid => cache.data = disk[cache.block]

\* Every request is answered exactly once, its data moved at that moment if
\* the page table of the moment maps the driver's buffers, and not at all if
\* it does not.
Service == INSTANCE DiskService WITH
  store <- disk, buffer <- buf, outstanding <- Started \cup Notified, served <- Finished,
  reachable <- mapped
ServesRequests == Service!Spec

\* A started operation reaches the used ring, whatever the driver does.
StartedIsServed == \A d \in Heads : (d \in Started) ~> (d \in Finished)

\* virtio_blk.c:252 "4. trigger the interrupt": a completion that the driver
\* has not collected is announced when it is outside its handler.
CompletionAnnounced == handler = "out" /\ Finished # {} => request
=============================================================================
