------------------------------- MODULE Buffers -------------------------------
(***************************************************************************)
(* The buffers of Buffer.h and Buffer.cpp: a pool with a free list, shared by *)
(* a Worker's connections and the threads that read from them, and batches    *)
(* that are chains of its buffers, moved from one owner to the next by        *)
(* swapping or joining their pointers, never by copying.                      *)
(*                                                                           *)
(* Two kinds of batch have the same life up to a point.  Datagrams            *)
(* (ReceiveBatch) arrive in libjuice's thread and are processed by the        *)
(* Worker; a datagram lies in one buffer, with an entry for its offset and    *)
(* length.  Stream data (StreamReceiveBatch) is collected by the Worker,      *)
(* joined to what the program has not read yet, taken by the program and      *)
(* copied; it fills each buffer and goes on in the next.  A batch is changed  *)
(* under the lock of its owner, the pool under its own: the loop that appends *)
(* stream data is a step per buffer, since others release buffers meanwhile.  *)
(***************************************************************************)
EXTENDS Naturals, Sequences, FiniteSets, SequencesExt

CONSTANTS
  PayloadSize,   \* the payload of a buffer (64 KiB)
  PerBuffer,     \* datagrams in a buffer (64)
  InitialCount,  \* buffers a pool begins with (32)
  GrowCount,     \* buffers it grows by (16)
  MaxBuffers,    \* bound: buffers that are ever allocated
  MaxBytes,      \* bound: bytes that ever arrive
  Sizes          \* the sizes they arrive in

ASSUME BufferAssumption ==
  /\ {PayloadSize, PerBuffer, InitialCount, GrowCount} \subseteq Nat \ {0}
  /\ MaxBuffers \in Nat /\ InitialCount <= MaxBuffers
  /\ MaxBytes \in Nat
  /\ Sizes \subseteq Nat \ {0}

Buffer == 1..MaxBuffers
Null == 0

\* Where a buffer's batch may be: receiveBatch_ or streamReceiveBatch_, the
\* local batch of the Worker, appReceiveBatch_, and the one the program took.
Batch == {"arriving", "flushing", "published", "taken"}

VARIABLES
  kind,       \* which pool and batches these are: "datagrams" or "stream"
  allocated,  \* how many buffers the slabs hold
  freeHead,   \* BufferPool::freeHead_
  next,       \* next_ of each buffer
  payload,    \* the bytes of each buffer, each the position it arrived at
  packets,    \* packets_ of each buffer
  batch,      \* head_, tail_ and the two counts of each batch
  remaining,  \* bytes the current append has left to copy
  received,   \* how many bytes arrived
  sizes,      \* the sizes of the datagrams in order
  consumed    \* what was processed or copied: datagrams, or bytes

poolVars == <<allocated, freeHead, next, payload, packets>>
bufferVars == <<kind, poolVars, batch, remaining, received, sizes, consumed>>

Empty == [head |-> Null, tail |-> Null, count |-> 0, buffers |-> 0]

\* grow: each new buffer is put before the ones that are free.
Slab(low, count, chain, onto) ==
  [b \in Buffer |-> IF b = low THEN onto
                    ELSE IF b \in (low + 1)..(low + count - 1) THEN b - 1
                    ELSE chain[b]]

BufferInit ==
  /\ kind \in {"datagrams", "stream"}
  /\ allocated = InitialCount
  /\ freeHead = InitialCount
  /\ next = Slab(1, InitialCount, [b \in Buffer |-> Null], Null)
  /\ payload = [b \in Buffer |-> <<>>]
  /\ packets = [b \in Buffer |-> <<>>]
  /\ batch = [w \in Batch |-> Empty]
  /\ remaining = 0
  /\ received = 0
  /\ sizes = <<>>
  /\ consumed = <<>>

-----------------------------------------------------------------------------
(* The chain of a batch or of the free list.                                *)

Walk(begin) ==
  LET chain[n \in 0..MaxBuffers] ==
        IF n = 0 THEN IF begin = Null THEN <<>> ELSE <<begin>>
        ELSE LET before == chain[n - 1]
             IN IF Len(before) < n \/ next[Last(before)] = Null THEN before
                ELSE Append(before, next[Last(before)])
  IN chain[MaxBuffers]

Chain(w) == Walk(batch[w].head)

Bytes(w) == FlattenSeq([i \in DOMAIN Chain(w) |-> payload[Chain(w)[i]]])

\* forEachPacket
PacketsOf(b) ==
  [i \in DOMAIN packets[b] |->
     SubSeq(payload[b], packets[b][i].offset + 1, packets[b][i].offset + packets[b][i].length)]
PacketsIn(w) == FlattenSeq([i \in DOMAIN Chain(w) |-> PacketsOf(Chain(w)[i])])

-----------------------------------------------------------------------------
(* Appending.                                                               *)

Tail_(w) == batch[w].tail
Available(b) == PayloadSize - Len(payload[b])
CanAppend(b, size) == Len(packets[b]) < PerBuffer /\ size <= Available(b)

Grows == freeHead = Null
CanAcquire == Grows => allocated + GrowCount <= MaxBuffers

\* The buffer that acquire returns, and the chains after it took it, put it at
\* the end of batch w and reset it.
Acquired == IF Grows THEN allocated + GrowCount ELSE freeHead
ChainsAfter(w) ==
  LET grown == IF Grows THEN Slab(allocated + 1, GrowCount, next, Null) ELSE next
      joined == IF batch[w].head = Null THEN grown ELSE [grown EXCEPT ![Tail_(w)] = Acquired]
  IN [joined EXCEPT ![Acquired] = Null]
FreeAfter ==
  IF Grows THEN IF GrowCount = 1 THEN Null ELSE allocated + GrowCount - 1
  ELSE next[freeHead]

TakeBuffer(w) ==
  /\ CanAcquire
  /\ allocated' = IF Grows THEN allocated + GrowCount ELSE allocated
  /\ freeHead' = FreeAfter
  /\ next' = ChainsAfter(w)

Arriving(n) == [i \in 1..n |-> received + i]

\* The batch after n bytes, or a datagram, went into its last buffer or a new one.
Counted(w, n, new) ==
  [batch EXCEPT ![w].head = IF new /\ @ = Null THEN Acquired ELSE @,
                ![w].tail = IF new THEN Acquired ELSE @,
                ![w].count = @ + n,
                ![w].buffers = IF new THEN @ + 1 ELSE @]

\* A UDP datagram always fits an empty buffer: it has at most 65507 bytes.
AppendDatagram(size) ==
  LET new == Tail_("arriving") = Null \/ ~CanAppend(Tail_("arriving"), size)
      b == IF new THEN Acquired ELSE Tail_("arriving")
  IN /\ kind = "datagrams"
     /\ received + size <= MaxBytes
     /\ size <= PayloadSize
     /\ IF new THEN TakeBuffer("arriving") ELSE UNCHANGED <<allocated, freeHead, next>>
     /\ payload' = [payload EXCEPT ![b] = (IF new THEN <<>> ELSE @) \o Arriving(size)]
     /\ packets' = [packets EXCEPT ![b] =
          Append(IF new THEN <<>> ELSE @,
                 [offset |-> IF new THEN 0 ELSE Len(payload[b]), length |-> size])]
     /\ batch' = Counted("arriving", 1, new)
     /\ received' = received + size
     /\ sizes' = Append(sizes, size)
     /\ UNCHANGED <<kind, remaining, consumed>>

\* receiveStreamDataCallback begins to append.
ReceiveStreamData(size) ==
  /\ kind = "stream"
  /\ remaining = 0
  /\ received + size <= MaxBytes
  /\ remaining' = size
  /\ UNCHANGED <<kind, poolVars, batch, received, sizes, consumed>>

\* One round of its loop.
AppendStreamData ==
  LET new == Tail_("arriving") = Null \/ Available(Tail_("arriving")) = 0
      b == IF new THEN Acquired ELSE Tail_("arriving")
      room == IF new THEN PayloadSize ELSE Available(b)
      copied == IF remaining < room THEN remaining ELSE room
  IN /\ remaining > 0
     /\ IF new THEN TakeBuffer("arriving") ELSE UNCHANGED <<allocated, freeHead, next>>
     /\ payload' = [payload EXCEPT ![b] = (IF new THEN <<>> ELSE @) \o Arriving(copied)]
     /\ batch' = Counted("arriving", copied, new)
     /\ received' = received + copied
     /\ remaining' = remaining - copied
     /\ UNCHANGED <<kind, packets, sizes, consumed>>

-----------------------------------------------------------------------------
(* Moving.                                                                  *)

Swap(v, w) == batch' = [batch EXCEPT ![v] = batch[w], ![w] = batch[v]]

\* processReceive and processStreamReceive: the local batch is a new one.
Flush ==
  /\ remaining = 0
  /\ batch["flushing"] = Empty
  /\ batch["arriving"].count > 0
  /\ Swap("arriving", "flushing")
  /\ UNCHANGED <<kind, poolVars, remaining, received, sizes, consumed>>

\* appendBatch
Joined(v, w) ==
  [head |-> IF batch[v].head = Null THEN batch[w].head ELSE batch[v].head,
   tail |-> batch[w].tail,
   count |-> batch[v].count + batch[w].count,
   buffers |-> batch[v].buffers + batch[w].buffers]

\* mutant: the batch that was joined keeps its pointers, and its destructor
\* gives its buffers back to the pool.
PublishKeepingBatch ==
  /\ kind = "stream"
  /\ batch["flushing"].head # Null
  /\ next' = IF batch["published"].head = Null THEN next
             ELSE [next EXCEPT ![Tail_("published")] = batch["flushing"].head]
  /\ batch' = [batch EXCEPT !["published"] = Joined("published", "flushing")]
  /\ UNCHANGED <<kind, allocated, freeHead, payload, packets, remaining, received, sizes, consumed>>

Publish ==
  /\ kind = "stream"
  /\ batch["flushing"].head # Null
  /\ next' = IF batch["published"].head = Null THEN next
             ELSE [next EXCEPT ![Tail_("published")] = batch["flushing"].head]
  /\ batch' = [batch EXCEPT !["published"] = Joined("published", "flushing"),
                            !["flushing"] = Empty]
  /\ UNCHANGED <<kind, allocated, freeHead, payload, packets, remaining, received, sizes, consumed>>

\* takeReceivedStreamData
Take ==
  /\ batch["taken"] = Empty
  /\ batch["published"].count > 0
  /\ Swap("published", "taken")
  /\ UNCHANGED <<kind, poolVars, remaining, received, sizes, consumed>>

\* releaseChain, which puts one buffer after the other before the free ones.
Released(w) ==
  LET chain == Chain(w)
      index(b) == CHOOSE i \in DOMAIN chain : chain[i] = b
  IN [b \in Buffer |->
        IF b \notin ToSet(chain) THEN next[b]
        ELSE IF index(b) = 1 THEN freeHead ELSE chain[index(b) - 1]]

Release(w) ==
  /\ next' = Released(w)
  /\ freeHead' = Last(Chain(w))
  /\ payload' = [b \in Buffer |-> IF b \in ToSet(Chain(w)) THEN <<>> ELSE payload[b]]
  /\ packets' = [b \in Buffer |-> IF b \in ToSet(Chain(w)) THEN <<>> ELSE packets[b]]
  /\ batch' = [batch EXCEPT ![w] = Empty]
  /\ UNCHANGED allocated

\* The Worker feeds each datagram to ngtcp2, and the batch is destroyed.
FeedPackets ==
  /\ kind = "datagrams"
  /\ batch["flushing"].count > 0
  /\ consumed' = consumed \o PacketsIn("flushing")
  /\ Release("flushing")
  /\ UNCHANGED <<kind, remaining, received, sizes>>

\* readSession copies the batch, and it is destroyed.
CopyTo ==
  /\ batch["taken"].count > 0
  /\ consumed' = consumed \o Bytes("taken")
  /\ Release("taken")
  /\ UNCHANGED <<kind, remaining, received, sizes>>

BufferNext ==
  \/ \E size \in Sizes : AppendDatagram(size) \/ ReceiveStreamData(size)
  \/ AppendStreamData \/ Flush \/ Publish \/ Take \/ FeedPackets \/ CopyTo

BufferSpec == BufferInit /\ [][BufferNext]_bufferVars

-----------------------------------------------------------------------------
(* Properties.                                                              *)

\* Every buffer of the slabs is in exactly one chain, which ends.
EveryBufferOwnedOnce ==
  LET all == Walk(freeHead) \o Chain("arriving") \o Chain("flushing")
               \o Chain("published") \o Chain("taken")
  IN /\ Len(all) = allocated
     /\ ToSet(all) = 1..allocated

CountsMatch ==
  \A w \in Batch :
    /\ batch[w].buffers = Len(Chain(w))
    /\ batch[w].count = IF kind = "stream" THEN Len(Bytes(w)) ELSE Len(PacketsIn(w))
    /\ batch[w].tail = IF Chain(w) = <<>> THEN Null ELSE Last(Chain(w))

\* What arrived, in the order in which it is handed on, datagrams with the
\* boundaries they came with.
InOrder ==
  IF kind = "stream"
  THEN consumed \o Bytes("taken") \o Bytes("published") \o Bytes("flushing") \o Bytes("arriving")
         = [i \in 1..received |-> i]
  ELSE LET all == consumed \o PacketsIn("flushing") \o PacketsIn("arriving")
       IN /\ FlattenSeq(all) = [i \in 1..received |-> i]
          /\ [i \in DOMAIN all |-> Len(all[i])] = sizes

\* The batches are what the other modules take them for, sequences that are
\* appended to, joined and handed over: no byte is lost, repeated or moved, no
\* buffer is in two places or in none, however the threads that fill, join,
\* read and release them take turns.
BatchesAreSequences == EveryBufferOwnedOnce /\ CountsMatch /\ InOrder
=============================================================================
