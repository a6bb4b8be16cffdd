# A TLA+ verification of rdmasync

rdmasync is rsync with a second data plane. File lists, checksums, block tokens
and all control messages travel on the SSH stream, exactly as in rsync; when
both ends have a usable RoCE device, the literal bytes of files travel as RDMA
messages instead. This directory models that program in TLA+, checks the models
with TLC, and proves the most important properties of the bulk plane with TLAPS.

## The system and its parts

A transfer has three processes. The **generator** walks the file list, decides
what to transfer and sends block checksums; the **sender** searches its file for
those blocks and emits a stream of *tokens* (block numbers) and *literals*
(bytes that matched nothing); the **receiver** rebuilds the file from its old
copy and the stream, verifies it, and renames it into place. Generator and
receiver are forked from one process on the destination host.

| part | source | status |
|---|---|---|
| RDMA bulk data plane, plain token coder | `rdma.c`, `token.c` | modelled, proved |
| RDMA setup: capability, preflight, rails, fork, bootstrap, ready exchange | `rdma.c`, `compat.c`, `main.c` | modelled |
| compressed token coders | `token.c` | planned |
| delta search and reconstruction of one file | `match.c`, `generator.c`, `sender.c`, `receiver.c`, `fileio.c` | modelled |
| transfer pipeline: generator, sender, receiver, redo, phases | `generator.c`, `sender.c`, `receiver.c`, `io.c` | planned |
| multiplexing, buffers, integer and index coding | `io.c` | planned |
| exit state machine, temporary, partial and delayed files | `cleanup.c`, `receiver.c`, `rsync.c` | planned |
| file windows, sparse writer | `fileio.c` | planned |
| hard links, deletion, batch, hash table, wildcards, negotiation | `hlink.c`, `delete.c`, `batch.c`, `hashtable.c`, `lib/wildmatch.c`, `compat.c` | planned |
| option tables, logging, daemon configuration, ACLs, xattrs, system-call wrappers, digests, zlib, popt | | not modelled: parsing, formatting, I/O or byte arithmetic |

`PROJECT.json` has the complete list, with a reason for every part left out, and
the list of hazards: the places in the code where an interleaving, a timeout, a
wrap or a failure could do damage that a test would hardly reach.

## Modules

**`RdmaBulk`** is the transport once it is active. The sender's side is
`simple_send_token` (`SendTokenCall`, `WriteLiteralLength`, `CountControl`,
`WriteToken`, `FlushDone`), `post_data_send` (`PostDataSend`), the end of the
run in `main.c` (`Finish`, `ReadFinalGoodbye`) and the drain of `rdma_cleanup`,
rail by rail (`DrainOutstanding`, `LeaveRail`, `CleanupDone`); a rail is left when
it is drained or when a poll fails, and a failed sender drains too
(`"xcleanup"`). The receiver's side is
`simple_recv_token` (`ReadInt`), `release_exhausted_receive`,
`begin_receive_message` and `rdma_recv_data_ptr`, and the use that
`receive_data` makes of the returned pointer (`UseData`). Variables have the
names of the fields of `struct rdma_path` and `struct rdma_transport`. Between
the two sides are the SSH stream, with an output buffer that is written out byte
by byte when the sender is inside the I/O layer (`WriteOut`), and one reliable connected queue
pair per rail (`Deliver`, `Complete`), which is external: it delivers in order on
its rail, reads the sender's slot at the moment of delivery, needs a posted
receive slot, and reports completions in order. Each literal byte is identified
by its position in the literal stream, so "the right bytes" is a statement about
positions. An integer has `IntSize` bytes (four in the build), of which `part` have
left; `FlushDone` returns as `io_flush` does (`flush_satisfied`): the
`NORMAL_FLUSH` of the token coder after one byte, the `FULL_FLUSH` at the end with
an empty buffer. `SenderFails` and `ReceiverFails` are the exits through
`RERR_STREAMIO`.

**`TokenStream`** is what the token coder promises without RDMA: one stream in
which a positive integer is followed by that many bytes. `RdmaBulkMC`
instantiates it with a mapping from the split transport and checks that
`RdmaBulk` implements it.

**`RdmaBulkInv`** holds the inductive invariant. The proofs are four modules, each
extending the one before: **`RdmaBulkQueue_proofs`** (types and queue counters),
**`RdmaBulkSlots_proofs`** (ring slots and the SSH stream),
**`RdmaBulkMsg_proofs`** (the messages in flight on a rail) and
**`RdmaBulk_proofs`** (the receiver's position, and the theorems about it).

**`RdmaSetup`** is how the two ends come to use RDMA: the early returns of
`rdma_preflight`, the request, status and rail count on the SSH stream, the fork
of the receiving side and `rdma_after_receiver_fork`, and for each rail the
bootstrap connection, `setup_path_resources`, the exchange of QP records, the
probe and the ready byte. `Configs` ranges over policies, kinds of connection,
compression, batch writing, direction, device counts and rates on both sides;
`ActivationFails` is the error path of `rdma_activate`, which any of its steps
can take.

**`DeltaTransfer`** is the transfer of one file: `generate_and_send_sums`, the
sender's `match_sums`, `hash_search` and `matched`, and the receiver's
`receive_data`. One step of the search is one pass of a loop of `hash_search`:
`LookUp` an offset's chain, walk it (`Unlink`, `Reject`, `ChainEnds`), send what was
`Found`, or `Roll` to the next byte. `Aligned` is the in-place preference for the
block at the same offset with its re-alignment over zeros, and `BetterMatch` the
`want_i` test. Files are sequences over a small set of bytes. The weak sum is
computed as in `get_checksum1`, with halves modulo `SumRange` instead of 2^16, so
that it collides often. The strong sum is the first `s2length` bytes of the block:
with 0 it always collides, with a block's length it never does. The file digest is
the file itself, and with the checksum `none`, which makes every transfer a
whole-file one, a constant. A read of an in-place basis may return old or new bytes, because
the window of `map_ptr` may be older than a write and a write may still be buffered.
`DeltaTransferMC` names the sets of bytes and modes.

## What the runs check

| run | question |
|---|---|
| `bulk_one_rail` | Literals in order, no ring slot rewritten while posted, no receive slot lost or doubled, with messages handed out in two pieces and the slot counter wrapping; the sender is left waiting for receive credit only behind a flush that returned with lengths still in the buffer, never by the flush interval itself; a drain that is given up loses nothing of a transfer that did not fail; the split transport implements one in-order token stream (4.6 million states). |
| `bulk_two_rails` | The same order when two rails deliver and complete independently, and no header check ever fires. |
| `bulk_live` | Under fairness and without any timeout, a transfer ends with everything consumed, fails, or comes to the credit stall of finding 6, and to no other standstill (`EndsOrStalls`); with the timeout of `poll_completion` it ends with everything consumed or both processes end (`TransferEnds`); the failure of one side ends the other. |
| `bulk_credit_stall` | *Violation.* See finding 6. |
| `setup` | Whatever fails, the ends agree on the transport and the rails, leave nothing behind, honour `--rdma=required`, and settle. |
| `delta` | The rolling sum is right at every offset, also after a match and in the shrinking window at the end; the source is rebuilt when strong sums do not collide; whatever block sums collide, a file that verifies is the source, with a transfer digest and, the transfer then being a whole-file one, without (the old part of an appended file excepted where nothing covers it); in place, no block is copied after part of it was overwritten, and the source is rebuilt unless a false zero sum leads the re-alignment astray (finding 5); every step of the search brings it nearer to its end (2.8 million states). |
| `bulk_slot_wrap` | *Violation.* See finding 1. |
| `setup_ready_timeout` | *Violation.* See finding 2. |
| `setup_batch` | *Violation.* See finding 3. |
| `delta_want_i` | *Violation.* See finding 4. |
| `delta_realign` | *Violation.* See finding 5. |

**Bounds.** Two slots per rail are the smallest ring in which reuse, full and
partly full differ. `UintRange = 4` makes `next_slot` wrap within a run, and six
literal bytes fill, reuse and wrap both rings. `rdma_chunk_size = 2`
with `CHUNK_SIZE = 1` hands one message out in two pieces; with
`rdma_chunk_size = 1` every byte is a message, so `MaxBytes` bounds messages.
`PipeSize` of one or two integers makes the SSH stream block. `IntSize = 2` is
enough for a flush to leave part of an integer behind, and with six literals of
one byte `bulk_live` reaches the credit stall; `bulk_credit_stall` has the four
bytes of the build and a stream wide enough never to block, and needs five
literals. `bulk_two_rails` takes one byte for an integer: a flush still leaves
whole integers behind. `MaxCtl` and
`MaxCall` cap the length of a behaviour only. Two candidates per side and two
rates reach every branch of `choose_rails`. The `delta` run
takes every source of up to five bytes and every basis of up to six, over two byte
values. With block lengths 1 to 3 that gives up to six blocks, a short last block,
different full blocks with the same weak sum, windows shorter than a block, and
chains longer than `MAX_CHAIN_LEN = 2`; `CHUNK_SIZE = 1` makes early literals
happen. None of the bounds cuts off an
action: every action fires in some run. A finished or failed transfer stops, so
deadlock is not checked; `bulk_live` and `setup` say instead that every
behaviour ends where it should. `delta` checks deadlock: with `SearchAdvances`
it follows that every transfer of one file ends.

**Fairness.** `bulk_live` assumes that both processes keep running, that a queue
pair makes progress when it can (the completion timeout of the code turns the
contrary into a failure), and that a flush keeps writing until it returns. Writing
outside a flush is not assumed. `TransferEnds` also assumes that a poll which waits
for ever is given up, as `poll_completion` does after `RDMA_BOOTSTRAP_TIMEOUT_MS`;
the other properties do not. A process whose peer has exited notices it (end of file on SSH,
failed completions). `setup` assumes that each process keeps running; each wait
of the activation is bounded by `RDMA_BOOTSTRAP_TIMEOUT_MS`.

## Findings

1. `next_slot` is an `unsigned int` reduced modulo `rdma_queue_depth`. For a depth
   that does not divide 2^32 (the option accepts any value from 2 to 4096) the
   slot sequence jumps at the wrap, and a slot whose send is still posted is
   rewritten, contrary to the comment in `post_data_send`. The theorems below
   hold for every other depth, the default included.
2. The last ready byte cannot be agreed on: a side whose five seconds run out falls
   back to SSH, while its late peer finds the ready byte in the socket and goes
   active. `ADDING-RDMA.md` says any failure before all QPs are ready selects SSH.
3. `rdma_preflight` does not exclude `--write-batch` over a remote shell, although
   `rsync.1.md` says RDMA is not attempted for batch transfers.
4. The `want_i` test of `hash_search` does not compare block lengths. When truncated
   strong sums of blocks of different lengths collide (zero-filled blocks have the
   same weak sum at any length), the block sent can be longer than the rest of the
   source, and the sender stops in `map_ptr` or reads through its null result,
   instead of leaving the collision to the file checksum and a redo.
5. In place, a re-alignment that fails on its strong sum reaches the `want_i` test with
   the sums of `aligned_offset` and the old `offset`. If a block there has weak sum
   zero without being all zeros, it can be sent for bytes that differ. The file
   checksum catches it; `RebuiltInPlaceUnlessFalseZero` shows that nothing else
   goes wrong when no strong sum collides.
6. `simple_send_token` flushes with `NORMAL_FLUSH`, which returns once one byte has
   been written, and counts its lengths as flushed. After short writes (the
   descriptor does not block, `--bwlimit` caps a write, the buffer is circular) the
   lengths of posted literals can stay behind, and the sender then waits in
   `poll_completion`, which writes nothing, for credit the receiver can return only
   after reading them. The wait ends after `RDMA_BOOTSTRAP_TIMEOUT_MS` with an error
   on both sides. `ADDING-RDMA.md` speaks of "natural credit flow", and
   `benchmarks/RDMA-QUEUE-REVALIDATION.md` of control records flushed at half the
   queue depth. A `FULL_FLUSH`, or a flush of what was buffered when it began, would
   remove it: `StallsOnlyBehindFlush` shows that the interval itself is right.

## What is proved

For every number of rails, queue depth of at least two, chunk sizes, capacities and
bounds (`ConstantsAssumption`):

- `TypeCorrect`: `Spec => []TypeOK`.

and, when the queue depth divides the range of `next_slot`:

- `SlotsNeverShared`: `Spec => []SendSlotsDistinct`;
- `HeadersAlwaysAgree`: `Spec => []HeadersAgree`;
- `LiteralsInOrder`: `Spec => []LiteralOrder`;
- `ReceiveCreditConserved`: `Spec => []RecvSlotsConserved`.

The inductive invariant `IInv` is built in layers. `QueueInv` orders the counters
of each queue (completed, delivered, posted) and keeps receive slots distinct;
with `TypeOK` it is inductive alone. `SlotInv` says that the posted sends occupy
the slots just before `next_slot`, in order; this is what the comment in
`post_data_send` relies on, and the only place where the divisibility of the range
is used (`SlotStep`). `CtlInv` says that each integer on the SSH stream carries the
number and position of its literal. `MsgInv` is the heart: on each rail, the
messages received but not polled followed by those posted but not delivered are
the consecutive sequence numbers of that rail, from the next one to be polled to
the next one to be posted, and each equals the literal of that number on the SSH
stream. `ReadInv` locates the receiver within a literal. `RecvSlotsConserved` is
not inductive without the last two: a header that failed its check would lose the
slot. `MsgPost` needs `SlotInv`, because the slot it rewrites must belong to no
message in flight; `BeginFacts` derives from `MsgInv` and `ReadInv` that the message
polled is the one announced.

None of these depends on how much a flush writes. Only model-checked:
`StallsOnlyBehindFlush`, `NothingLostAtCleanup`, the refinement of `TokenStream`, everything
about `RdmaSetup` and `DeltaTransfer`, and the liveness properties, which together with `ENABLED` and
inductive facts about recursive definitions are outside what the prover supports.

## Plan

1. *Compressed tokens*: run coding and literal residues of `send_deflated_token`,
   `recv_deflated_token` and their zstd and lz4 variants.
2. *Pipeline*: generator, sender and receiver with redo, phases, incremental lists
   and the messages between receiver and generator; nothing is lost at a phase
   boundary, no file list is freed while in use, and the transfer ends.
3. *Receiver files*: temporary file, verification, rename, backup, partial-dir,
   delayed updates, and an exit at any point through `_exit_cleanup`.
4. *I/O*: ring buffers, multiplexing, index and integer coding, and the absence of
   a circular wait between the three processes.
5. *Data structures*: `map_ptr` windows, the sparse writer, the hash table, hard-link
   clusters, wildcards, deletion limits, batch replay, negotiation of checksums.
6. *Proofs*: the refinement of `TokenStream`, `RdmaSetup`'s agreement without late
   ready bytes, and the invariants of the pipeline.
