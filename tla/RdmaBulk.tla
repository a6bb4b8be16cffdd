------------------------------ MODULE RdmaBulk ------------------------------
(***************************************************************************)
(* The RDMA bulk plane of an active transport (rdma.c) together with the   *)
(* uncompressed token coder that feeds it (token.c).  Literal lengths and  *)
(* block tokens travel as integers on the buffered SSH stream; the literal *)
(* bytes travel as numbered messages striped over the rails.  A literal    *)
(* byte is identified by its position in the literal stream, so a message  *)
(* is described by its header (seq, len) and the position of its first     *)
(* byte (start).                                                           *)
(*                                                                         *)
(* The two queue pairs are external (libibverbs).  A work request stays on *)
(* its queue until its completion is polled: on rail r the first ndone[r]  *)
(* of the sender's requests sq[r] have a completion to poll, the first     *)
(* ndeliv[r] have reached the peer, and the first nrecv[r] of the          *)
(* receiver's requests rq[r] hold a message that has not been polled.      *)
(***************************************************************************)
EXTENDS Integers, Sequences, FiniteSets

CONSTANTS
    rail_count,        \* transport.rail_count, the rails that were activated
    rdma_queue_depth,  \* ring slots per rail
    rdma_chunk_size,   \* largest payload of one message
    CHUNK_SIZE,        \* largest piece simple_recv_token hands out
    UintRange,         \* next_slot is an unsigned int: 2^32 in the build
    IntSize,           \* bytes of an integer on the SSH stream: 4 in the build
    PipeSize,          \* integers the SSH stream holds between the peers
    MaxBytes,          \* bound: literal bytes of a behaviour
    MaxCtl,            \* bound: integers written on the SSH stream
    MaxCall            \* bound: literal bytes of one send_token call

ASSUME ConstantsAssumption ==
    /\ rail_count \in Nat \ {0}
    /\ rdma_queue_depth \in Nat /\ rdma_queue_depth >= 2
    /\ rdma_chunk_size \in Nat \ {0}
    /\ CHUNK_SIZE \in Nat \ {0}
    /\ UintRange \in Nat \ {0}
    /\ IntSize \in Nat \ {0}
    /\ PipeSize \in Nat \ {0}
    /\ MaxBytes \in Nat /\ MaxCtl \in Nat /\ MaxCall \in Nat

Rails == 0 .. rail_count - 1
Slots == 0 .. rdma_queue_depth - 1

Smaller(a, b) == IF a <= b THEN a ELSE b

\* A flush interval that forgets how small the rings are.
LongFlushInterval == 4 * rdma_queue_depth

\* MAX(1, rdma_queue_depth / 2): literal integers buffered before a flush.
rdma_control_flush_interval ==
    IF rdma_queue_depth \div 2 > 1 THEN rdma_queue_depth \div 2 ELSE 1

VARIABLES
    \* data sender
    spc,            \* where the sender is (see TypeOK)
    stoken, sleft,  \* token and literal bytes left of the send_token call
    samount,        \* n1 of the current turn of the loop
    rdma_control_pending,
    send_seq, sbytes,       \* next sequence number, literal bytes posted
    outstanding, next_slot, \* per rail
    sring,                  \* per rail and slot: the registered payload
    drain_rail,             \* the rail rdma_cleanup has come to
    sq, ndeliv, ndone,      \* per rail: the send queue (external)
    \* SSH stream from sender to receiver
    ctl,            \* every integer written, oldest first
    flushed,        \* how many of them have left the sender's buffer
    part,           \* bytes of the next one that have left it
    moved,          \* a byte has left since the literal flush began
    \* data receiver
    rpc,            \* where the receiver is (see TypeOK)
    rpos,           \* integers of ctl the receiver has read
    residue,        \* of simple_recv_token
    recv_seq,
    current_recv_slot, current_recv_length, current_recv_offset, \* per rail
    rring,          \* per rail and slot: the received message
    rq, nrecv,      \* per rail: the receive queue (external)
    rlen,           \* length of the piece behind the pointer last returned
    got             \* what the receiver last copied out of a slot

senderVars == <<spc, stoken, sleft, samount, rdma_control_pending, send_seq, sbytes,
                outstanding, next_slot, sring, drain_rail>>
qpVars     == <<sq, ndeliv, ndone>>
ctlVars    == <<ctl, flushed, part, moved>>
recvVars   == <<rpc, rpos, residue, recv_seq, current_recv_slot,
                current_recv_length, current_recv_offset, rlen, got>>
rqVars     == <<rring, rq, nrecv>>
vars       == <<senderVars, qpVars, ctlVars, recvVars, rqVars>>

NoMsg == [seq |-> -1, len |-> 0, start |-> 0]
\* write_int: the receiver reads val only; m and start record, for the
\* properties, which literal comes next and where its first byte is.
write_int(x) == [val |-> x, m |-> send_seq, start |-> sbytes]

-----------------------------------------------------------------------------
\* Both rings registered, every receive slot preposted.  The setup probe took
\* the first of them and receive_probe reposted it behind the others.
Init ==
    /\ spc = "idle" /\ stoken = -1 /\ sleft = 0 /\ samount = 0
    /\ rdma_control_pending = 0
    /\ send_seq = 0 /\ sbytes = 0
    /\ outstanding = [r \in Rails |-> 0] /\ next_slot = [r \in Rails |-> 0]
    /\ sring = [r \in Rails |-> [s \in Slots |-> NoMsg]]
    /\ sq = [r \in Rails |-> << >>]
    /\ ndeliv = [r \in Rails |-> 0] /\ ndone = [r \in Rails |-> 0]
    /\ drain_rail = 0
    /\ ctl = << >> /\ flushed = 0 /\ part = 0 /\ moved = FALSE
    /\ rpc = "token" /\ rpos = 0 /\ residue = 0 /\ recv_seq = 0
    /\ current_recv_slot = [r \in Rails |-> -1]
    /\ current_recv_length = [r \in Rails |-> 0]
    /\ current_recv_offset = [r \in Rails |-> 0]
    /\ rring = [r \in Rails |-> [s \in Slots |-> NoMsg]]
    /\ rq = [r \in Rails |-> [i \in 1 .. rdma_queue_depth |-> i % rdma_queue_depth]]
    /\ nrecv = [r \in Rails |-> 0]
    /\ rlen = 0 /\ got = [start |-> 0, len |-> 0]

-----------------------------------------------------------------------------
\* simple_send_token is called for n literal bytes and a token; -2 means that
\* no token follows.  matched() never asks for an empty call with -2.
SendTokenCall(n, token) ==
    /\ spc = "idle"
    /\ n > 0 \/ token # -2
    /\ sbytes + n <= MaxBytes
    /\ Len(ctl) < MaxCtl \/ (n = 0 /\ token = -1 /\ stoken # -1)
    /\ spc' = IF n > 0 THEN "loop" ELSE "token"
    /\ stoken' = token /\ sleft' = n
    /\ UNCHANGED <<drain_rail, samount, rdma_control_pending, send_seq, sbytes, outstanding,
                   next_slot, sring, qpVars, ctlVars, recvVars, rqVars>>

\* write_int(f, n1): the literal length goes into the SSH output buffer.
WriteLiteralLength ==
    /\ spc = "loop"
    /\ samount' = Smaller(rdma_chunk_size, sleft)
    /\ ctl' = Append(ctl, write_int(Smaller(rdma_chunk_size, sleft)))
    /\ spc' = "post"
    /\ UNCHANGED <<drain_rail, stoken, sleft, rdma_control_pending, send_seq, sbytes, outstanding,
                   next_slot, sring, qpVars, flushed, part, moved, recvVars, rqVars>>

\* Striping that starts on the second rail.
SkewedRail == (send_seq + 1) % rail_count

\* rdma_send_data stripes the messages over the rails.
send_rail == send_seq % rail_count

\* A full ring recognised one send too late.
LateFull(r) == outstanding[r] > rdma_queue_depth

\* post_data_send must reuse a slot and therefore poll a completion first.
ring_full(r) == outstanding[r] >= rdma_queue_depth

\* A slot counter of unlimited width.
WideAdvance(n) == n + 1

\* next_slot++ on an unsigned int.
advance_slot(n) == (n + 1) % UintRange

\* post_data_send: a full ring waits for the oldest completion, whose slot is
\* then rewritten and posted.
PostDataSend ==
    LET r == send_rail
        full == ring_full(r)
        slot == next_slot[r] % rdma_queue_depth
    IN  /\ spc = "post"
        /\ full => ndone[r] > 0
        /\ outstanding' = IF full THEN outstanding
                          ELSE [outstanding EXCEPT ![r] = @ + 1]
        /\ next_slot' = [next_slot EXCEPT ![r] = advance_slot(@)]
        /\ sring' = [sring EXCEPT ![r] = [@ EXCEPT ![slot] =
                        [seq |-> send_seq, len |-> samount, start |-> sbytes]]]
        /\ sq' = [sq EXCEPT ![r] = Append(IF full THEN Tail(@) ELSE @, slot)]
        /\ ndeliv' = IF full THEN [ndeliv EXCEPT ![r] = @ - 1] ELSE ndeliv
        /\ ndone' = IF full THEN [ndone EXCEPT ![r] = @ - 1] ELSE ndone
        /\ send_seq' = send_seq + 1
        /\ sbytes' = sbytes + samount
        /\ spc' = "count"
        /\ UNCHANGED <<drain_rail, stoken, sleft, samount, rdma_control_pending, ctlVars, recvVars, rqVars>>

\* ++rdma_control_pending >= interval asks for a flush; then len += n1.
CountControl ==
    LET flush == rdma_control_pending + 1 >= rdma_control_flush_interval
    IN  /\ spc = "count"
        /\ sleft' = sleft - samount
        /\ rdma_control_pending' = IF flush THEN 0 ELSE rdma_control_pending + 1
        /\ spc' = IF flush THEN "flush"
                  ELSE IF sleft - samount > 0 THEN "loop" ELSE "token"
        /\ UNCHANGED <<drain_rail, stoken, samount, send_seq, sbytes, outstanding, next_slot, sring,
                       qpVars, ctlVars, recvVars, rqVars>>

\* write_int(f, -(token+1)) unless the call carries no token, and a flush of
\* whatever literal lengths are still buffered.
WriteToken ==
    /\ spc = "token"
    /\ IF stoken = -2
       THEN /\ spc' = "idle"
            /\ UNCHANGED <<ctl, rdma_control_pending>>
       ELSE /\ ctl' = Append(ctl, write_int(-(stoken + 1)))
            /\ spc' = IF rdma_control_pending > 0 THEN "tflush" ELSE "idle"
            /\ rdma_control_pending' = 0
    /\ UNCHANGED <<drain_rail, stoken, sleft, samount, send_seq, sbytes, outstanding, next_slot, sring,
                   qpVars, flushed, part, moved, recvVars, rqVars>>

\* perform_io: a byte leaves the buffer for the SSH stream, which holds PipeSize
\* integers.  It writes whenever the sender is inside the io layer, so also
\* outside a flush, but not while the sender polls a completion queue.  What one
\* write() takes is not the whole buffer: the descriptor does not block, bwlimit
\* caps it, and the circular buffer has an end.
WriteOut ==
    /\ spc \in {"idle", "loop", "flush", "token", "tflush", "final"}
    /\ flushed < Len(ctl)
    /\ flushed - rpos < PipeSize
    /\ IF part + 1 = IntSize THEN flushed' = flushed + 1 /\ part' = 0
                             ELSE flushed' = flushed /\ part' = part + 1
    /\ moved' = (spc \in {"flush", "tflush"})
    /\ UNCHANGED <<senderVars, qpVars, ctl, recvVars, rqVars>>

\* When io_flush has done what its caller asked for.  FULL_FLUSH, in main after
\* the last file, empties the buffer; NORMAL_FLUSH, in simple_send_token, is
\* content with one byte.
flush_satisfied == flushed = Len(ctl) \/ (spc # "final" /\ moved)

\* io_flush returns.
FlushDone ==
    /\ spc \in {"flush", "tflush", "final"}
    /\ flush_satisfied
    /\ spc' = CASE spc = "flush"  -> IF sleft > 0 THEN "loop" ELSE "token"
                [] spc = "tflush" -> "idle"
                [] spc = "final"  -> "goodbye"
    /\ moved' = FALSE
    /\ UNCHANGED <<drain_rail, stoken, sleft, samount, rdma_control_pending, send_seq, sbytes,
                   outstanding, next_slot, sring, qpVars, ctl, flushed, part, recvVars, rqVars>>

\* The last file has been sent and main flushes the stream.
Finish ==
    /\ spc = "idle" /\ stoken = -1
    /\ spc' = "final"
    /\ UNCHANGED <<drain_rail, stoken, sleft, samount, rdma_control_pending, send_seq, sbytes,
                   outstanding, next_slot, sring, qpVars, ctlVars, recvVars, rqVars>>

\* A goodbye that does not wait for the receiver.
NoGoodbye == TRUE

\* What the final NDX_DONE of the peer tells: its receiver has taken everything.
peer_finished == rpc = "token" /\ rpos = Len(ctl) /\ residue = 0

\* read_final_goodbye returns, and the process ends in exit_cleanup.
ReadFinalGoodbye ==
    /\ spc = "goodbye"
    /\ peer_finished
    /\ spc' = "cleanup"
    /\ UNCHANGED <<drain_rail, stoken, sleft, samount, rdma_control_pending, send_seq, sbytes,
                   outstanding, next_slot, sring, qpVars, ctlVars, recvVars, rqVars>>

\* rdma_cleanup goes from rail to rail and polls a completion for every send that
\* is still posted there, after a failure ("xcleanup") as well.
DrainOutstanding(r) ==
    /\ spc \in {"cleanup", "xcleanup"} /\ r = drain_rail
    /\ outstanding[r] > 0 /\ ndone[r] > 0
    /\ outstanding' = [outstanding EXCEPT ![r] = @ - 1]
    /\ sq' = [sq EXCEPT ![r] = Tail(@)]
    /\ ndeliv' = [ndeliv EXCEPT ![r] = @ - 1]
    /\ ndone' = [ndone EXCEPT ![r] = @ - 1]
    /\ UNCHANGED <<spc, drain_rail, stoken, sleft, samount, rdma_control_pending, send_seq, sbytes,
                   next_slot, sring, ctlVars, recvVars, rqVars>>

\* The rail is drained, or poll_completion fails or times out and its sends are
\* left as they are.
LeaveRail(r) ==
    /\ spc \in {"cleanup", "xcleanup"} /\ r = drain_rail
    /\ drain_rail' = r + 1
    /\ UNCHANGED <<spc, stoken, sleft, samount, rdma_control_pending, send_seq, sbytes, outstanding,
                   next_slot, sring, qpVars, ctlVars, recvVars, rqVars>>

\* The queue pairs and rings are destroyed and the process ends.
CleanupDone ==
    /\ spc \in {"cleanup", "xcleanup"} /\ drain_rail = rail_count
    /\ spc' = IF spc = "cleanup" THEN "done" ELSE "exit"
    /\ UNCHANGED <<drain_rail, stoken, sleft, samount, rdma_control_pending, send_seq, sbytes,
                   outstanding, next_slot, sring, qpVars, ctlVars, recvVars, rqVars>>

-----------------------------------------------------------------------------
\* External: the oldest request that has not been sent reaches the peer and
\* fills its oldest free receive slot.  The payload is read from the sender's
\* ring at this moment.  Without a free slot the queue pair retries for ever
\* (rnr_retry 7).
Deliver(r) ==
    LET s == sq[r][ndeliv[r] + 1]
        d == rq[r][nrecv[r] + 1]
    IN  /\ ndeliv[r] < Len(sq[r])
        /\ nrecv[r] < Len(rq[r])
        /\ rpc # "exit" /\ spc \notin {"done", "exit"}
        /\ rring' = [rring EXCEPT ![r] = [@ EXCEPT ![d] = sring[r][s]]]
        /\ ndeliv' = [ndeliv EXCEPT ![r] = @ + 1]
        /\ nrecv' = [nrecv EXCEPT ![r] = @ + 1]
        /\ UNCHANGED <<senderVars, sq, ndone, ctlVars, recvVars, rq>>

\* External: the acknowledgement arrives and the send completes, in order.
Complete(r) ==
    /\ ndone[r] < ndeliv[r]
    /\ ndone' = [ndone EXCEPT ![r] = @ + 1]
    /\ UNCHANGED <<senderVars, sq, ndeliv, ctlVars, recvVars, rqVars>>

-----------------------------------------------------------------------------
\* simple_recv_token with no residue: read_int; a positive value starts a
\* literal, any other value is a token for receive_data.
ReadInt ==
    /\ rpc = "token" /\ residue = 0
    /\ rpos < flushed
    /\ rpos' = rpos + 1
    /\ residue' = IF ctl[rpos + 1].val > 0 THEN ctl[rpos + 1].val ELSE 0
    /\ UNCHANGED <<senderVars, qpVars, ctlVars, rpc, recv_seq, current_recv_slot,
                   current_recv_length, current_recv_offset, rlen, got, rqVars>>

recv_rail == recv_seq % rail_count

\* Released while the last byte of the message is still to be handed out.
EarlyExhausted(r) ==
    /\ current_recv_slot[r] >= 0
    /\ current_recv_offset[r] + 1 >= current_recv_length[r]

\* Released although no message is held.
NeverHeldExhausted(r) == current_recv_offset[r] = current_recv_length[r]

\* The message held on a rail has been handed out to its last byte.
exhausted(r) ==
    /\ current_recv_slot[r] >= 0
    /\ current_recv_offset[r] = current_recv_length[r]

\* A piece that ignores the limit of the decoder's callers.
WholePiece == residue

\* The size of the next piece of a literal.
piece_size == Smaller(CHUNK_SIZE, residue)

\* The slot is reposted but still taken for the current one.
KeptSlot(r) == current_recv_slot[r]

\* No message is held once its slot has been reposted.
released_slot(r) == -1

\* simple_recv_token takes n bytes off the residue and rdma_recv_data_ptr(n)
\* starts with release_exhausted_receive: a slot whose message has been handed
\* out completely goes back to the receive queue.
ReleaseExhaustedReceive ==
    LET r == recv_rail
    IN  /\ rpc = "token" /\ residue > 0
        /\ rlen' = piece_size
        /\ residue' = residue - piece_size
        /\ rpc' = "begin"
        /\ IF exhausted(r)
           THEN /\ rq' = [rq EXCEPT ![r] = Append(@, current_recv_slot[r])]
                /\ current_recv_slot' = [current_recv_slot EXCEPT ![r] = released_slot(r)]
                /\ recv_seq' = recv_seq + 1
           ELSE UNCHANGED <<rq, current_recv_slot, recv_seq>>
        /\ UNCHANGED <<senderVars, qpVars, ctlVars, rpos, current_recv_length,
                       current_recv_offset, got, rring, nrecv>>

\* begin_receive_message: poll the rail of the expected message and check its
\* header.
BeginReceiveMessage ==
    LET r == recv_rail
        d == Head(rq[r])
        header == rring[r][d]
    IN  /\ rpc = "begin" /\ current_recv_slot[r] < 0
        /\ nrecv[r] > 0
        /\ rq' = [rq EXCEPT ![r] = Tail(@)]
        /\ nrecv' = [nrecv EXCEPT ![r] = @ - 1]
        /\ IF header.seq = recv_seq /\ header.len <= rdma_chunk_size
           THEN /\ current_recv_slot' = [current_recv_slot EXCEPT ![r] = d]
                /\ current_recv_length' = [current_recv_length EXCEPT ![r] = header.len]
                /\ current_recv_offset' = [current_recv_offset EXCEPT ![r] = 0]
                /\ rpc' = rpc
           ELSE /\ rpc' = "badheader"
                /\ UNCHANGED <<current_recv_slot, current_recv_length, current_recv_offset>>
        /\ UNCHANGED <<senderVars, qpVars, ctlVars, rpos, residue, recv_seq, rlen, got, rring>>

\* The rest of rdma_recv_data_ptr: the piece must lie inside the message, and
\* the caller gets a pointer into the slot.
RecvDataPtr ==
    LET r == recv_rail
    IN  /\ rpc = "begin" /\ current_recv_slot[r] >= 0
        /\ IF rlen > current_recv_length[r] - current_recv_offset[r]
           THEN rpc' = "protocol" /\ UNCHANGED current_recv_offset
           ELSE /\ rpc' = "use"
                /\ current_recv_offset' = [current_recv_offset EXCEPT ![r] = @ + rlen]
        /\ UNCHANGED <<senderVars, qpVars, ctlVars, rpos, residue, recv_seq, current_recv_slot,
                       current_recv_length, rlen, got, rqVars>>

\* receive_data hands the pointer to sum_update and write_file.
UseData ==
    LET r == recv_rail
    IN  /\ rpc = "use"
        /\ got' = [start |-> rring[r][current_recv_slot[r]].start
                             + current_recv_offset[r] - rlen,
                   len |-> rlen]
        /\ rpc' = "token"
        /\ UNCHANGED <<senderVars, qpVars, ctlVars, rpos, residue, recv_seq, current_recv_slot,
                       current_recv_length, current_recv_offset, rlen, rqVars>>

-----------------------------------------------------------------------------
\* A sender that polls for a completion without a timeout.
PatientSenderFails ==
    /\ rpc = "exit" /\ spc \notin {"cleanup", "xcleanup", "done", "exit"}
    /\ spc' = "xcleanup"
    /\ UNCHANGED <<drain_rail, stoken, sleft, samount, rdma_control_pending, send_seq, sbytes,
                   outstanding, next_slot, sring, qpVars, ctlVars, recvVars, rqVars>>

\* Both processes: a completion that fails or does not come within the timeout,
\* a post that fails, or a dead peer ends the process with RERR_STREAMIO.  The
\* sender's exit_cleanup still runs rdma_cleanup.
SenderFails ==
    /\ \/ spc = "post"
       \/ rpc = "exit" /\ spc \notin {"cleanup", "xcleanup", "done", "exit"}
    /\ spc' = "xcleanup"
    /\ UNCHANGED <<drain_rail, stoken, sleft, samount, rdma_control_pending, send_seq, sbytes,
                   outstanding, next_slot, sring, qpVars, ctlVars, recvVars, rqVars>>

\* A receiver that never notices the end of the SSH stream.
DeafReceiverFails ==
    /\ \/ rpc = "begin" /\ current_recv_slot[recv_rail] < 0
       \/ rpc = "token" /\ residue > 0 /\ exhausted(recv_rail)
       \/ rpc \in {"badheader", "protocol"}
    /\ rpc' = "exit"
    /\ UNCHANGED <<senderVars, qpVars, ctlVars, rpos, residue, recv_seq, current_recv_slot,
                   current_recv_length, current_recv_offset, rlen, got, rqVars>>

ReceiverFails ==
    /\ \/ rpc = "begin" /\ current_recv_slot[recv_rail] < 0
       \/ rpc = "token" /\ residue > 0 /\ exhausted(recv_rail)
       \/ rpc \in {"badheader", "protocol"}
       \/ spc = "exit" /\ rpc \in {"token", "begin"}
    /\ rpc' = "exit"
    /\ UNCHANGED <<senderVars, qpVars, ctlVars, rpos, residue, recv_seq, current_recv_slot,
                   current_recv_length, current_recv_offset, rlen, got, rqVars>>

SenderStep ==
    \/ \E n \in 0 .. MaxCall, token \in {-2, -1, 0} : SendTokenCall(n, token)
    \/ WriteLiteralLength \/ PostDataSend \/ CountControl \/ WriteToken
    \/ FlushDone \/ Finish \/ ReadFinalGoodbye \/ CleanupDone
    \/ \E r \in Rails : DrainOutstanding(r) \/ LeaveRail(r)

ReceiverStep ==
    ReadInt \/ ReleaseExhaustedReceive \/ BeginReceiveMessage \/ RecvDataPtr \/ UseData

Next ==
    \/ SenderStep \/ WriteOut
    \/ \E r \in Rails : Deliver(r) \/ Complete(r)
    \/ ReceiverStep
    \/ SenderFails \/ ReceiverFails

Spec == Init /\ [][Next]_vars

\* Both processes keep running, the queue pairs make progress, and a flush keeps
\* writing.  Nothing is assumed of failures, nor of writes outside a flush.
Fairness ==
    /\ WF_vars(SenderStep)
    /\ WF_vars(spc \in {"flush", "tflush", "final"} /\ WriteOut)
    /\ \A r \in Rails : WF_vars(Deliver(r)) /\ WF_vars(Complete(r))
    /\ WF_vars(ReceiverStep)
    /\ WF_vars(spc = "exit" /\ ReceiverFails)
    /\ WF_vars(rpc = "exit" /\ SenderFails)

FairSpec == Spec /\ Fairness

-----------------------------------------------------------------------------
Msg == [seq : Int, len : Nat, start : Nat]
CtlInt == [val : Int, m : Nat, start : Nat]

\* Types of the transport and token coder state.
TypeOK ==
    /\ spc \in {"idle", "loop", "post", "count", "flush", "token", "tflush", "final", "goodbye",
               "cleanup", "xcleanup", "done", "exit"}
    /\ stoken \in {-2, -1, 0} /\ sleft \in Nat /\ samount \in Nat
    /\ rdma_control_pending \in Nat
    /\ send_seq \in Nat /\ sbytes \in Nat
    /\ outstanding \in [Rails -> Nat] /\ next_slot \in [Rails -> 0 .. UintRange - 1]
    /\ sring \in [Rails -> [Slots -> Msg]]
    /\ sq \in [Rails -> Seq(Slots)]
    /\ ndeliv \in [Rails -> Nat] /\ ndone \in [Rails -> Nat]
    /\ drain_rail \in 0 .. rail_count
    /\ ctl \in Seq(CtlInt) /\ flushed \in Nat /\ part \in 0 .. IntSize - 1 /\ moved \in BOOLEAN
    /\ rpc \in {"token", "begin", "use", "exit", "badheader", "protocol"}
    /\ rpos \in Nat /\ residue \in Nat /\ recv_seq \in Nat
    /\ current_recv_slot \in [Rails -> Slots \cup {-1}]
    /\ current_recv_length \in [Rails -> Nat] /\ current_recv_offset \in [Rails -> Nat]
    /\ rring \in [Rails -> [Slots -> Msg]]
    /\ rq \in [Rails -> Seq(Slots)] /\ nrecv \in [Rails -> Nat]
    /\ rlen \in Nat /\ got \in [start : Nat, len : Nat]

\* "The receiver consumes literal chunks in rsync token order even when rails
\* complete out of order" (ADDING-RDMA.md): while receive_data holds a pointer,
\* the bytes behind it are the next bytes of the literal whose length it last
\* read from the SSH stream.
LiteralOrder ==
    rpc = "use" =>
        LET r == recv_rail
        IN  rring[r][current_recv_slot[r]].start + current_recv_offset[r] - rlen
              = ctl[rpos].start + ctl[rpos].val - residue - rlen

\* Neither the header check of begin_receive_message nor the message boundary
\* check of rdma_recv_data_ptr ever fails on what the sender really sent.
HeadersAgree == rpc \notin {"badheader", "protocol"}

\* The comment in post_data_send: the completion it polled "releases exactly
\* the oldest ring slot: next_slot % depth".  So no two posted sends share a
\* slot, and a slot is never rewritten while its send may still be read.
SendSlotsDistinct ==
    \A r \in Rails :
        /\ Len(sq[r]) = outstanding[r] /\ outstanding[r] <= rdma_queue_depth
        /\ \A i, j \in 1 .. Len(sq[r]) : sq[r][i] = sq[r][j] => i = j

\* Credit is conserved: every receive slot is either on the receive queue once
\* or behind the pointer the caller holds, never both and never lost, so the
\* bytes receive_data is reading cannot be overwritten by the next message.
RecvSlotsConserved ==
    \A r \in Rails :
        LET held == current_recv_slot[r]
        IN  /\ \A i, j \in 1 .. Len(rq[r]) : rq[r][i] = rq[r][j] => i = j
            /\ \A i \in 1 .. Len(rq[r]) : rq[r][i] # held
            /\ Len(rq[r]) = rdma_queue_depth - (IF held >= 0 THEN 1 ELSE 0)

\* The sender waits for a completion that cannot come before its peer reposts a
\* receive slot on that rail.
WaitsForCredit ==
    LET r == send_rail
    IN  /\ spc = "post" /\ ring_full(r) /\ ndone[r] = 0
        /\ ndeliv[r] = 0 /\ nrecv[r] = Len(rq[r])

\* The receiver has something to do, or a literal length to read that has left
\* the sender's buffer; so it will come to repost a slot.
CanReturnCredit ==
    residue > 0 \/ rpc # "token" \/ \E i \in rpos + 1 .. flushed : ctl[i].val > 0

\* "Returning a slot reposts its receive WR, providing natural credit flow"
\* (ADDING-RDMA.md): while the sender waits for credit, the receiver can return
\* some.
NoCreditStall == WaitsForCredit => CanReturnCredit

\* Literal lengths in the sender's buffer.
Buffered == {i \in flushed + 1 .. Len(ctl) : ctl[i].val > 0}

\* The flush interval is short enough for a credit stall never to come from the
\* lengths that simple_send_token itself holds back until its next flush: the
\* sender stalls only behind a flush that returned with lengths still buffered.
StallsOnlyBehindFlush ==
    WaitsForCredit /\ ~CanReturnCredit => Cardinality(Buffered) > rdma_control_pending + 1

\* rdma_cleanup leaves a rail when a poll fails (rdma.c:1398) and destroys the
\* rings with sends still posted.  After a transfer that did not fail nothing is
\* lost by it: every message has reached the receiver before.
NothingLostAtCleanup ==
    spc \in {"cleanup", "done"} => \A r \in Rails : ndeliv[r] = Len(sq[r])

\* The receiver has taken in everything that was written, and the sender is done.
Completed == spc = "done" /\ peer_finished

\* Without any timeout: a transfer in which no side fails completes, or comes to
\* the credit stall behind an incomplete flush and to no other standstill.
EndsOrStalls ==
    <>(\/ spc = "exit" \/ rpc = "exit" \/ Completed
       \/ WaitsForCredit /\ ~CanReturnCredit /\ Cardinality(Buffered) > rdma_control_pending + 1)

\* poll_completion gives up after RDMA_BOOTSTRAP_TIMEOUT_MS.
Timeout == WF_vars(spc = "post" /\ SenderFails)

\* With the timeout of poll_completion every transfer ends: the stall, too, is an
\* error of both processes and not a hang.
TransferEnds == Timeout => <>(Completed \/ (spc = "exit" /\ rpc = "exit"))

\* A failure after activation is a failure of both processes, not a hang of
\* the other one.
FailureSpreads ==
    /\ spc = "exit" ~> rpc = "exit"
    /\ rpc = "exit" ~> spc \in {"exit", "done"}

=============================================================================
