---------------------------- MODULE RdmaBulkInv ----------------------------
(***************************************************************************)
(* The inductive invariant of RdmaBulk.  It is split by what it speaks of: *)
(* the queues of each rail, the slots the sender will use next, the        *)
(* integers on the SSH stream, the messages in flight on each rail, and    *)
(* where the receiver is in the literal it is reading.                     *)
(***************************************************************************)
EXTENDS RdmaBulk

\* No receive slot is posted twice, nor while its message is held.
RecvDistinct ==
    \A r \in Rails :
        /\ \A i, j \in 1 .. Len(rq[r]) : rq[r][i] = rq[r][j] => i = j
        /\ \A i \in 1 .. Len(rq[r]) : rq[r][i] # current_recv_slot[r]

\* Completions are a prefix of deliveries, deliveries of the posted sends, and
\* outstanding counts the latter; filled receive requests are a prefix too, and
\* only the rail of recv_seq can hold a message.
QueueInv ==
    /\ \A r \in Rails :
        /\ Len(sq[r]) = outstanding[r] /\ outstanding[r] <= rdma_queue_depth
        /\ ndone[r] <= ndeliv[r] /\ ndeliv[r] <= Len(sq[r])
        /\ nrecv[r] <= Len(rq[r])
        /\ current_recv_slot[r] >= 0 => r = recv_rail
    /\ RecvDistinct
    /\ spc \in {"post", "count"} => samount \in 1 .. sleft
    /\ spc = "loop" => sleft > 0
    /\ flushed <= Len(ctl) /\ rpos <= flushed
    /\ rpc = "use" => current_recv_slot[recv_rail] >= 0 /\ rlen <= current_recv_offset[recv_rail]

\* The slot k positions before slot a in a ring.
Back(a, k) == IF a - k >= 0 THEN a - k ELSE a - k + rdma_queue_depth

\* The posted sends occupy the slots just before the next one, in order.
SlotInv ==
    \A r \in Rails : \A i \in 1 .. Len(sq[r]) :
        sq[r][i] = Back(next_slot[r] % rdma_queue_depth, Len(sq[r]) + 1 - i)

-----------------------------------------------------------------------------
\* 1 for a literal length, 0 for a token.
Lit(x) == IF x.val > 0 THEN 1 ELSE 0
Bytes(x) == IF x.val > 0 THEN x.val ELSE 0

\* How many of the integers written so far have been followed by their message.
Settled == IF spc = "post" THEN Len(ctl) - 1 ELSE Len(ctl)

\* Every integer carries the number of the next literal and its first byte.
CtlInv ==
    /\ \A c \in 1 .. Len(ctl) : ctl[c].val <= rdma_chunk_size
    /\ Len(ctl) > 0 => ctl[1].m = 0 /\ ctl[1].start = 0
    /\ \A c \in 1 .. Len(ctl) - 1 :
        /\ ctl[c + 1].m = ctl[c].m + Lit(ctl[c])
        /\ ctl[c + 1].start = ctl[c].start + Bytes(ctl[c])
    /\ \A c, d \in 1 .. Len(ctl) : c < d => ctl[c].m + Lit(ctl[c]) <= ctl[d].m
    /\ spc \notin {"xcleanup", "exit"} =>
        /\ \A c \in 1 .. Settled : ctl[c].m + Lit(ctl[c]) <= send_seq
        /\ Settled = 0 => send_seq = 0 /\ sbytes = 0
        /\ Settled > 0 => /\ send_seq = ctl[Settled].m + Lit(ctl[Settled])
                          /\ sbytes = ctl[Settled].start + Bytes(ctl[Settled])
    /\ spc = "post" => Len(ctl) > 0 /\ ctl[Len(ctl)] = [val |-> samount, m |-> send_seq, start |-> sbytes]

-----------------------------------------------------------------------------
\* How far rail r is behind rail a in the round robin.
Gap(a, r) == IF r >= a THEN r - a ELSE r - a + rail_count

\* The next sequence number to be posted on rail r, and to be polled there.
NextSent(r) == send_seq + Gap(send_rail, r)
NextPolled(r) == recv_seq + Gap(recv_rail, r) + (IF current_recv_slot[r] >= 0 THEN rail_count ELSE 0)

\* The k-th sequence number of a rail after b.
Kth(b, k) == b + k * rail_count

\* x is the message of every literal on the SSH stream with its number.
Matches(x) ==
    /\ x.seq < send_seq
    /\ \A c \in 1 .. Len(ctl) :
        ctl[c].val > 0 /\ ctl[c].m = x.seq => x.len = ctl[c].val /\ x.start = ctl[c].start

\* On each rail the messages that were received but not polled, followed by
\* those posted but not delivered, are the consecutive messages of that rail
\* from NextPolled up to NextSent.
RailInv(r) ==
    /\ \A j \in 1 .. nrecv[r] :
        /\ rring[r][rq[r][j]].seq = Kth(NextPolled(r), j - 1)
        /\ Matches(rring[r][rq[r][j]])
    /\ \A i \in ndeliv[r] + 1 .. Len(sq[r]) :
        /\ sring[r][sq[r][i]].seq = Kth(NextPolled(r), nrecv[r] + i - ndeliv[r] - 1)
        /\ Matches(sring[r][sq[r][i]])
    /\ NextSent(r) = Kth(NextPolled(r), nrecv[r] + Len(sq[r]) - ndeliv[r])

MsgInv == \A r \in Rails : RailInv(r)

\* The message held on rail r is the literal x, of which n bytes were handed out.
Holds(r, x, n) ==
    /\ recv_seq = x.m /\ current_recv_slot[r] >= 0
    /\ current_recv_length[r] = x.val /\ current_recv_offset[r] = n
    /\ rring[r][current_recv_slot[r]].start = x.start

\* Where the receiver is: between literals the last message is still held,
\* handed out to its last byte; inside a literal its message is held, except
\* before its first byte.
BetweenLiterals(m) ==
    LET r == recv_rail
    IN  IF current_recv_slot[r] >= 0
        THEN recv_seq + 1 = m /\ current_recv_offset[r] = current_recv_length[r]
        ELSE recv_seq = m

ReadInv ==
    LET r == recv_rail
        e == ctl[rpos]
    IN  /\ rpc \notin {"badheader", "protocol"}
        /\ rpos = 0 => residue = 0 /\ rpc \in {"token", "exit"} /\ (rpc = "token" => BetweenLiterals(0))
        /\ rpos > 0 =>
            /\ e.val <= 0 => residue = 0 /\ rpc \in {"token", "exit"}
            /\ rpc = "token" =>
                IF e.val <= 0 \/ residue = e.val THEN BetweenLiterals(e.m)
                ELSE residue < e.val /\ Holds(r, e, e.val - residue)
            /\ rpc = "begin" =>
                /\ rlen > 0 /\ residue + rlen <= e.val
                /\ IF current_recv_slot[r] >= 0 THEN Holds(r, e, e.val - residue - rlen)
                   ELSE recv_seq = e.m /\ residue + rlen = e.val
            /\ rpc = "use" =>
                rlen > 0 /\ residue + rlen <= e.val /\ Holds(r, e, e.val - residue)

-----------------------------------------------------------------------------
\* The whole invariant, for a queue depth that divides the range of next_slot.
IInv == TypeOK /\ QueueInv /\ RecvSlotsConserved /\ SlotInv /\ CtlInv /\ MsgInv /\ ReadInv

=============================================================================
