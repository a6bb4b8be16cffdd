------------------------ MODULE RdmaBulkQueue_proofs ------------------------
(***************************************************************************)
(* Proofs about RdmaBulk for every number of rails, queue depth, chunk     *)
(* size and stream capacity: types and queues.                             *)
(***************************************************************************)
EXTENDS RdmaBulkInv, TLAPS

\* Quotient and remainder are unique.
LEMMA DivisionUnique ==
    ASSUME NEW N \in Nat \ {0}, NEW q \in Nat, NEW p \in Nat,
           NEW s \in 0 .. N - 1, NEW t \in 0 .. N - 1, N * q + s = N * p + t
    PROVE  s = t
  <1>1. CASE q > p
    <2>1. N * q >= N * (p + 1)  BY <1>1
    <2> QED  BY <2>1
  <1>2. CASE q < p
    <2>1. N * p >= N * (q + 1)  BY <1>2
    <2> QED  BY <2>1
  <1> QED  BY <1>1, <1>2

\* The remainder of a counter is a position of the ring.
LEMMA ModRange ==
    ASSUME NEW N \in Nat \ {0}, NEW n \in Nat
    PROVE  n % N \in 0 .. N - 1
  OBVIOUS

\* One step of a counter is one step round the ring.
LEMMA ModStep ==
    ASSUME NEW N \in Nat \ {0}, NEW n \in Nat
    PROVE  (n + 1) % N = IF n % N = N - 1 THEN 0 ELSE (n % N) + 1
  <1> DEFINE q == n \div N  t == n % N  p == (n + 1) \div N  s == (n + 1) % N
  <1>1. q \in Nat /\ t \in 0 .. N - 1 /\ n = N * q + t  OBVIOUS
  <1>2. p \in Nat /\ s \in 0 .. N - 1 /\ n + 1 = N * p + s  OBVIOUS
  <1>3. CASE t = N - 1
    <2>1. N * p + s = N * (q + 1) + 0  BY <1>1, <1>2, <1>3
    <2>2. 0 \in 0 .. N - 1 /\ q + 1 \in Nat  BY <1>1
    <2> HIDE DEF q, t, p, s
    <2>3. s = 0  BY ONLY Zenon, <1>2, <2>1, <2>2, DivisionUnique
    <2> QED  BY <1>3, <2>3 DEF s, t
  <1>4. CASE t # N - 1
    <2>1. N * p + s = N * q + (t + 1)  BY <1>1, <1>2
    <2>2. t + 1 \in 0 .. N - 1  BY <1>1, <1>4
    <2> HIDE DEF q, t, p, s
    <2>3. s = t + 1  BY <1>1, <1>2, <2>1, <2>2, DivisionUnique
    <2> QED  BY <1>4, <2>3 DEF s, t
  <1> QED  BY <1>3, <1>4

\* next_slot++ moves to the next slot, also when it wraps, provided the queue
\* depth divides the range of the counter.
LEMMA SlotStep ==
    ASSUME UintRange % rdma_queue_depth = 0, NEW n \in 0 .. UintRange - 1
    PROVE  /\ n % rdma_queue_depth \in Slots
           /\ advance_slot(n) \in 0 .. UintRange - 1
           /\ advance_slot(n) % rdma_queue_depth
                = IF n % rdma_queue_depth = rdma_queue_depth - 1 THEN 0
                  ELSE (n % rdma_queue_depth) + 1
  <1> DEFINE D == rdma_queue_depth
  <1>0. D \in Nat \ {0} /\ UintRange \in Nat \ {0} /\ n \in Nat  BY ConstantsAssumption
  <1>1. n % D \in Slots  BY <1>0, ModRange DEF Slots
  <1>2. (n + 1) % D = IF n % D = D - 1 THEN 0 ELSE (n % D) + 1  BY ONLY Zenon, <1>0, ModStep
  <1>3. CASE n + 1 = UintRange
    <2>1. advance_slot(n) = 0  BY <1>0, <1>3 DEF advance_slot
    <2>2. 0 % D = 0  BY <1>0
    <2> QED  BY <1>0, <1>1, <1>2, <1>3, <2>1, <2>2
  <1>4. CASE n + 1 # UintRange
    <2>1. advance_slot(n) = n + 1  BY <1>0, <1>4 DEF advance_slot
    <2> QED  BY <1>0, <1>1, <1>2, <1>4, <2>1
  <1> QED  BY <1>3, <1>4

\* The first D positive numbers fall on the slots of a ring of D, each once.
LEMMA RingOrder ==
    ASSUME NEW i \in 1 .. rdma_queue_depth
    PROVE  i % rdma_queue_depth = IF i = rdma_queue_depth THEN 0 ELSE i
  BY ConstantsAssumption

\* What Rails, and the rails of the next message to send and to receive, are.
LEMMA RailTypes ==
    ASSUME TypeOK
    PROVE  send_rail \in Rails /\ recv_rail \in Rails /\ Rails \subseteq Nat /\ 0 \in Rails
  <1>1. rail_count \in Nat \ {0} /\ send_seq \in Nat /\ recv_seq \in Nat
    BY ConstantsAssumption DEF TypeOK
  <1>2. send_rail \in 0 .. rail_count - 1 /\ recv_rail \in 0 .. rail_count - 1
    BY <1>1, ModRange DEF send_rail, recv_rail
  <1> QED  BY <1>1, <1>2 DEF Rails

\* Moving a message from one end of a queue to the other keeps it a queue.
LEMMA SeqFacts ==
    ASSUME NEW S, NEW q \in Seq(S), NEW x \in S
    PROVE  /\ Append(q, x) \in Seq(S) /\ Len(Append(q, x)) = Len(q) + 1
           /\ \A i \in 1 .. Len(q) : Append(q, x)[i] = q[i]
           /\ Append(q, x)[Len(q) + 1] = x
           /\ Len(q) \in Nat
           /\ Len(q) > 0 => /\ Head(q) = q[1] /\ Head(q) \in S
                            /\ Tail(q) \in Seq(S) /\ Len(Tail(q)) = Len(q) - 1
                            /\ \A i \in 1 .. Len(q) - 1 : Tail(q)[i] = q[i + 1]
           /\ \A i \in 1 .. Len(q) : q[i] \in S
  OBVIOUS

-----------------------------------------------------------------------------
QInv == TypeOK /\ QueueInv

LEMMA QueueInit == Init => QInv
  <1> SUFFICES ASSUME Init PROVE QInv
    OBVIOUS
  <1> USE ConstantsAssumption
  <1>1. \A i \in 1 .. rdma_queue_depth : i % rdma_queue_depth \in Slots
    BY RingOrder DEF Slots
  <1>2. [i \in 1 .. rdma_queue_depth |-> i % rdma_queue_depth] \in Seq(Slots)
    BY <1>1
  <1>3. NoMsg \in Msg  BY DEF NoMsg, Msg
  <1>4. TypeOK
    <2>1. /\ outstanding \in [Rails -> Nat] /\ next_slot \in [Rails -> 0 .. UintRange - 1]
          /\ sring \in [Rails -> [Slots -> Msg]] /\ sq \in [Rails -> Seq(Slots)]
          /\ ndeliv \in [Rails -> Nat] /\ ndone \in [Rails -> Nat]
      BY <1>3 DEF Init
    <2>2. /\ current_recv_slot \in [Rails -> Slots \cup {-1}]
          /\ current_recv_length \in [Rails -> Nat] /\ current_recv_offset \in [Rails -> Nat]
          /\ rring \in [Rails -> [Slots -> Msg]]
          /\ rq \in [Rails -> Seq(Slots)] /\ nrecv \in [Rails -> Nat]
      BY <1>2, <1>3 DEF Init
    <2>3. /\ ctl \in Seq(CtlInt) /\ part \in 0 .. IntSize - 1 /\ drain_rail \in 0 .. rail_count
          /\ got \in [start : Nat, len : Nat]
      BY DEF Init
    <2>4. /\ stoken \in {-2, -1, 0} /\ sleft \in Nat /\ samount \in Nat /\ rdma_control_pending \in Nat
          /\ send_seq \in Nat /\ sbytes \in Nat /\ flushed \in Nat /\ rpos \in Nat
          /\ residue \in Nat /\ recv_seq \in Nat /\ rlen \in Nat
      BY DEF Init
    <2>5. spc = "idle" /\ rpc = "token" /\ moved = FALSE  BY DEF Init
    <2> QED  BY ONLY Zenon, <2>1, <2>2, <2>3, <2>4, <2>5 DEF TypeOK
  <1>5. \A r \in Rails : Len(rq[r]) = rdma_queue_depth
    BY DEF Init
  <1>6. RecvDistinct
    <2> SUFFICES ASSUME NEW r \in Rails
                 PROVE  /\ \A i, j \in 1 .. Len(rq[r]) : rq[r][i] = rq[r][j] => i = j
                        /\ \A i \in 1 .. Len(rq[r]) : rq[r][i] # -1
      BY <1>5 DEF RecvDistinct, Init
    <2>1. \A i \in 1 .. Len(rq[r]) : rq[r][i] = IF i = rdma_queue_depth THEN 0 ELSE i
      BY Zenon, <1>5, RingOrder DEF Init
    <2> QED  BY <1>5, <2>1
  <1> QED  BY <1>4, <1>5, <1>6 DEF QInv, QueueInv, Init

\* The actions that touch neither the rings nor the queues of a rail.
LEMMA QueueStepControl ==
    ASSUME QInv,
           \/ \E n \in 0 .. MaxCall, token \in {-2, -1, 0} : SendTokenCall(n, token)
           \/ WriteLiteralLength \/ CountControl \/ WriteToken \/ FlushDone \/ Finish
           \/ ReadFinalGoodbye \/ (\E r \in Rails : LeaveRail(r)) \/ CleanupDone
           \/ WriteOut \/ ReadInt \/ SenderFails \/ ReceiverFails \/ UNCHANGED vars
    PROVE  QInv'
  <1> USE ConstantsAssumption DEF QInv
  <1> DEFINE rails == <<outstanding, next_slot, sring, sq, ndeliv, ndone, current_recv_slot,
                        current_recv_length, current_recv_offset, rring, rq, nrecv, recv_seq, rlen>>
  <1>0. TypeOK /\ QueueInv
    BY DEF QInv
  <1>1. ASSUME UNCHANGED rails,
               spc' \in {"idle", "loop", "post", "count", "flush", "token", "tflush", "final",
                         "goodbye", "cleanup", "xcleanup", "done", "exit"},
               drain_rail' \in 0 .. rail_count, part' \in 0 .. IntSize - 1, moved' \in BOOLEAN,
               stoken' \in {-2, -1, 0}, sleft' \in Nat, samount' \in Nat,
               rdma_control_pending' \in Nat, UNCHANGED <<send_seq, sbytes, got>>,
               ctl' \in Seq(CtlInt), flushed' \in Nat, rpos' \in Nat, residue' \in Nat,
               rpc' \in {rpc, "exit"},
               flushed' <= Len(ctl'), rpos' <= flushed',
               spc' \in {"post", "count"} => samount' \in 1 .. sleft',
               spc' = "loop" => sleft' > 0
        PROVE  QInv'
    <2>1. TypeOK'
      <3>1. rpc' \in {"token", "begin", "use", "exit", "badheader", "protocol"}
        BY ONLY <1>0, <1>1 DEF TypeOK
      <3> QED  BY ONLY ZenonT(30), <1>0, <1>1, <3>1 DEF TypeOK
    <2>2. QueueInv'
      BY <1>1 DEF QueueInv, RecvDistinct, recv_rail
    <2> QED  BY <2>1, <2>2
  <1>2. ASSUME NEW n \in 0 .. MaxCall, NEW token \in {-2, -1, 0}, SendTokenCall(n, token)
        PROVE  QInv'
    BY SMTT(20), <1>1, <1>2 DEF SendTokenCall, TypeOK, QueueInv, qpVars, ctlVars, recvVars, rqVars
  <1>3. CASE WriteLiteralLength
    <2>1. write_int(Smaller(rdma_chunk_size, sleft)) \in CtlInt
      BY DEF write_int, CtlInt, Smaller, TypeOK
    <2> QED  BY <1>1, <1>3, <2>1 DEF WriteLiteralLength, Smaller, TypeOK, QueueInv, qpVars, recvVars, rqVars
  <1>4. CASE CountControl
    BY <1>1, <1>4 DEF CountControl, TypeOK, QueueInv, qpVars, ctlVars, recvVars, rqVars
  <1>5. CASE WriteToken
    <2>1. write_int(-(stoken + 1)) \in CtlInt
      BY DEF write_int, CtlInt, TypeOK
    <2>2. /\ ctl' \in Seq(CtlInt) /\ Len(ctl') >= Len(ctl) /\ Len(ctl') \in Nat /\ Len(ctl) \in Nat
          /\ rdma_control_pending' \in Nat /\ spc' \in {"idle", "tflush"}
      <3>1. CASE stoken = -2  BY <1>5, <3>1 DEF WriteToken, TypeOK
      <3>2. CASE stoken # -2
        <4>1. ctl' = Append(ctl, write_int(-(stoken + 1)))  BY <1>5, <3>2 DEF WriteToken
        <4>2. ctl \in Seq(CtlInt)  BY DEF TypeOK
        <4>3. ctl' \in Seq(CtlInt) /\ Len(ctl') = Len(ctl) + 1 /\ Len(ctl) \in Nat
          BY <2>1, <4>1, <4>2, SeqFacts
        <4> QED  BY <1>5, <3>2, <4>3 DEF WriteToken
      <3> QED  BY <3>1, <3>2
    <2>3. UNCHANGED <<drain_rail, stoken, sleft, samount, send_seq, sbytes, flushed, part, moved, rpc, rpos, residue, got>>
          /\ UNCHANGED rails
      BY <1>5 DEF WriteToken, qpVars, recvVars, rqVars
    <2>4. /\ stoken \in {-2, -1, 0} /\ sleft \in Nat /\ samount \in Nat /\ flushed \in Nat
          /\ rpos \in Nat /\ residue \in Nat /\ part \in 0 .. IntSize - 1
          /\ drain_rail \in 0 .. rail_count /\ flushed <= Len(ctl) /\ rpos <= flushed
      BY DEF TypeOK, QueueInv
    <2>5. moved \in BOOLEAN  BY DEF TypeOK
    <2>6. flushed <= Len(ctl')  BY ONLY <2>2, <2>4
    <2> QED  BY Zenon, <1>1, <2>2, <2>3, <2>4, <2>5, <2>6
  <1>6. CASE FlushDone
    BY Zenon, <1>1, <1>6 DEF FlushDone, TypeOK, QueueInv, qpVars, ctlVars, recvVars, rqVars
  <1>7. CASE Finish \/ ReadFinalGoodbye \/ CleanupDone \/ SenderFails
    <2>1. CASE Finish
      BY Zenon, <1>1, <2>1 DEF Finish, TypeOK, QueueInv, qpVars, ctlVars, recvVars, rqVars
    <2>2. CASE CleanupDone
      BY Zenon, <1>1, <2>2 DEF CleanupDone, TypeOK, QueueInv, qpVars, ctlVars, recvVars, rqVars
    <2>3. CASE SenderFails
      BY Zenon, <1>1, <2>3 DEF SenderFails, TypeOK, QueueInv, qpVars, ctlVars, recvVars, rqVars
    <2>4. CASE ReadFinalGoodbye
      BY Zenon, <1>1, <2>4 DEF ReadFinalGoodbye, TypeOK, QueueInv, qpVars, ctlVars, recvVars, rqVars
    <2> QED  BY <1>7, <2>1, <2>2, <2>3, <2>4
  <1>8. CASE WriteOut
    <2>1. /\ flushed' \in Nat /\ part' \in 0 .. IntSize - 1 /\ moved' \in BOOLEAN
          /\ flushed' <= Len(ctl) /\ flushed <= flushed'
      <3>1. flushed \in Nat /\ part \in 0 .. IntSize - 1 /\ ctl \in Seq(CtlInt)  BY ONLY <1>0 DEF TypeOK
      <3>2. flushed < Len(ctl) /\ Len(ctl) \in Nat /\ IntSize \in Nat \ {0}
        BY ONLY <1>8, <3>1, ConstantsAssumption DEF WriteOut
      <3>3. moved' \in BOOLEAN  BY ONLY <1>8 DEF WriteOut
      <3> QED  BY ONLY SMTT(20), <1>8, <3>1, <3>2, <3>3 DEF WriteOut
    <2>2. UNCHANGED <<senderVars, qpVars, ctl, recvVars, rqVars>>  BY <1>8 DEF WriteOut
    <2>3. rpos <= flushed'  BY <2>1 DEF TypeOK, QueueInv
    <2> QED  BY <1>1, <2>1, <2>2, <2>3 DEF TypeOK, QueueInv, senderVars, qpVars, recvVars, rqVars
  <1>9. CASE ReadInt
    <2>1. ctl[rpos + 1].val \in Int
      <3>1. ctl \in Seq(CtlInt) /\ rpos + 1 \in 1 .. Len(ctl)
        BY <1>9 DEF ReadInt, TypeOK, QueueInv
      <3>2. ctl[rpos + 1] \in CtlInt  BY <3>1
      <3> QED  BY <3>2 DEF CtlInt
    <2>2. rpos' \in Nat /\ residue' \in Nat /\ rpos' <= flushed /\ flushed <= Len(ctl)
      <3>1. rpos \in Nat /\ residue \in Nat /\ flushed \in Nat  BY ONLY <1>0 DEF TypeOK
      <3>2. flushed <= Len(ctl)  BY ONLY <1>0 DEF QueueInv
      <3> QED  BY ONLY SMTT(20), <1>9, <2>1, <3>1, <3>2 DEF ReadInt
    <2>3. UNCHANGED <<rails, senderVars, ctlVars, rpc, got>>
      BY <1>9 DEF ReadInt, senderVars, qpVars, rqVars
    <2> QED  BY Zenon, <1>1, <2>2, <2>3 DEF TypeOK, QueueInv, senderVars, ctlVars
  <1>10. CASE ReceiverFails
    BY <1>1, <1>10 DEF ReceiverFails, TypeOK, QueueInv, senderVars, qpVars, ctlVars, rqVars
  <1>11. CASE UNCHANGED vars
    BY <1>1, <1>11 DEF vars, TypeOK, QueueInv, senderVars, qpVars, ctlVars, recvVars, rqVars
  <1>12. ASSUME NEW r \in Rails, LeaveRail(r) PROVE QInv'
    <2>1. drain_rail' \in 0 .. rail_count  BY <1>12 DEF LeaveRail, Rails
    <2> QED  BY Zenon, <1>1, <1>12, <2>1 DEF LeaveRail, TypeOK, QueueInv, qpVars, ctlVars, recvVars, rqVars
  <1> QED  BY <1>2, <1>3, <1>4, <1>5, <1>6, <1>7, <1>8, <1>9, <1>10, <1>11, <1>12

\* The send queue: a post takes a completed request off a full queue.
LEMMA QueueStepPost == QInv /\ PostDataSend => QInv'
  <1> SUFFICES ASSUME QInv, PostDataSend PROVE QInv'
    OBVIOUS
  <1> DEFINE r == send_rail
             full == ring_full(r)
             slot == next_slot[r] % rdma_queue_depth
             rest == IF full THEN Tail(sq[r]) ELSE sq[r]
  <1> USE DEF QInv
  <1>1. r \in Rails /\ slot \in Slots
    <2>1. next_slot[r] \in Nat /\ rdma_queue_depth \in Nat \ {0}
      BY ConstantsAssumption, RailTypes DEF TypeOK
    <2> QED  BY Zenon, <2>1, RailTypes, ModRange DEF Slots
  <1>2. /\ sq[r] \in Seq(Slots) /\ outstanding[r] \in Nat /\ ndeliv[r] \in Nat /\ ndone[r] \in Nat
        /\ Len(sq[r]) = outstanding[r] /\ outstanding[r] <= rdma_queue_depth
        /\ ndone[r] <= ndeliv[r] /\ ndeliv[r] <= Len(sq[r]) /\ Len(sq[r]) \in Nat
    BY <1>1 DEF TypeOK, QueueInv
  <1>3. full => ndone[r] > 0
    BY DEF PostDataSend
  <1>4. rest \in Seq(Slots) /\ Len(rest) = IF full THEN outstanding[r] - 1 ELSE outstanding[r]
    BY <1>1, <1>2, <1>3, SeqFacts
  <1>5. Append(rest, slot) \in Seq(Slots) /\ Len(Append(rest, slot)) = Len(rest) + 1
    <2> HIDE DEF rest, slot
    <2> QED  BY <1>1, <1>4, SeqFacts
  <1>6. advance_slot(next_slot[r]) \in 0 .. UintRange - 1
    <2>1. next_slot[r] + 1 \in Nat /\ UintRange \in Nat \ {0}
      BY <1>1, ConstantsAssumption DEF TypeOK
    <2> QED  BY <2>1, ModRange DEF advance_slot
  <1>7. full => outstanding[r] = rdma_queue_depth /\ outstanding[r] > 0 /\ ndone[r] > 0
    BY <1>2, <1>3, ConstantsAssumption DEF ring_full
  <1>8. ~full => outstanding[r] + 1 <= rdma_queue_depth
    BY <1>2, ConstantsAssumption DEF ring_full
  <1>9. [seq |-> send_seq, len |-> samount, start |-> sbytes] \in Msg
    BY DEF TypeOK, Msg
  <1>10. sring' \in [Rails -> [Slots -> Msg]]
    BY SMTT(20), <1>1, <1>9 DEF PostDataSend, TypeOK
  <1>11. /\ sq' = [sq EXCEPT ![r] = Append(rest, slot)]
         /\ next_slot' = [next_slot EXCEPT ![r] = advance_slot(next_slot[r])]
         /\ outstanding' = IF full THEN outstanding ELSE [outstanding EXCEPT ![r] = outstanding[r] + 1]
         /\ ndeliv' = IF full THEN [ndeliv EXCEPT ![r] = ndeliv[r] - 1] ELSE ndeliv
         /\ ndone' = IF full THEN [ndone EXCEPT ![r] = ndone[r] - 1] ELSE ndone
    BY DEF PostDataSend
  <1>12. /\ outstanding \in [Rails -> Nat] /\ next_slot \in [Rails -> 0 .. UintRange - 1]
         /\ sq \in [Rails -> Seq(Slots)] /\ ndeliv \in [Rails -> Nat] /\ ndone \in [Rails -> Nat]
    BY DEF TypeOK
  <1> HIDE DEF r, full, slot, rest
  <1>13. /\ sq' \in [Rails -> Seq(Slots)] /\ next_slot' \in [Rails -> 0 .. UintRange - 1]
         /\ \A s \in Rails : sq'[s] = IF s = r THEN Append(rest, slot) ELSE sq[s]
    BY <1>1, <1>5, <1>6, <1>11, <1>12
  <1>14. /\ outstanding' \in [Rails -> Nat] /\ ndeliv' \in [Rails -> Nat] /\ ndone' \in [Rails -> Nat]
         /\ \A s \in Rails :
              /\ outstanding'[s] = IF s = r THEN Len(rest) + 1 ELSE outstanding[s]
              /\ ndeliv'[s] = IF s = r /\ full THEN ndeliv[r] - 1 ELSE ndeliv[s]
              /\ ndone'[s] = IF s = r /\ full THEN ndone[r] - 1 ELSE ndone[s]
    <2>1. CASE full
      BY <1>1, <1>2, <1>4, <1>7, <1>11, <1>12, <2>1
    <2>2. CASE ~full
      BY <1>1, <1>2, <1>4, <1>11, <1>12, <2>2
    <2> QED  BY <2>1, <2>2
  <1>15. TypeOK'
    <2>1. /\ spc' = "count" /\ send_seq' = send_seq + 1 /\ sbytes' = sbytes + samount
          /\ UNCHANGED <<drain_rail, stoken, sleft, samount, rdma_control_pending, ctlVars, recvVars, rqVars>>
      BY DEF PostDataSend
    <2> QED  BY <1>10, <1>13, <1>14, <2>1 DEF TypeOK, ctlVars, recvVars, rqVars
  <1>16. \A s \in Rails : /\ Len(sq'[s]) = outstanding'[s] /\ outstanding'[s] <= rdma_queue_depth
                          /\ ndone'[s] <= ndeliv'[s] /\ ndeliv'[s] <= Len(sq'[s])
    <2> TAKE s \in Rails
    <2>1. CASE s = r
      BY ONLY <1>2, <1>4, <1>5, <1>7, <1>8, <1>13, <1>14, <2>1
    <2>2. CASE s # r
      BY Zenon, <1>13, <1>14, <2>2 DEF QueueInv
    <2> QED  BY <2>1, <2>2
  <1>17. QueueInv'
    BY <1>16 DEF QueueInv, RecvDistinct, PostDataSend, recv_rail, ctlVars, recvVars, rqVars
  <1> QED  BY <1>15, <1>17

\* Draining, delivery and completion.
LEMMA QueueStepFabric ==
    ASSUME QInv, NEW r \in Rails, DrainOutstanding(r) \/ Deliver(r) \/ Complete(r)
    PROVE  QInv'
  <1> USE DEF QInv
  <1>1. /\ sq \in [Rails -> Seq(Slots)] /\ outstanding \in [Rails -> Nat]
        /\ ndeliv \in [Rails -> Nat] /\ ndone \in [Rails -> Nat] /\ nrecv \in [Rails -> Nat]
        /\ sring \in [Rails -> [Slots -> Msg]] /\ rring \in [Rails -> [Slots -> Msg]]
        /\ rq \in [Rails -> Seq(Slots)]
    BY DEF TypeOK
  <1>2. \A s \in Rails :
           /\ Len(sq[s]) = outstanding[s] /\ outstanding[s] <= rdma_queue_depth
           /\ ndone[s] <= ndeliv[s] /\ ndeliv[s] <= Len(sq[s]) /\ nrecv[s] <= Len(rq[s])
    BY DEF QueueInv
  <1>3. CASE DrainOutstanding(r)
    <2>1. Tail(sq[r]) \in Seq(Slots) /\ Len(Tail(sq[r])) = Len(sq[r]) - 1
      BY <1>1, <1>2, <1>3 DEF DrainOutstanding
    <2>2. TypeOK'
      <3>1. /\ sq' \in [Rails -> Seq(Slots)] /\ outstanding' \in [Rails -> Nat]
            /\ ndeliv' \in [Rails -> Nat] /\ ndone' \in [Rails -> Nat]
        BY ONLY <1>1, <1>2, <1>3, <2>1 DEF DrainOutstanding
      <3> QED  BY ONLY Zenon, TypeOK, <1>3, <3>1 DEF DrainOutstanding, TypeOK, ctlVars, recvVars, rqVars
    <2>3. \A s \in Rails : /\ Len(sq'[s]) = outstanding'[s] /\ outstanding'[s] <= rdma_queue_depth
                           /\ ndone'[s] <= ndeliv'[s] /\ ndeliv'[s] <= Len(sq'[s])
      BY ONLY SMTT(20), <1>1, <1>2, <1>3, <2>1, ConstantsAssumption DEF DrainOutstanding
    <2>4. QueueInv'
      BY SMTT(20), <1>3, <2>3 DEF QueueInv, RecvDistinct, DrainOutstanding, recv_rail, ctlVars, recvVars, rqVars
    <2> QED  BY <2>2, <2>4
  <1>4. CASE Deliver(r)
    <2>1. sq[r][ndeliv[r] + 1] \in Slots /\ rq[r][nrecv[r] + 1] \in Slots
      <3>1. ndeliv[r] < Len(sq[r]) /\ nrecv[r] < Len(rq[r])  BY ONLY <1>4 DEF Deliver
      <3> QED  BY ONLY SMTT(20), r \in Rails, <1>1, <3>1
    <2>2. rring' \in [Rails -> [Slots -> Msg]]
      BY ONLY SMTT(20), r \in Rails, <1>1, <1>4, <2>1 DEF Deliver
    <2>3. TypeOK'
      <3>1. ndeliv' \in [Rails -> Nat] /\ nrecv' \in [Rails -> Nat]
        BY <1>1, <1>4 DEF Deliver
      <3> QED  BY ONLY Zenon, TypeOK, <1>4, <2>2, <3>1 DEF Deliver, TypeOK, senderVars, ctlVars, recvVars
    <2>4. \A s \in Rails : ndone[s] <= ndeliv'[s] /\ ndeliv'[s] <= Len(sq[s]) /\ nrecv'[s] <= Len(rq[s])
      BY ONLY SMTT(20), <1>1, <1>2, <1>4 DEF Deliver
    <2>5. QueueInv'
      BY <1>4, <2>4 DEF QueueInv, RecvDistinct, Deliver, recv_rail, senderVars, ctlVars, recvVars
    <2> QED  BY ONLY <2>3, <2>5
  <1>5. CASE Complete(r)
    <2>1. TypeOK'
      BY SMTT(20), <1>1, <1>5 DEF Complete, TypeOK, senderVars, ctlVars, recvVars, rqVars
    <2>2. \A s \in Rails : ndone'[s] <= ndeliv[s]
      BY <1>1, <1>2, <1>5 DEF Complete
    <2>3. QueueInv'
      BY <1>5, <2>2 DEF QueueInv, RecvDistinct, Complete, recv_rail, senderVars, ctlVars, recvVars, rqVars
    <2> QED  BY <2>1, <2>3
  <1> QED  BY <1>3, <1>4, <1>5

\* The receive queue: a slot goes back when its message is exhausted, and comes
\* off the queue when its message is polled.
LEMMA QueueStepReceive ==
    ASSUME QInv, ReceiverStep, ~ReadInt
    PROVE  QInv'
  <1> DEFINE r == recv_rail
  <1> USE DEF QInv
  <1>1. /\ r \in Rails /\ rq \in [Rails -> Seq(Slots)] /\ nrecv \in [Rails -> Nat]
        /\ current_recv_slot \in [Rails -> Slots \cup {-1}]
        /\ current_recv_length \in [Rails -> Nat] /\ current_recv_offset \in [Rails -> Nat]
        /\ rring \in [Rails -> [Slots -> Msg]]
    BY Zenon, RailTypes DEF TypeOK
  <1>2. \A s \in Rails :
          /\ nrecv[s] <= Len(rq[s])
          /\ current_recv_slot[s] >= 0 => s = r
          /\ \A i, j \in 1 .. Len(rq[s]) : rq[s][i] = rq[s][j] => i = j
          /\ \A i \in 1 .. Len(rq[s]) : rq[s][i] # current_recv_slot[s]
    BY DEF QueueInv, RecvDistinct
  <1>3. CASE ReleaseExhaustedReceive
    <2>1. residue \in Nat /\ piece_size \in 0 .. residue
      BY <1>3, ConstantsAssumption DEF TypeOK, piece_size, Smaller, ReleaseExhaustedReceive
    <2>2. CASE exhausted(r)
      <3> DEFINE q == Append(rq[r], current_recv_slot[r])
      <3>1. /\ rq' = [rq EXCEPT ![r] = q] /\ recv_seq' = recv_seq + 1 /\ rpc' = "begin"
            /\ current_recv_slot' = [current_recv_slot EXCEPT ![r] = -1]
        BY <1>3, <2>2 DEF ReleaseExhaustedReceive, released_slot
      <3>2. current_recv_slot[r] \in Slots /\ current_recv_slot[r] >= 0
        BY <1>1, <2>2 DEF exhausted, Slots
      <3>3. q \in Seq(Slots) /\ Len(q) = Len(rq[r]) + 1 /\ Len(rq[r]) \in Nat
            /\ (\A i \in 1 .. Len(rq[r]) : q[i] = rq[r][i]) /\ q[Len(rq[r]) + 1] = current_recv_slot[r]
        BY <1>1, <3>2, SeqFacts
      <3> HIDE DEF q
      <3>4. rq' \in [Rails -> Seq(Slots)] /\ current_recv_slot' \in [Rails -> Slots \cup {-1}]
            /\ recv_seq' \in Nat
        BY <1>1, <3>1, <3>3 DEF TypeOK
      <3>5. TypeOK'
        BY <1>3, <2>1, <3>4 DEF TypeOK, ReleaseExhaustedReceive, senderVars, qpVars, ctlVars
      <3>6. \A s \in Rails : current_recv_slot'[s] = -1
        BY <1>1, <1>2, <3>1 DEF Slots
      <3>7. RecvDistinct'
        <4> SUFFICES ASSUME NEW s \in Rails
                     PROVE  /\ \A i, j \in 1 .. Len(rq'[s]) : rq'[s][i] = rq'[s][j] => i = j
                            /\ \A i \in 1 .. Len(rq'[s]) : rq'[s][i] # current_recv_slot'[s]
          BY DEF RecvDistinct
        <4>1. CASE s = r
          <5>1. rq'[s] = q /\ current_recv_slot'[s] = -1  BY <1>1, <3>1, <4>1
          <5>2. \A i \in 1 .. Len(q) : q[i] \in Slots  BY <3>3
          <5>3. \A i, j \in 1 .. Len(q) : q[i] = q[j] => i = j
            <6> TAKE i, j \in 1 .. Len(q)
            <6>1. \A k \in 1 .. Len(q) : k \in 1 .. Len(rq[r]) \/ k = Len(rq[r]) + 1  BY <3>3
            <6>2. \A k \in 1 .. Len(rq[r]) : q[k] # current_recv_slot[r]
              BY ONLY Zenon, <1>1, <1>2, <3>3
            <6>3. CASE i \in 1 .. Len(rq[r]) /\ j \in 1 .. Len(rq[r])
              BY ONLY <1>1, <1>2, <3>3, <6>3
            <6>4. CASE i = Len(rq[r]) + 1 /\ j = Len(rq[r]) + 1
              BY ONLY <6>4
            <6>5. CASE i \in 1 .. Len(rq[r]) /\ j = Len(rq[r]) + 1
              BY ONLY <3>3, <6>2, <6>5
            <6>6. CASE i = Len(rq[r]) + 1 /\ j \in 1 .. Len(rq[r])
              BY ONLY <3>3, <6>2, <6>6
            <6> QED  BY ONLY <6>1, <6>3, <6>4, <6>5, <6>6
          <5> QED  BY <5>1, <5>2, <5>3 DEF Slots
        <4>2. CASE s # r
          <5>1. rq'[s] = rq[s] /\ current_recv_slot'[s] = current_recv_slot[s]
            BY <1>1, <3>1, <4>2
          <5> QED  BY <1>2, <5>1
        <4> QED  BY <4>1, <4>2
      <3>8. \A s \in Rails : nrecv[s] <= Len(rq'[s])
        BY <1>1, <1>2, <3>1, <3>3
      <3>9. QueueInv'
        BY <1>3, <3>1, <3>6, <3>7, <3>8 DEF QueueInv, ReleaseExhaustedReceive, senderVars, qpVars, ctlVars
      <3> QED  BY <3>5, <3>9
    <2>3. CASE ~exhausted(r)
      <3>1. UNCHANGED <<rq, current_recv_slot, recv_seq>> /\ rpc' = "begin"
        BY <1>3, <2>3 DEF ReleaseExhaustedReceive
      <3>2. TypeOK'
        BY <1>3, <2>1, <3>1 DEF TypeOK, ReleaseExhaustedReceive, senderVars, qpVars, ctlVars
      <3>3. QueueInv'
        BY <1>3, <3>1 DEF QueueInv, RecvDistinct, recv_rail, ReleaseExhaustedReceive,
                          senderVars, qpVars, ctlVars
      <3> QED  BY <3>2, <3>3
    <2> QED  BY <2>2, <2>3
  <1>4. CASE BeginReceiveMessage
    <2> DEFINE d == Head(rq[r])  header == rring[r][d]
               ok == header.seq = recv_seq /\ header.len <= rdma_chunk_size
    <2>1. /\ current_recv_slot[r] < 0 /\ nrecv[r] > 0 /\ rq' = [rq EXCEPT ![r] = Tail(rq[r])]
          /\ nrecv' = [nrecv EXCEPT ![r] = nrecv[r] - 1] /\ UNCHANGED <<recv_seq, rring>>
      BY <1>4 DEF BeginReceiveMessage
    <2>2. /\ d \in Slots /\ d = rq[r][1] /\ Tail(rq[r]) \in Seq(Slots) /\ Len(rq[r]) \in Nat
          /\ Len(Tail(rq[r])) = Len(rq[r]) - 1 /\ Len(rq[r]) > 0
          /\ \A i \in 1 .. Len(rq[r]) - 1 : Tail(rq[r])[i] = rq[r][i + 1]
      BY <1>1, <1>2, <2>1, SeqFacts
    <2>3. header \in Msg  BY <1>1, <2>2
    <2>4. /\ rpc' = IF ok THEN rpc ELSE "badheader"
          /\ current_recv_slot' = IF ok THEN [current_recv_slot EXCEPT ![r] = d] ELSE current_recv_slot
          /\ current_recv_length' = IF ok THEN [current_recv_length EXCEPT ![r] = header.len]
                                    ELSE current_recv_length
          /\ current_recv_offset' = IF ok THEN [current_recv_offset EXCEPT ![r] = 0]
                                    ELSE current_recv_offset
          /\ UNCHANGED <<senderVars, qpVars, ctlVars, rpos, residue, recv_seq, rlen, got, rring>>
          /\ rpc = "begin"
      BY <1>4 DEF BeginReceiveMessage
    <2> HIDE DEF d, header, ok
    <2>5. /\ rq' \in [Rails -> Seq(Slots)] /\ nrecv' \in [Rails -> Nat]
          /\ \A s \in Rails : rq'[s] = IF s = r THEN Tail(rq[r]) ELSE rq[s]
          /\ \A s \in Rails : nrecv'[s] = IF s = r THEN nrecv[r] - 1 ELSE nrecv[s]
      BY <1>1, <2>1, <2>2
    <2>6. /\ current_recv_slot' \in [Rails -> Slots \cup {-1}]
          /\ current_recv_length' \in [Rails -> Nat] /\ current_recv_offset' \in [Rails -> Nat]
          /\ \A s \in Rails : current_recv_slot'[s] = IF s = r /\ ok THEN d ELSE current_recv_slot[s]
      <3>1. CASE ok  BY ONLY <1>1, <2>2, <2>3, <2>4, <3>1 DEF Msg
      <3>2. CASE ~ok  BY <1>1, <2>4, <3>2
      <3> QED  BY <3>1, <3>2
    <2>7. TypeOK'
      BY ONLY Zenon, TypeOK, <2>4, <2>5, <2>6 DEF TypeOK, senderVars, qpVars, ctlVars
    <2>8. RecvDistinct'
      <3> SUFFICES ASSUME NEW s \in Rails
                   PROVE  /\ \A i, j \in 1 .. Len(rq'[s]) : rq'[s][i] = rq'[s][j] => i = j
                          /\ \A i \in 1 .. Len(rq'[s]) : rq'[s][i] # current_recv_slot'[s]
        BY DEF RecvDistinct
      <3>1. CASE s # r  BY ONLY Zenon, <1>2, <2>5, <2>6, <3>1
      <3>2. CASE s = r
        <4> DEFINE q == rq[r]  t == Tail(rq[r])  n == Len(rq[r])
        <4>1. rq'[s] = t /\ n \in Nat /\ Len(t) = n - 1 /\ \A i \in 1 .. n - 1 : t[i] = q[i + 1]
          BY <2>2, <2>5, <3>2
        <4>2. current_recv_slot'[s] \in {q[1], current_recv_slot[r]}
          BY <2>2, <2>6, <3>2
        <4>3. /\ \A i, j \in 1 .. n : q[i] = q[j] => i = j
              /\ \A i \in 1 .. n : q[i] # current_recv_slot[r]
          BY <1>1, <1>2
        <4> HIDE DEF q, t, n
        <4>4. \A i \in 1 .. n - 1 : i + 1 \in 1 .. n /\ 1 \in 1 .. n /\ i + 1 # 1
          BY <4>1
        <4> QED  BY <4>1, <4>2, <4>3, <4>4
      <3> QED  BY <3>1, <3>2
    <2>9. \A s \in Rails : nrecv'[s] <= Len(rq'[s]) /\ (current_recv_slot'[s] >= 0 => s = recv_rail)
      BY ONLY SMTT(20), <1>1, <1>2, <2>2, <2>5, <2>6
    <2>10. QueueInv'
      BY <2>4, <2>8, <2>9 DEF QueueInv, recv_rail, senderVars, qpVars, ctlVars
    <2> QED  BY <2>7, <2>10
  <1>5. CASE RecvDataPtr
    <2>1. /\ current_recv_offset' \in [Rails -> Nat] /\ rpc' \in {"protocol", "use"}
          /\ rpc' = "use" => current_recv_slot[r] >= 0 /\ rlen <= current_recv_offset'[r]
      <3>1. rlen \in Nat /\ current_recv_offset[r] \in Nat  BY <1>1 DEF TypeOK
      <3> QED  BY <1>1, <1>5, <3>1 DEF RecvDataPtr
    <2>2. UNCHANGED <<senderVars, qpVars, ctlVars, rpos, residue, recv_seq, current_recv_slot,
                      current_recv_length, rlen, got, rqVars>>
      BY <1>5 DEF RecvDataPtr
    <2>3. TypeOK'
      BY <2>1, <2>2 DEF TypeOK, senderVars, qpVars, ctlVars, rqVars
    <2>4. QueueInv'
      BY <2>1, <2>2 DEF QueueInv, RecvDistinct, recv_rail, senderVars, qpVars, ctlVars, rqVars
    <2> QED  BY <2>3, <2>4
  <1>6. CASE UseData
    <2>1. /\ current_recv_slot[r] \in Slots /\ current_recv_offset[r] \in Nat /\ rlen \in Nat
          /\ rlen <= current_recv_offset[r]
      BY <1>1, <1>6 DEF UseData, TypeOK, QueueInv
    <2>2. rring[r][current_recv_slot[r]] \in Msg  BY ONLY SMTT(20), <1>1, <2>1
    <2>3. got' \in [start : Nat, len : Nat] /\ rpc' = "token"
      <3>1. /\ got' = [start |-> rring[r][current_recv_slot[r]].start + current_recv_offset[r] - rlen,
                       len |-> rlen]
            /\ rpc' = "token"
        BY ONLY <1>6 DEF UseData
      <3>2. rring[r][current_recv_slot[r]].start \in Nat  BY ONLY <2>2 DEF Msg
      <3> QED  BY ONLY SMTT(20), <2>1, <3>1, <3>2
    <2>4. UNCHANGED <<senderVars, qpVars, ctlVars, rpos, residue, recv_seq, current_recv_slot,
                      current_recv_length, current_recv_offset, rlen, rqVars>>
      BY <1>6 DEF UseData
    <2>5. TypeOK'
      BY <2>3, <2>4 DEF TypeOK, senderVars, qpVars, ctlVars, rqVars
    <2>6. QueueInv'
      BY <2>3, <2>4 DEF QueueInv, RecvDistinct, recv_rail, senderVars, qpVars, ctlVars, rqVars
    <2> QED  BY <2>5, <2>6
  <1> QED  BY <1>3, <1>4, <1>5, <1>6 DEF ReceiverStep

LEMMA QueueStep == QInv /\ [Next]_vars => QInv'
  BY QueueStepControl, QueueStepPost, QueueStepFabric, QueueStepReceive
     DEF Next, SenderStep, ReceiverStep

\* Every variable of the transport and the token coder keeps its type; in
\* particular no counter becomes negative and no ring index leaves its ring.
THEOREM TypeCorrect == Spec => []TypeOK
  <1>1. QInv => TypeOK  BY DEF QInv
  <1> QED  BY <1>1, QueueInit, QueueStep, PTL DEF Spec

=============================================================================
