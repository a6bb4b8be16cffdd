------------------------ MODULE RdmaBulkSlots_proofs ------------------------
(***************************************************************************)
(* Proofs about RdmaBulk: the slots of the send rings, and the integers on *)
(* the SSH stream.                                                         *)
(***************************************************************************)
EXTENDS RdmaBulkQueue_proofs

\* What a post does to its rail: k completed requests (none, or the oldest one
\* of a full ring) leave the queue and the next slot is appended to it.
LEMMA PostFacts ==
    ASSUME QInv, PostDataSend
    PROVE  \E k \in {0, 1} :
             LET r == send_rail
                 slot == next_slot[r] % rdma_queue_depth
                 n == Len(sq[r])
             IN  /\ r \in Rails /\ slot \in Slots /\ n \in Nat
                 /\ k <= ndeliv[r] /\ n - k \in 0 .. rdma_queue_depth - 1
                 /\ Len(sq'[r]) = n - k + 1 /\ sq'[r][n - k + 1] = slot
                 /\ \A i \in 1 .. n - k : sq'[r][i] = sq[r][i + k]
                 /\ ndeliv'[r] = ndeliv[r] - k
                 /\ next_slot'[r] = advance_slot(next_slot[r])
                 /\ \A s \in Rails \ {r} : /\ sq'[s] = sq[s] /\ ndeliv'[s] = ndeliv[s]
                                          /\ next_slot'[s] = next_slot[s]
                 /\ sring' = [sring EXCEPT ![r] = [sring[r] EXCEPT ![slot] =
                                [seq |-> send_seq, len |-> samount, start |-> sbytes]]]
  <1> DEFINE r == send_rail
             full == ring_full(r)
             slot == next_slot[r] % rdma_queue_depth
             n == Len(sq[r])
             k == IF full THEN 1 ELSE 0
             rest == IF full THEN Tail(sq[r]) ELSE sq[r]
  <1> USE DEF QInv
  <1>1. r \in Rails /\ slot \in Slots
    <2>1. next_slot[r] \in Nat /\ rdma_queue_depth \in Nat \ {0}
      BY ConstantsAssumption, RailTypes DEF TypeOK
    <2> QED  BY Zenon, <2>1, RailTypes, ModRange DEF Slots
  <1>2. /\ sq[r] \in Seq(Slots) /\ n \in Nat /\ ndeliv[r] \in Nat /\ ndone[r] \in Nat
        /\ n = outstanding[r] /\ n <= rdma_queue_depth
        /\ ndone[r] <= ndeliv[r] /\ ndeliv[r] <= n
    BY <1>1 DEF TypeOK, QueueInv
  <1>3. full => ndone[r] > 0 /\ n = rdma_queue_depth /\ n > 0
    BY <1>2, ConstantsAssumption DEF PostDataSend, ring_full
  <1>4. ~full => n < rdma_queue_depth
    BY <1>2, ConstantsAssumption DEF ring_full
  <1>5. rest \in Seq(Slots) /\ Len(rest) = n - k /\ \A i \in 1 .. n - k : rest[i] = sq[r][i + k]
    BY <1>1, <1>2, <1>3, SeqFacts
  <1>6. /\ sq' = [sq EXCEPT ![r] = Append(rest, slot)]
        /\ next_slot' = [next_slot EXCEPT ![r] = advance_slot(next_slot[r])]
        /\ ndeliv' = IF full THEN [ndeliv EXCEPT ![r] = ndeliv[r] - 1] ELSE ndeliv
        /\ sring' = [sring EXCEPT ![r] = [sring[r] EXCEPT ![slot] =
                       [seq |-> send_seq, len |-> samount, start |-> sbytes]]]
    BY DEF PostDataSend
  <1>7. next_slot \in [Rails -> 0 .. UintRange - 1] /\ sq \in [Rails -> Seq(Slots)] /\ ndeliv \in [Rails -> Nat]
    BY DEF TypeOK
  <1>8. k \in {0, 1} /\ k <= ndeliv[r] /\ n - k \in 0 .. rdma_queue_depth - 1
    BY ONLY <1>2, <1>3, <1>4, ConstantsAssumption
  <1>9. ndeliv'[r] = ndeliv[r] - k /\ \A s \in Rails \ {r} : ndeliv'[s] = ndeliv[s]
    BY <1>1, <1>2, <1>6, <1>7
  <1> HIDE DEF r, full, slot, n, k, rest
  <1>10. /\ Len(Append(rest, slot)) = n - k + 1 /\ Append(rest, slot)[n - k + 1] = slot
         /\ \A i \in 1 .. n - k : Append(rest, slot)[i] = sq[r][i + k]
    BY <1>1, <1>5, SeqFacts
  <1>11. sq'[r] = Append(rest, slot) /\ next_slot'[r] = advance_slot(next_slot[r])
         /\ \A s \in Rails \ {r} : sq'[s] = sq[s] /\ next_slot'[s] = next_slot[s]
    BY <1>1, <1>6, <1>7
  <1>12. /\ r \in Rails /\ slot \in Slots /\ n \in Nat
         /\ k <= ndeliv[r] /\ n - k \in 0 .. rdma_queue_depth - 1
         /\ Len(sq'[r]) = n - k + 1 /\ sq'[r][n - k + 1] = slot
         /\ \A i \in 1 .. n - k : sq'[r][i] = sq[r][i + k]
         /\ ndeliv'[r] = ndeliv[r] - k
         /\ next_slot'[r] = advance_slot(next_slot[r])
         /\ \A s \in Rails \ {r} : /\ sq'[s] = sq[s] /\ ndeliv'[s] = ndeliv[s]
                                  /\ next_slot'[s] = next_slot[s]
         /\ sring' = [sring EXCEPT ![r] = [sring[r] EXCEPT ![slot] =
                        [seq |-> send_seq, len |-> samount, start |-> sbytes]]]
    BY ONLY SMTT(20), <1>1, <1>2, <1>6, <1>8, <1>9, <1>10, <1>11
  <1> QED  BY <1>8, <1>12, Zenon DEF r, slot, n

\* Only posts and drains change which slots are in use.
LEMMA SlotsUntouched ==
    ASSUME [Next]_vars, ~PostDataSend, \A r \in Rails : ~DrainOutstanding(r)
    PROVE  UNCHANGED <<sq, next_slot, sring>>
  BY DEF Next, SenderStep, ReceiverStep, SendTokenCall, WriteLiteralLength, CountControl, WriteToken,
         FlushDone, Finish, ReadFinalGoodbye, LeaveRail, CleanupDone, WriteOut, Deliver, Complete,
         ReadInt, ReleaseExhaustedReceive, BeginReceiveMessage, RecvDataPtr, UseData, SenderFails, ReceiverFails, vars, senderVars, qpVars

\* Stepping the ring forward and looking one further back is standing still.
LEMMA BackStep ==
    ASSUME NEW a \in Slots, NEW k \in 0 .. rdma_queue_depth - 1
    PROVE  Back(IF a = rdma_queue_depth - 1 THEN 0 ELSE a + 1, k + 1) = Back(a, k)
  BY ConstantsAssumption DEF Back, Slots

\* Different distances are different slots.
LEMMA BackInjective ==
    ASSUME NEW a \in Slots, NEW k \in 0 .. rdma_queue_depth, NEW l \in 0 .. rdma_queue_depth,
           Back(a, k) = Back(a, l), k >= 1, l >= 1 \/ k < rdma_queue_depth
    PROVE  k = l
  BY SMTT(20), ConstantsAssumption DEF Back, Slots

LEMMA SlotStepInv ==
    ASSUME UintRange % rdma_queue_depth = 0, QInv, SlotInv, [Next]_vars
    PROVE  SlotInv'
  <1> SUFFICES ASSUME NEW s \in Rails, NEW i \in 1 .. Len(sq'[s])
               PROVE  sq'[s][i] = Back(next_slot'[s] % rdma_queue_depth, Len(sq'[s]) + 1 - i)
    BY DEF SlotInv
  <1> DEFINE D == rdma_queue_depth
  <1>0. D \in Nat \ {0}  BY ConstantsAssumption
  <1>1. CASE PostDataSend
    <2> DEFINE r == send_rail  n == Len(sq[r])  a == next_slot[r] % D
    <2>1. PICK k \in {0, 1} :
             /\ r \in Rails /\ a \in Slots /\ n \in Nat /\ n - k \in 0 .. D - 1
             /\ Len(sq'[r]) = n - k + 1 /\ sq'[r][n - k + 1] = a
             /\ \A j \in 1 .. n - k : sq'[r][j] = sq[r][j + k]
             /\ next_slot'[r] = advance_slot(next_slot[r])
             /\ \A t \in Rails \ {r} : sq'[t] = sq[t] /\ next_slot'[t] = next_slot[t]
      BY <1>1, PostFacts
    <2>2. CASE s # r  BY <2>1, <2>2 DEF SlotInv
    <2>3. CASE s = r
      <3>0. Len(sq'[s]) = n - k + 1 /\ i \in 1 .. n - k + 1 /\ k \in {0, 1} /\ n - k \in 0 .. D - 1
        BY ONLY <2>1, <2>3
      <3>1. next_slot[r] \in 0 .. UintRange - 1  BY <2>1 DEF QInv, TypeOK
      <3>2. next_slot'[r] % D = IF a = D - 1 THEN 0 ELSE a + 1
        BY <2>1, <3>1, SlotStep
      <3>3. CASE i = n - k + 1
        <4>1. Len(sq'[s]) + 1 - i = 0 + 1 /\ 0 \in 0 .. D - 1
          <5> HIDE DEF n, D
          <5> QED  BY <1>0, <2>1, <3>0, <3>3
        <4>2. Back(a, 0) = a  BY <2>1 DEF Back, Slots
        <4>3. Back(next_slot'[r] % D, 0 + 1) = Back(a, 0)  BY <2>1, <3>2, <4>1, BackStep
        <4> QED  BY ONLY Zenon, <2>1, <2>3, <3>3, <4>1, <4>2, <4>3
      <3>4. CASE i # n - k + 1
        <4>1. i \in 1 .. n - k /\ i + k \in 1 .. n /\ n + 1 - (i + k) \in 0 .. D - 1
          <5> HIDE DEF n, D
          <5> QED  BY <1>0, <2>1, <3>0, <3>4
        <4>2. sq'[s][i] = Back(a, n + 1 - (i + k))
          BY <2>1, <2>3, <4>1 DEF SlotInv
        <4>3. Len(sq'[s]) + 1 - i = (n + 1 - (i + k)) + 1
          <5> HIDE DEF n, D
          <5> QED  BY ONLY SMTT(20), <2>1, <3>0, <4>1
        <4>4. Back(next_slot'[r] % D, (n + 1 - (i + k)) + 1) = Back(a, n + 1 - (i + k))
          BY <2>1, <3>2, <4>1, BackStep
        <4> QED  BY <2>3, <4>2, <4>3, <4>4
      <3> QED  BY <3>3, <3>4
    <2> QED  BY <2>2, <2>3
  <1>2. ASSUME NEW r \in Rails, DrainOutstanding(r)
        PROVE  sq'[s][i] = Back(next_slot'[s] % D, Len(sq'[s]) + 1 - i)
    <2>1. /\ sq[r] \in Seq(Slots) /\ Len(sq[r]) \in Nat /\ Len(sq[r]) > 0 /\ sq \in [Rails -> Seq(Slots)]
          /\ sq' = [sq EXCEPT ![r] = Tail(sq[r])] /\ next_slot' = next_slot
      <3>1. TypeOK /\ QueueInv  BY DEF QInv
      <3>2. sq[r] \in Seq(Slots) /\ Len(sq[r]) \in Nat /\ sq \in [Rails -> Seq(Slots)]
        <4>1. sq \in [Rails -> Seq(Slots)]  BY ONLY <3>1 DEF TypeOK
        <4> QED  BY ONLY <1>2, <4>1
      <3>3. /\ outstanding[r] > 0 /\ sq' = [sq EXCEPT ![r] = Tail(sq[r])] /\ next_slot' = next_slot
        BY ONLY <1>2 DEF DrainOutstanding
      <3>4. Len(sq[r]) = outstanding[r]  BY ONLY <1>2, <3>1 DEF QueueInv
      <3> QED  BY ONLY <3>2, <3>3, <3>4
    <2>2. CASE s # r  BY <2>1, <2>2 DEF SlotInv
    <2>3. CASE s = r
      <3>1. Len(sq'[s]) = Len(sq[s]) - 1 /\ sq'[s][i] = sq[s][i + 1]
            /\ i + 1 \in 1 .. Len(sq[s])
        BY <2>1, <2>3
      <3>2. Len(sq[s]) + 1 - (i + 1) = Len(sq'[s]) + 1 - i  BY <2>1, <2>3, <3>1
      <3> QED  BY <2>1, <3>1, <3>2 DEF SlotInv
    <2> QED  BY <2>2, <2>3
  <1>3. CASE ~PostDataSend /\ \A r \in Rails : ~DrainOutstanding(r)
    BY <1>3, SlotsUntouched DEF SlotInv
  <1> QED  BY <1>1, <1>2, <1>3

\* A posted send never shares its slot with another one: the comment in
\* post_data_send is right whenever the queue depth divides the range of
\* next_slot (every power of two does).
THEOREM SlotsNeverShared ==
    ASSUME UintRange % rdma_queue_depth = 0
    PROVE  Spec => []SendSlotsDistinct
  <1>1. Init => SlotInv
    BY DEF Init, SlotInv
  <1>2. QInv /\ SlotInv => SendSlotsDistinct
    <2> SUFFICES ASSUME QInv, SlotInv, NEW r \in Rails, NEW i \in 1 .. Len(sq[r]),
                        NEW j \in 1 .. Len(sq[r]), sq[r][i] = sq[r][j]
                 PROVE  i = j
      BY DEF SendSlotsDistinct, QInv, QueueInv
    <2> DEFINE a == next_slot[r] % rdma_queue_depth
    <2>1. next_slot[r] \in Nat /\ rdma_queue_depth \in Nat \ {0}
      BY ConstantsAssumption DEF QInv, TypeOK
    <2>2. a \in Slots  BY ONLY Zenon, <2>1, ModRange DEF Slots
    <2>3. Len(sq[r]) \in Nat /\ Len(sq[r]) <= rdma_queue_depth  BY DEF QInv, TypeOK, QueueInv
    <2>4. Back(a, Len(sq[r]) + 1 - i) = Back(a, Len(sq[r]) + 1 - j)  BY DEF SlotInv
    <2> HIDE DEF a
    <2>5. Len(sq[r]) + 1 - i \in 1 .. rdma_queue_depth /\ Len(sq[r]) + 1 - j \in 1 .. rdma_queue_depth
      BY <2>1, <2>3
    <2>6. Len(sq[r]) + 1 - i = Len(sq[r]) + 1 - j
      BY ONLY <2>1, <2>2, <2>4, <2>5, BackInjective
    <2> QED  BY <2>3, <2>6
  <1>3. QInv /\ SlotInv /\ [Next]_vars => SlotInv'
    BY SlotStepInv
  <1> QED  BY <1>1, <1>2, <1>3, QueueInit, QueueStep, PTL DEF Spec

-----------------------------------------------------------------------------
\* An integer appended to the SSH stream carries the number and the position of
\* the next literal.
LEMMA CtlAppend ==
    ASSUME TypeOK, CtlInv, spc \notin {"post", "xcleanup", "exit"}, NEW v \in Int, v <= rdma_chunk_size,
           ctl' = Append(ctl, write_int(v)), UNCHANGED <<send_seq, sbytes>>,
           spc' \notin {"xcleanup", "exit"}, spc' = "post" <=> v > 0, v > 0 => samount' = v
    PROVE  CtlInv'
  <1> DEFINE x == write_int(v)  n == Len(ctl)
  <1>1. /\ x.val = v /\ x.m = send_seq /\ x.start = sbytes
        /\ x = [val |-> v, m |-> send_seq, start |-> sbytes] /\ x \in CtlInt
    BY DEF write_int, CtlInt, TypeOK
  <1>2. /\ n \in Nat /\ Len(ctl') = n + 1 /\ ctl'[n + 1] = x /\ \A c \in 1 .. n : ctl'[c] = ctl[c]
        /\ \A c \in 1 .. n : ctl[c] \in CtlInt
    BY <1>1 DEF TypeOK
  <1>3. Settled = n /\ Settled' = IF v > 0 THEN n ELSE n + 1
    BY <1>2 DEF Settled
  <1>4. \A c \in 1 .. n : /\ ctl[c].val <= rdma_chunk_size /\ ctl[c].m + Lit(ctl[c]) <= send_seq
                          /\ ctl[c].m \in Nat /\ ctl[c].start \in Nat /\ ctl[c].val \in Int
    BY SMTT(20), <1>2, <1>3 DEF CtlInv, CtlInt
  <1>5. /\ n = 0 => send_seq = 0 /\ sbytes = 0
        /\ n > 0 => send_seq = ctl[n].m + Lit(ctl[n]) /\ sbytes = ctl[n].start + Bytes(ctl[n])
    BY <1>3 DEF CtlInv
  <1>6. send_seq \in Nat /\ sbytes \in Nat /\ (v <= 0 => Lit(x) = 0 /\ Bytes(x) = 0)
    BY <1>1 DEF TypeOK, Lit, Bytes
  <1> HIDE DEF x, n
  <1>7. \A c \in 1 .. Len(ctl') : ctl'[c].val <= rdma_chunk_size
    BY <1>1, <1>2, <1>4
  <1>8. ctl'[1].m = 0 /\ ctl'[1].start = 0
    <2>1. CASE n = 0  BY ONLY <1>1, <1>2, <1>5, <2>1
    <2>2. CASE n > 0  BY <1>2, <2>2 DEF CtlInv, n
    <2> QED  BY <1>2, <2>1, <2>2
  <1>9. ASSUME NEW c \in 1 .. Len(ctl') - 1
        PROVE  /\ ctl'[c + 1].m = ctl'[c].m + Lit(ctl'[c])
               /\ ctl'[c + 1].start = ctl'[c].start + Bytes(ctl'[c])
    <2>1. CASE c = n  BY ONLY <1>1, <1>2, <1>5, <2>1
    <2>2. CASE c # n
      <3>1. c \in 1 .. n - 1 /\ ctl'[c] = ctl[c] /\ ctl'[c + 1] = ctl[c + 1]  BY <1>2, <2>2
      <3> QED  BY <3>1 DEF CtlInv, n
    <2> QED  BY <2>1, <2>2
  <1>10. ASSUME NEW c \in 1 .. Len(ctl'), NEW d \in 1 .. Len(ctl'), c < d
         PROVE  ctl'[c].m + Lit(ctl'[c]) <= ctl'[d].m
    <2>1. CASE d = n + 1  BY ONLY <1>1, <1>2, <1>4, <1>10, <2>1
    <2>2. CASE d # n + 1
      <3>1. c \in 1 .. n /\ d \in 1 .. n  BY <1>2, <1>10, <2>2
      <3> QED  BY <1>2, <1>10, <3>1 DEF CtlInv, n
    <2> QED  BY ONLY <2>1, <2>2
  <1>11. /\ \A c \in 1 .. Settled' : ctl'[c].m + Lit(ctl'[c]) <= send_seq
         /\ Settled' = 0 => send_seq = 0 /\ sbytes = 0
         /\ Settled' > 0 => /\ send_seq = ctl'[Settled'].m + Lit(ctl'[Settled'])
                            /\ sbytes = ctl'[Settled'].start + Bytes(ctl'[Settled'])
    <2>1. CASE v > 0  BY ONLY <1>2, <1>3, <1>4, <1>5, <2>1
    <2>2. CASE v <= 0  BY <1>1, <1>2, <1>3, <1>4, <1>6, <2>2
    <2>3. v > 0 \/ v <= 0  OBVIOUS
    <2> QED  BY ONLY <2>1, <2>2, <2>3
  <1>12. spc' = "post" => Len(ctl') > 0 /\ ctl'[Len(ctl')] = [val |-> samount', m |-> send_seq, start |-> sbytes]
    BY <1>1, <1>2
  <1>13. send_seq' = send_seq /\ sbytes' = sbytes
    OBVIOUS
  <1> QED  BY ONLY <1>7, <1>8, <1>9, <1>10, <1>11, <1>12, <1>13 DEF CtlInv

LEMMA CtlStep ==
    ASSUME QInv, CtlInv, [Next]_vars
    PROVE  CtlInv'
  <1> USE DEF QInv
  <1>1. ASSUME UNCHANGED <<ctl, send_seq, sbytes>>,
               \/ UNCHANGED <<spc, samount>>
               \/ spc' \in {"xcleanup", "exit"}
               \/ spc \notin {"post", "xcleanup", "exit"} /\ spc' # "post"
        PROVE  CtlInv'
    <2>1. Len(ctl) \in Nat  BY DEF TypeOK
    <2> QED  BY <1>1, <2>1 DEF CtlInv, Settled
  <1>2. CASE WriteLiteralLength
    <2> DEFINE v == Smaller(rdma_chunk_size, sleft)
    <2>1. v \in Int /\ v <= rdma_chunk_size /\ v > 0
      BY <1>2, ConstantsAssumption DEF Smaller, TypeOK, WriteLiteralLength, QueueInv
    <2>2. /\ spc = "loop" /\ spc' = "post" /\ samount' = v /\ ctl' = Append(ctl, write_int(v))
          /\ UNCHANGED <<send_seq, sbytes>>
      BY <1>2 DEF WriteLiteralLength
    <2> QED  BY <2>1, <2>2, CtlAppend
  <1>3. CASE WriteToken
    <2>1. CASE stoken = -2
      BY <1>1, <1>3, <2>1 DEF WriteToken
    <2>2. CASE stoken # -2
      <3> DEFINE v == -(stoken + 1)
      <3>1. v \in Int /\ v <= 0 /\ v <= rdma_chunk_size
        BY <2>2, ConstantsAssumption DEF TypeOK
      <3>2. /\ spc = "token" /\ spc' \notin {"post", "xcleanup", "exit"} /\ ctl' = Append(ctl, write_int(v))
            /\ UNCHANGED <<send_seq, sbytes>>
        BY <1>3, <2>2 DEF WriteToken
      <3> HIDE DEF v
      <3>3. spc \notin {"post", "xcleanup", "exit"} /\ spc' \notin {"xcleanup", "exit"} /\ (spc' = "post" <=> v > 0)
            /\ (v > 0 => samount' = v)
        BY ONLY <3>1, <3>2
      <3> QED  BY <3>1, <3>2, <3>3, CtlAppend
    <2> QED  BY <2>1, <2>2
  <1>4. CASE PostDataSend
    <2> DEFINE n == Len(ctl)
    <2>1. /\ spc = "post" /\ spc' = "count" /\ send_seq' = send_seq + 1 /\ sbytes' = sbytes + samount
          /\ UNCHANGED ctl
      BY <1>4 DEF PostDataSend, ctlVars
    <2>2. samount \in Nat /\ samount > 0 /\ n \in Nat /\ send_seq \in Nat /\ sbytes \in Nat
      BY <2>1 DEF TypeOK, QueueInv
    <2>3. /\ n > 0 /\ ctl[n].val = samount /\ ctl[n].m = send_seq /\ ctl[n].start = sbytes
      BY <2>1 DEF CtlInv
    <2>4. Settled' = n /\ Lit(ctl[n]) = 1 /\ Bytes(ctl[n]) = samount
      BY <2>1, <2>2, <2>3 DEF Settled, Lit, Bytes
    <2>5. \A c \in 1 .. n : ctl[c] \in CtlInt  BY DEF TypeOK
    <2>6. \A c \in 1 .. n : ctl[c].m + Lit(ctl[c]) <= send_seq'
      <3> TAKE c \in 1 .. n
      <3>1. CASE c = n  BY <2>1, <2>2, <2>3, <2>4, <3>1
      <3>2. CASE c # n
        <4>1. c < n /\ n \in 1 .. Len(ctl)  BY ONLY <2>2, <3>2
        <4>2. ctl[c].m + Lit(ctl[c]) <= ctl[n].m  BY <4>1 DEF CtlInv
        <4>3. ctl[c].m + Lit(ctl[c]) \in Nat  BY ONLY SMTT(20), <2>5 DEF CtlInt, Lit
        <4> QED  BY <2>1, <2>2, <2>3, <4>2, <4>3
      <3> QED  BY <3>1, <3>2
    <2> QED  BY <2>1, <2>2, <2>3, <2>4, <2>6 DEF CtlInv
  <1>5. CASE ~WriteLiteralLength /\ ~WriteToken /\ ~PostDataSend
    BY <1>1, <1>5
       DEF Next, SenderStep, ReceiverStep, SendTokenCall, CountControl, FlushDone, Finish,
           ReadFinalGoodbye, LeaveRail, CleanupDone, DrainOutstanding, WriteOut, Deliver, Complete, ReadInt, ReleaseExhaustedReceive,
           BeginReceiveMessage, RecvDataPtr, UseData, SenderFails, ReceiverFails, vars, senderVars,
           ctlVars
  <1> QED  BY ONLY <1>2, <1>3, <1>4, <1>5

=============================================================================
