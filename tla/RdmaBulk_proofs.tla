--------------------------- MODULE RdmaBulk_proofs ---------------------------
(***************************************************************************)
(* Proofs about RdmaBulk: what the receiver reads, receive credit, and the *)
(* theorems that rest on the whole inductive invariant.                    *)
(***************************************************************************)
EXTENDS RdmaBulkMsg_proofs

\* Reposting a slot and going on to the next message leaves, for every rail, the
\* next message to poll there as it was.
LEMMA MsgRelease ==
    ASSUME IInv, ReleaseExhaustedReceive
    PROVE  MsgInv'
  <1>0. TypeOK /\ QueueInv /\ MsgInv  BY DEF IInv
  <1> SUFFICES ASSUME NEW r \in Rails, r = recv_rail PROVE MsgInv'
    BY <1>0, RailTypes
  <1>1. UNCHANGED <<ctl, send_seq, sring, sq, ndeliv, rring, nrecv>>
    BY ONLY ReleaseExhaustedReceive DEF ReleaseExhaustedReceive, senderVars, qpVars, ctlVars
  <1>2. CASE ~exhausted(r)
    <2>1. UNCHANGED <<rq, current_recv_slot, recv_seq>>  BY <1>2 DEF ReleaseExhaustedReceive
    <2> QED
      BY ONLY SMTT(20), <1>0, <1>1, <2>1 DEF MsgInv, RailInv, Matches, NextPolled, NextSent, send_rail, recv_rail
  <1>3. CASE exhausted(r)
    <2> DEFINE c == current_recv_slot[r]
    <2>1. /\ rq \in [Rails -> Seq(Slots)] /\ nrecv \in [Rails -> Nat] /\ recv_seq \in Nat
          /\ current_recv_slot \in [Rails -> Slots \cup {-1}] /\ c >= 0
      BY <1>0, <1>3 DEF TypeOK, exhausted
    <2>2. /\ rq' = [rq EXCEPT ![r] = Append(rq[r], c)] /\ recv_seq' = recv_seq + 1
          /\ current_recv_slot' = [current_recv_slot EXCEPT ![r] = -1]
      BY <1>3 DEF ReleaseExhaustedReceive, released_slot
    <2>3. \A x : Matches(x) => Matches(x)'  BY ONLY <1>1 DEF Matches
    <2>4. \A s \in Rails : NextSent(s)' = NextSent(s)  BY <1>1 DEF NextSent, send_rail
    <2>5. \A s \in Rails : NextPolled(s)' = NextPolled(s)
      <3> TAKE s \in Rails
      <3>1. ~(current_recv_slot'[s] >= 0) /\ (current_recv_slot[s] >= 0 <=> s = r)
        <4>1. CASE s = r  BY <2>1, <2>2, <4>1
        <4>2. CASE s # r
          <5>1. ~(current_recv_slot[s] >= 0)  BY <1>0, <4>2 DEF QueueInv
          <5> QED  BY ONLY <2>1, <2>2, <4>2, <5>1
        <4> QED  BY <4>1, <4>2
      <3>2. /\ recv_seq + Gap(recv_rail, s) \in Nat
            /\ (recv_seq + 1) + Gap((recv_seq + 1) % rail_count, s)
                 = recv_seq + Gap(recv_rail, s) + (IF s = r THEN rail_count ELSE 0)
        BY ONLY Zenon, s \in Rails, r = recv_rail, <2>1, RailAdvance DEF recv_rail
      <3>3. NextPolled(s)' = (recv_seq + 1) + Gap((recv_seq + 1) % rail_count, s) + 0
        BY <2>2, <3>1 DEF NextPolled, recv_rail
      <3>4. NextPolled(s) = recv_seq + Gap(recv_rail, s) + (IF s = r THEN rail_count ELSE 0)
        BY <3>1 DEF NextPolled
      <3>5. NextPolled(s) \in Nat  BY <1>0, NextTypes
      <3> QED  BY <3>2, <3>3, <3>4, <3>5
    <2>6. ASSUME NEW s \in Rails PROVE \A j \in 1 .. nrecv[s] : rq'[s][j] = rq[s][j]
      <3>1. nrecv[s] \in Nat /\ nrecv[s] <= Len(rq[s]) /\ Len(rq[s]) \in Nat  BY <1>0, <2>1 DEF QueueInv
      <3>2. CASE s # r  BY <2>1, <2>2, <3>2
      <3>3. CASE s = r
        <4>1. c \in Slots  BY ONLY <2>1 DEF Slots
        <4>2. \A j \in 1 .. Len(rq[s]) : rq'[s][j] = rq[s][j]
          BY ONLY <2>1, <2>2, <3>3, <4>1, SeqFacts
        <4> QED  BY <3>1, <4>2
      <3> QED  BY <3>2, <3>3
    <2>7. ASSUME NEW s \in Rails PROVE RailInv(s)'
      <3>1. RailInv(s)  BY <1>0 DEF MsgInv
      <3> QED  BY ONLY Zenon, <1>1, <2>3, <2>4, <2>5, <2>6, <3>1 DEF RailInv
    <2> QED  BY <2>7 DEF MsgInv
  <1> QED  BY <1>2, <1>3

LEMMA MsgStep ==
    ASSUME UintRange % rdma_queue_depth = 0, IInv, [Next]_vars
    PROVE  MsgInv'
  <1>0. TypeOK /\ MsgInv  BY ONLY IInv DEF IInv
  <1>1. ASSUME UNCHANGED <<ctl, send_seq, recv_seq, current_recv_slot, sq, sring, ndeliv, rq, rring, nrecv>>
        PROVE  MsgInv'
    BY ONLY <1>0, <1>1 DEF MsgInv, RailInv, Matches, NextPolled, NextSent, send_rail, recv_rail
  <1>2. CASE WriteLiteralLength
    BY <1>0, <1>2, MsgAppend DEF WriteLiteralLength, qpVars, recvVars, rqVars
  <1>3. CASE WriteToken
    <2>1. UNCHANGED <<send_seq, recv_seq, current_recv_slot, sq, sring, ndeliv, rq, rring, nrecv>>
      BY <1>3 DEF WriteToken, qpVars, recvVars, rqVars
    <2>2. CASE stoken = -2  BY <1>1, <1>3, <2>1, <2>2 DEF WriteToken
    <2>3. CASE stoken # -2
      <3>1. ctl' = Append(ctl, write_int(-(stoken + 1)))  BY <1>3, <2>3 DEF WriteToken
      <3> QED  BY <1>0, <2>1, <3>1, MsgAppend
    <2> QED  BY <2>2, <2>3
  <1>4. CASE ReadInt \/ RecvDataPtr \/ UseData
    BY <1>1, <1>4 DEF ReadInt, RecvDataPtr, UseData, senderVars, qpVars, ctlVars, rqVars
  <1>5. CASE \/ \E n \in 0 .. MaxCall, token \in {-2, -1, 0} : SendTokenCall(n, token)
             \/ CountControl \/ FlushDone \/ Finish \/ ReadFinalGoodbye \/ CleanupDone \/ WriteOut
             \/ (\E r \in Rails : LeaveRail(r))
             \/ SenderFails \/ ReceiverFails \/ UNCHANGED vars
    BY ONLY <1>1, <1>5 DEF SendTokenCall, CountControl, FlushDone, Finish, ReadFinalGoodbye, LeaveRail,
                      CleanupDone, WriteOut, SenderFails, ReceiverFails, vars, senderVars, qpVars, ctlVars, recvVars, rqVars
  <1>6. ASSUME NEW r \in Rails, Complete(r) PROVE MsgInv'
    BY <1>1, <1>6 DEF Complete, senderVars, ctlVars, recvVars, rqVars
  <1> QED
    BY <1>2, <1>3, <1>4, <1>5, <1>6, MsgPost, MsgFabric, MsgBegin, MsgRelease
       DEF Next, SenderStep, ReceiverStep

-----------------------------------------------------------------------------
\* Steps that leave the receiver, the integer it read and the message it holds
\* alone.
LEMMA ReadSame ==
    ASSUME TypeOK, ReadInv,
           UNCHANGED <<rpc, rpos, residue, recv_seq, current_recv_slot, current_recv_length,
                       current_recv_offset, rlen>>,
           rpos > 0 => ctl'[rpos] = ctl[rpos],
           current_recv_slot[recv_rail] >= 0 =>
             rring'[recv_rail][current_recv_slot[recv_rail]] = rring[recv_rail][current_recv_slot[recv_rail]]
    PROVE  ReadInv'
  <1>0. /\ rpc' = rpc /\ rpos' = rpos /\ residue' = residue /\ recv_seq' = recv_seq /\ rlen' = rlen
        /\ current_recv_slot' = current_recv_slot /\ current_recv_length' = current_recv_length
        /\ current_recv_offset' = current_recv_offset
    OBVIOUS
  <1>1. recv_rail' = recv_rail  BY ONLY <1>0 DEF recv_rail
  <1>2. \A m : BetweenLiterals(m) <=> BetweenLiterals(m)'
    BY ONLY <1>0, <1>1 DEF BetweenLiterals
  <1>3. \A x, n : Holds(recv_rail, x, n) => Holds(recv_rail, x, n)'
    <2>1. current_recv_slot[recv_rail] >= 0 =>
            rring'[recv_rail][current_recv_slot[recv_rail]] = rring[recv_rail][current_recv_slot[recv_rail]]
      OBVIOUS
    <2> QED  BY ONLY <1>0, <1>1, <2>1 DEF Holds
  <1>4. CASE rpos = 0
    <2>1. ~(rpos > 0)  BY ONLY <1>4
    <2> QED  BY ONLY ReadInv, <1>0, <1>1, <1>2, <1>4, <2>1 DEF ReadInv
  <1>5. CASE rpos # 0
    <2>0. rpos \in Nat  BY ONLY TypeOK DEF TypeOK
    <2>1. rpos > 0 /\ ctl'[rpos'] = ctl[rpos]
      <3>1. rpos > 0  BY ONLY <1>5, <2>0
      <3>2. rpos > 0 => ctl'[rpos] = ctl[rpos]  OBVIOUS
      <3> QED  BY ONLY <1>0, <3>1, <3>2
    <2> QED  BY ONLY ReadInv, <1>0, <1>1, <1>2, <1>3, <1>5, <2>1 DEF ReadInv
  <1> QED  BY <1>4, <1>5

\* Each step of the receiver keeps its place in the literal it reads.
LEMMA ReadReceive ==
    ASSUME IInv, ReceiverStep \/ ReceiverFails
    PROVE  ReadInv'
  <1>0. TypeOK /\ QueueInv /\ CtlInv /\ ReadInv  BY DEF IInv
  <1> SUFFICES ASSUME NEW r \in Rails, r = recv_rail, NEW e, e = ctl[rpos] PROVE ReadInv'
    BY <1>0, RailTypes
  <1>1. /\ rpos \in Nat /\ residue \in Nat /\ rlen \in Nat /\ recv_seq \in Nat /\ ctl \in Seq(CtlInt)
        /\ Len(ctl) \in Nat /\ rpos <= Len(ctl) /\ flushed \in Nat /\ flushed <= Len(ctl)
        /\ \A c \in 1 .. Len(ctl) : ctl[c].val \in Int /\ ctl[c].m \in Nat
    <2>1. \A c \in 1 .. Len(ctl) : ctl[c] \in CtlInt  BY ONLY <1>0 DEF TypeOK
    <2>2. /\ rpos \in Nat /\ residue \in Nat /\ rlen \in Nat /\ recv_seq \in Nat /\ ctl \in Seq(CtlInt)
          /\ Len(ctl) \in Nat /\ flushed \in Nat /\ flushed <= Len(ctl) /\ rpos <= flushed
      BY <1>0 DEF TypeOK, QueueInv
    <2>3. rpos <= Len(ctl)  BY ONLY <2>2
    <2> QED  BY ONLY <2>1, <2>2, <2>3 DEF CtlInt
  <1>2. /\ current_recv_slot \in [Rails -> Slots \cup {-1}]
        /\ current_recv_length \in [Rails -> Nat] /\ current_recv_offset \in [Rails -> Nat]
    BY ONLY SMTT(20), <1>0 DEF TypeOK
  <1>3. CASE ReceiverFails
    <2>1. rpc' = "exit" /\ UNCHANGED <<ctl, rpos, residue>>
      BY ONLY <1>3 DEF ReceiverFails, ctlVars
    <2> QED  BY ONLY <1>0, <2>1 DEF ReadInv
  <1>4. CASE ReadInt
    <2> SUFFICES ASSUME NEW f, f = ctl[rpos + 1] PROVE ReadInv'
      OBVIOUS
    <2>1. /\ rpc = "token" /\ residue = 0 /\ rpos < flushed /\ rpos' = rpos + 1
          /\ residue' = (IF f.val > 0 THEN f.val ELSE 0)
          /\ UNCHANGED <<ctl, rpc, recv_seq, current_recv_slot, current_recv_length, current_recv_offset>>
      BY <1>4 DEF ReadInt, ctlVars
    <2>2. rpos + 1 \in 1 .. Len(ctl) /\ f.val \in Int /\ f.m \in Nat  BY <1>1, <2>1
    <2>3. BetweenLiterals(f.m)
      <3>1. CASE rpos = 0
        <4>1. Len(ctl) > 0 /\ f = ctl[1]
          <5>1. rpos + 1 = 1  BY ONLY <3>1
          <5> QED  BY ONLY f = ctl[rpos + 1], <1>1, <2>1, <3>1, <5>1
        <4>2. f.m = 0 /\ BetweenLiterals(0)  BY ONLY <1>0, <2>1, <3>1, <4>1 DEF CtlInv, ReadInv
        <4> QED  BY <4>2
      <3>2. CASE rpos > 0
        <4>1. rpos \in 1 .. Len(ctl) - 1 /\ rpos \in 1 .. Len(ctl)  BY ONLY <1>1, <2>2, <3>2
        <4>2. f.m = e.m + Lit(e) /\ e.val \in Int /\ e.m \in Nat  BY <1>0, <1>1, <4>1 DEF CtlInv
        <4>3. CASE e.val <= 0
          <5>1. BetweenLiterals(e.m)  BY <1>0, <2>1, <3>2, <4>3 DEF ReadInv
          <5>2. f.m = e.m  BY ONLY <4>2, <4>3 DEF Lit
          <5> QED  BY ONLY <5>1, <5>2
        <4>4. CASE e.val > 0
          <5>1. ~(e.val <= 0 \/ residue = e.val) /\ e.val - residue = e.val  BY ONLY <2>1, <4>2, <4>4
          <5>2. Holds(r, e, e.val - residue)  BY <1>0, <2>1, <3>2, <5>1 DEF ReadInv
          <5>3. f.m = e.m + 1  BY ONLY <4>2, <4>4 DEF Lit
          <5> QED  BY ONLY r = recv_rail, <5>1, <5>2, <5>3 DEF Holds, BetweenLiterals
        <4> QED  BY ONLY <4>2, <4>3, <4>4
      <3> QED  BY <1>1, <3>1, <3>2
    <2>4. BetweenLiterals(f.m)'
      BY ONLY <2>1, <2>3 DEF BetweenLiterals, recv_rail
    <2>5. ctl'[rpos'] = f /\ rpos' > 0 /\ rpos' # 0  BY <1>1, <2>1
    <2>6. (f.val <= 0 => residue' = 0) /\ (~(f.val <= 0) => residue' = f.val)  BY <2>1, <2>2
    <2> QED  BY ONLY SMTT(20), <2>1, <2>4, <2>5, <2>6 DEF ReadInv
  <1>5. ASSUME rpc = "begin" \/ rpc = "use" \/ (residue > 0 /\ rpc = "token")
        PROVE  rpos > 0 /\ rpos # 0 /\ e.val \in Int /\ e.m \in Nat /\ e.val > 0
    <2>1. rpos > 0  BY <1>0, <1>1, <1>5 DEF ReadInv
    <2>2. e.val \in Int /\ e.m \in Nat  BY SMTT(20), <1>1, <2>1
    <2>3. ~(e.val <= 0)  BY <1>0, <1>1, <1>5, <2>1 DEF ReadInv
    <2> QED  BY ONLY <2>1, <2>2, <2>3
  <1>6. CASE ReleaseExhaustedReceive
    <2>1. /\ rpc = "token" /\ residue > 0 /\ rlen' = piece_size /\ residue' = residue - piece_size
          /\ rpc' = "begin" /\ UNCHANGED <<ctl, rpos, current_recv_length, current_recv_offset, rring>>
      BY ONLY <1>6 DEF ReleaseExhaustedReceive, ctlVars
    <2>2. rpos > 0 /\ rpos # 0 /\ e.val \in Int /\ e.m \in Nat /\ e.val > 0  BY ONLY <1>5, <2>1
    <2>3. rlen' > 0 /\ residue' + rlen' = residue /\ e.val - residue' - rlen' = e.val - residue
      <3>1. piece_size \in 1 .. residue
        BY <1>1, <2>1, ConstantsAssumption DEF piece_size, Smaller
      <3> QED  BY ONLY <1>1, <2>1, <2>2, <3>1
    <2>4. ctl'[rpos'] = e /\ rpos' > 0 /\ rpos' # 0  BY SMTT(20), <2>1, <2>2
    <2>5. CASE residue = e.val
      <3>1. BetweenLiterals(e.m)  BY Zenon, <1>0, <2>1, <2>2, <2>5 DEF ReadInv
      <3>2. recv_seq' = e.m /\ \A s \in Rails : ~(current_recv_slot'[s] >= 0)
        <4>1. CASE exhausted(r)
          <5>1. /\ current_recv_slot' = [current_recv_slot EXCEPT ![r] = -1] /\ recv_seq' = recv_seq + 1
            BY ONLY r = recv_rail, <1>6, <4>1 DEF ReleaseExhaustedReceive, released_slot
          <5>2. recv_seq + 1 = e.m
            BY ONLY r = recv_rail, <3>1, <4>1 DEF BetweenLiterals, exhausted
          <5>3. \A s \in Rails : s # r => ~(current_recv_slot[s] >= 0)  BY Zenon, <1>0 DEF QueueInv
          <5> QED  BY <1>2, <5>1, <5>2, <5>3
        <4>2. CASE ~exhausted(r)
          <5>1. UNCHANGED <<current_recv_slot, recv_seq>>  BY <1>6, <4>2 DEF ReleaseExhaustedReceive
          <5>2. ~(current_recv_slot[r] >= 0) /\ recv_seq = e.m
            BY <3>1, <4>2 DEF BetweenLiterals, exhausted
          <5>3. \A s \in Rails : s # r => ~(current_recv_slot[s] >= 0)  BY <1>0 DEF QueueInv
          <5> QED  BY <5>1, <5>2, <5>3
        <4> QED  BY <4>1, <4>2
      <3>3. recv_rail' \in Rails
        BY ONLY <2>2, <3>2, RailAdvance DEF recv_rail
      <3> QED  BY ONLY <2>1, <2>2, <2>3, <2>4, <2>5, <3>2, <3>3 DEF ReadInv
    <2>6. CASE residue # e.val
      <3>1. residue < e.val /\ Holds(r, e, e.val - residue)
        BY ONLY r = recv_rail, e = ctl[rpos], <1>0, <2>1, <2>2, <2>6 DEF ReadInv
      <3>2. ~exhausted(r)
        BY ONLY <1>1, <2>1, <2>2, <3>1 DEF Holds, exhausted
      <3>3. UNCHANGED <<current_recv_slot, recv_seq>>  BY <1>6, <3>2 DEF ReleaseExhaustedReceive
      <3>4. recv_rail' = r /\ current_recv_slot'[r] >= 0  BY <3>1, <3>3 DEF recv_rail, Holds
      <3>5. /\ recv_seq' = e.m /\ current_recv_length'[r] = e.val
            /\ current_recv_offset'[r] = e.val - residue' - rlen'
            /\ rring'[r][current_recv_slot'[r]].start = e.start
        BY ONLY SMTT(20), <2>1, <2>3, <3>1, <3>3 DEF Holds
      <3>6. Holds(recv_rail, ctl[rpos], ctl[rpos].val - residue - rlen)'
        BY ONLY <2>4, <3>4, <3>5 DEF Holds
      <3>7. residue' + rlen' <= e.val  BY ONLY SMTT(20), <1>1, <2>2, <2>3, <3>1
      <3> QED  BY ONLY <2>1, <2>2, <2>3, <2>4, <3>4, <3>6, <3>7 DEF ReadInv
    <2> QED  BY <2>5, <2>6
  <1>7. CASE BeginReceiveMessage
    <2> DEFINE d == rq[r][1]
    <2>1. /\ rpos \in 1 .. Len(ctl) /\ d \in Slots /\ rring[r][d].start = e.start
          /\ recv_seq = e.m /\ residue + rlen = e.val /\ rlen > 0 /\ rpc' = "begin" /\ rpc = "begin"
          /\ current_recv_slot' = [current_recv_slot EXCEPT ![r] = d]
          /\ current_recv_length' = [current_recv_length EXCEPT ![r] = e.val]
          /\ current_recv_offset' = [current_recv_offset EXCEPT ![r] = 0]
      BY Zenon, <1>7, BeginFacts
    <2>2. UNCHANGED <<ctl, rpos, residue, recv_seq, rlen, rring>>
      BY ONLY Zenon, <1>7 DEF BeginReceiveMessage, ctlVars
    <2>3. rpos > 0 /\ rpos # 0 /\ e.val \in Int /\ e.m \in Nat /\ e.val > 0  BY ONLY <1>5, <2>1
    <2>4. /\ current_recv_slot'[r] = d /\ d >= 0 /\ current_recv_length'[r] = e.val
          /\ current_recv_offset'[r] = 0 /\ rring'[r][current_recv_slot'[r]].start = e.start
      BY ONLY <1>2, <2>1, <2>2 DEF Slots
    <2>5. e.val - residue - rlen = 0 /\ residue + rlen <= e.val  BY <1>1, <2>1, <2>3
    <2>6. ctl'[rpos'] = e /\ recv_rail' = r /\ rpos' > 0 /\ rpos' # 0  BY SMTT(20), <2>2, <2>3 DEF recv_rail
    <2> HIDE DEF d
    <2>7. Holds(recv_rail, ctl[rpos], ctl[rpos].val - residue - rlen)'
      BY ONLY <2>1, <2>2, <2>4, <2>5, <2>6 DEF Holds
    <2> QED  BY ONLY SMTT(20), <2>1, <2>2, <2>3, <2>4, <2>5, <2>6, <2>7 DEF ReadInv
  <1>8. CASE RecvDataPtr
    <2>1. /\ rpc = "begin" /\ current_recv_slot[r] >= 0
          /\ UNCHANGED <<ctl, rpos, residue, recv_seq, current_recv_slot, current_recv_length, rlen, rring>>
      BY ONLY r = recv_rail, <1>8 DEF RecvDataPtr, ctlVars, rqVars
    <2>2. rpos > 0 /\ rpos # 0 /\ e.val \in Int /\ e.m \in Nat /\ e.val > 0  BY ONLY <1>5, <2>1
    <2>3. rlen > 0 /\ residue + rlen <= e.val /\ Holds(r, e, e.val - residue - rlen)
      BY SMTT(20), <1>0, <2>1, <2>2 DEF ReadInv
    <2>4. ~(rlen > current_recv_length[r] - current_recv_offset[r])
      <3>1. current_recv_length[r] = e.val /\ current_recv_offset[r] = e.val - residue - rlen
        BY ONLY <2>3 DEF Holds
      <3> QED  BY <1>1, <2>2, <3>1
    <2>5. rpc' = "use" /\ current_recv_offset' = [current_recv_offset EXCEPT ![r] = current_recv_offset[r] + rlen]
      BY <1>8, <2>4 DEF RecvDataPtr
    <2>6. current_recv_offset'[r] = e.val - residue
      <3>1. current_recv_offset'[r] = current_recv_offset[r] + rlen  BY <1>2, <2>5
      <3>2. current_recv_offset[r] = e.val - residue - rlen  BY <2>3 DEF Holds
      <3> QED  BY <1>1, <2>2, <3>1, <3>2
    <2>7. ctl'[rpos'] = e /\ recv_rail' = r /\ rpos' > 0 /\ rpos' # 0
      BY ONLY r = recv_rail, e = ctl[rpos], <2>1, <2>2 DEF recv_rail
    <2>8. Holds(recv_rail, ctl[rpos], ctl[rpos].val - residue)'
      BY ONLY <2>1, <2>3, <2>6, <2>7 DEF Holds
    <2>9. ~(e.val <= 0)  BY ONLY <2>2
    <2> QED  BY ONLY SMTT(20), <2>1, <2>2, <2>3, <2>5, <2>7, <2>8, <2>9 DEF ReadInv
  <1>9. CASE UseData
    <2>1. /\ rpc = "use" /\ rpc' = "token"
          /\ UNCHANGED <<ctl, rpos, residue, recv_seq, current_recv_slot, current_recv_length,
                         current_recv_offset, rlen, rring>>
      BY ONLY <1>9 DEF UseData, ctlVars, rqVars
    <2>2. rpos > 0 /\ rpos # 0 /\ e.val \in Int /\ e.m \in Nat /\ e.val > 0  BY ONLY <1>5, <2>1
    <2>3. rlen > 0 /\ residue + rlen <= e.val /\ Holds(r, e, e.val - residue)
      BY SMTT(20), <1>0, <2>1, <2>2 DEF ReadInv
    <2>4. residue < e.val /\ ~(e.val <= 0 \/ residue = e.val)  BY ONLY <1>1, <2>2, <2>3
    <2>5. ctl'[rpos'] = e /\ recv_rail' = r /\ rpos' > 0 /\ rpos' # 0  BY SMTT(20), <2>1, <2>2 DEF recv_rail
    <2>6. Holds(recv_rail, ctl[rpos], ctl[rpos].val - residue)'
      BY <2>1, <2>3, <2>5 DEF Holds
    <2> QED  BY ONLY <2>1, <2>2, <2>4, <2>5, <2>6 DEF ReadInv
  <1> QED  BY <1>3, <1>4, <1>6, <1>7, <1>8, <1>9 DEF ReceiverStep

LEMMA ReadStep ==
    ASSUME IInv, [Next]_vars
    PROVE  ReadInv'
  <1>0. TypeOK /\ QueueInv /\ ReadInv  BY DEF IInv
  <1>1. rpos \in Nat /\ rpos <= Len(ctl) /\ Len(ctl) \in Nat  BY <1>0 DEF TypeOK, QueueInv
  <1>2. ASSUME UNCHANGED <<rpc, rpos, residue, recv_seq, current_recv_slot, current_recv_length,
                           current_recv_offset, rlen, rring>>,
               ctl' = ctl \/ \E v \in Int : ctl' = Append(ctl, write_int(v))
        PROVE  ReadInv'
    <2>1. ASSUME rpos > 0 PROVE ctl'[rpos] = ctl[rpos]
      <3>1. rpos \in 1 .. Len(ctl)  BY <1>1, <2>1
      <3>2. CASE ctl' = ctl  BY <3>2
      <3>3. ASSUME NEW v \in Int, ctl' = Append(ctl, write_int(v)) PROVE ctl'[rpos] = ctl[rpos]
        <4>1. ctl \in Seq(CtlInt) /\ write_int(v) \in CtlInt  BY <1>0 DEF TypeOK, write_int, CtlInt
        <4> QED  BY ONLY <3>1, <3>3, <4>1, SeqFacts
      <3> QED  BY <1>2, <3>2, <3>3
    <2> QED  BY <1>0, <1>2, <2>1, ReadSame
  <1>3. CASE ReceiverStep \/ ReceiverFails  BY <1>3, ReadReceive
  <1>4. CASE WriteLiteralLength
    <2>1. Smaller(rdma_chunk_size, sleft) \in Int  BY <1>0, ConstantsAssumption DEF Smaller, TypeOK
    <2> QED  BY <1>2, <1>4, <2>1 DEF WriteLiteralLength, recvVars, rqVars
  <1>5. CASE WriteToken
    <2>1. -(stoken + 1) \in Int  BY ONLY <1>0 DEF TypeOK
    <2> QED  BY <1>2, <1>5, <2>1 DEF WriteToken, recvVars, rqVars
  <1>6. ASSUME NEW r \in Rails, Deliver(r) PROVE ReadInv'
    <2>1. UNCHANGED <<rpc, rpos, residue, recv_seq, current_recv_slot, current_recv_length,
                      current_recv_offset, rlen, ctl>>
      BY <1>6 DEF Deliver, recvVars, ctlVars
    <2>2. ASSUME current_recv_slot[recv_rail] >= 0
          PROVE  rring'[recv_rail][current_recv_slot[recv_rail]] = rring[recv_rail][current_recv_slot[recv_rail]]
      <3> DEFINE c == current_recv_slot[recv_rail]  d == rq[r][nrecv[r] + 1]
      <3>1. /\ recv_rail \in Rails /\ c \in Slots /\ rring \in [Rails -> [Slots -> Msg]]
            /\ rq[r] \in Seq(Slots) /\ nrecv[r] \in Nat
        <4>1. /\ recv_rail \in Rails /\ c \in Slots \cup {-1} /\ rring \in [Rails -> [Slots -> Msg]]
              /\ rq[r] \in Seq(Slots) /\ nrecv[r] \in Nat
          BY ONLY Zenon, <1>0, RailTypes DEF TypeOK
        <4>2. c # -1  BY <2>2
        <4> QED  BY ONLY <4>1, <4>2
      <3>2. /\ nrecv[r] < Len(rq[r])
            /\ rring' = [rring EXCEPT ![r] = [rring[r] EXCEPT ![d] = sring[r][sq[r][ndeliv[r] + 1]]]]
        BY <1>6 DEF Deliver
      <3>3. nrecv[r] + 1 \in 1 .. Len(rq[r])  BY <3>1, <3>2
      <3>4. d # current_recv_slot[r]  BY <1>0, <3>3 DEF QueueInv, RecvDistinct
      <3>5. CASE r = recv_rail  BY ONLY <3>1, <3>2, <3>4, <3>5
      <3>6. CASE r # recv_rail  BY <3>1, <3>2, <3>6
      <3> QED  BY <3>5, <3>6
    <2> QED  BY <1>0, <2>1, <2>2, ReadSame
  <1>7. CASE \/ \E n \in 0 .. MaxCall, token \in {-2, -1, 0} : SendTokenCall(n, token)
             \/ PostDataSend \/ CountControl \/ FlushDone \/ Finish \/ ReadFinalGoodbye \/ CleanupDone \/ WriteOut
             \/ (\E r \in Rails : LeaveRail(r))
             \/ SenderFails \/ UNCHANGED vars
    BY ONLY <1>2, <1>7 DEF SendTokenCall, PostDataSend, CountControl, FlushDone, Finish, ReadFinalGoodbye,
                      LeaveRail, CleanupDone, WriteOut, SenderFails, vars, ctlVars, recvVars, rqVars
  <1>8. ASSUME NEW r \in Rails, Complete(r) \/ DrainOutstanding(r) PROVE ReadInv'
    BY <1>2, <1>8 DEF Complete, DrainOutstanding, ctlVars, recvVars, rqVars
  <1> QED  BY <1>3, <1>4, <1>5, <1>6, <1>7, <1>8 DEF Next, SenderStep

-----------------------------------------------------------------------------
\* Reposting returns the slot that polling took.
LEMMA ConservedStep ==
    ASSUME IInv, [Next]_vars
    PROVE  RecvSlotsConserved'
  <1> DEFINE Count(s) == Len(rq[s]) = rdma_queue_depth - (IF current_recv_slot[s] >= 0 THEN 1 ELSE 0)
  <1>0. TypeOK /\ QueueInv /\ RecvSlotsConserved /\ QInv  BY SMTT(20) DEF IInv, QInv
  <1>1. RecvDistinct'  BY <1>0, QueueStep DEF QInv, QueueInv
  <1>2. \A s \in Rails : Count(s)  BY ONLY <1>0 DEF RecvSlotsConserved
  <1>3. (\A s \in Rails : Count(s)') => RecvSlotsConserved'
    BY <1>1 DEF RecvDistinct, RecvSlotsConserved
  <1>4. CASE UNCHANGED <<rq, current_recv_slot>>
    <2>1. \A s \in Rails : Count(s)'  BY ONLY <1>2, <1>4
    <2> QED  BY <1>3, <2>1
  <1>5. /\ rq \in [Rails -> Seq(Slots)] /\ current_recv_slot \in [Rails -> Slots \cup {-1}]
        /\ rdma_queue_depth \in Nat
    BY <1>0, ConstantsAssumption DEF TypeOK
  <1>6. CASE ReleaseExhaustedReceive
    <2> DEFINE r == recv_rail
    <2>1. CASE ~exhausted(r)  BY <1>4, <1>6, <2>1 DEF ReleaseExhaustedReceive
    <2>2. CASE exhausted(r)
      <3>1. r \in Rails /\ current_recv_slot[r] >= 0 /\ current_recv_slot[r] \in Slots
        <4>1. r \in Rails  BY <1>0, RailTypes
        <4>2. current_recv_slot[r] >= 0  BY <2>2 DEF exhausted
        <4>3. current_recv_slot[r] # -1  BY <4>2
        <4> QED  BY <1>5, <4>1, <4>2, <4>3
      <3>2. /\ rq' = [rq EXCEPT ![r] = Append(rq[r], current_recv_slot[r])]
            /\ current_recv_slot' = [current_recv_slot EXCEPT ![r] = -1]
        BY ONLY <1>6, <2>2 DEF ReleaseExhaustedReceive, released_slot
      <3>3. Len(rq[r]) = rdma_queue_depth - 1 /\ Len(Append(rq[r], current_recv_slot[r])) = Len(rq[r]) + 1
        BY <1>2, <1>5, <3>1, SeqFacts
      <3>4. \A s \in Rails : Count(s)'
        <4> TAKE s \in Rails
        <4>1. CASE s = r
          <5>1. Len(rq'[s]) = rdma_queue_depth  BY <1>5, <3>1, <3>2, <3>3, <4>1
          <5>2. ~(current_recv_slot'[s] >= 0)  BY <1>5, <3>1, <3>2, <4>1
          <5> QED  BY <1>5, <5>1, <5>2
        <4>2. CASE s # r
          <5>1. rq'[s] = rq[s] /\ current_recv_slot'[s] = current_recv_slot[s]  BY <1>5, <3>2, <4>2
          <5> QED  BY <1>2, <5>1
        <4> QED  BY <4>1, <4>2
      <3> QED  BY <1>3, <3>4
    <2> QED  BY <2>1, <2>2
  <1>7. CASE BeginReceiveMessage
    <2> DEFINE r == recv_rail  d == rq[r][1]
    <2>1. /\ r \in Rails /\ d \in Slots /\ current_recv_slot[r] < 0 /\ Len(rq[r]) > 0
          /\ rq' = [rq EXCEPT ![r] = Tail(rq[r])]
          /\ current_recv_slot' = [current_recv_slot EXCEPT ![r] = d]
      BY SMTT(20), <1>7, BeginFacts
    <2>2. Len(Tail(rq[r])) = Len(rq[r]) - 1 /\ Len(rq[r]) \in Nat  BY <1>5, <2>1, SeqFacts
    <2>3. Len(rq[r]) = rdma_queue_depth
      <3>1. ~(current_recv_slot[r] >= 0)  BY <1>5, <2>1 DEF Slots
      <3> QED  BY <1>2, <1>5, <2>1, <3>1
    <2> HIDE DEF d
    <2>4. \A s \in Rails : Count(s)'
      <3> TAKE s \in Rails
      <3>1. CASE s = r
        <4>1. Len(rq'[s]) = rdma_queue_depth - 1  BY <1>5, <2>1, <2>2, <2>3, <3>1
        <4>2. current_recv_slot'[s] >= 0  BY ONLY <1>5, <2>1, <3>1 DEF Slots
        <4> QED  BY <4>1, <4>2
      <3>2. CASE s # r
        <4>1. rq'[s] = rq[s] /\ current_recv_slot'[s] = current_recv_slot[s]  BY ONLY SMTT(20), <1>5, <2>1, <3>2
        <4> QED  BY <1>2, <4>1
      <3> QED  BY <3>1, <3>2
    <2> QED  BY ONLY <1>3, <2>4
  <1>8. CASE ~ReleaseExhaustedReceive /\ ~BeginReceiveMessage
    BY <1>4, <1>8
       DEF Next, SenderStep, ReceiverStep, SendTokenCall, WriteLiteralLength, CountControl, WriteToken,
           PostDataSend, FlushDone, Finish, ReadFinalGoodbye, LeaveRail, CleanupDone, DrainOutstanding,
           WriteOut, Deliver, Complete, ReadInt, RecvDataPtr, UseData, SenderFails, ReceiverFails, vars, recvVars, rqVars
  <1> QED  BY <1>6, <1>7, <1>8

LEMMA IInvInit == Init => IInv
  <1> SUFFICES ASSUME Init PROVE IInv
    OBVIOUS
  <1>1. TypeOK /\ QueueInv  BY QueueInit DEF QInv
  <1>2. RecvSlotsConserved
    <2>1. RecvDistinct  BY <1>1 DEF QueueInv
    <2>2. \A r \in Rails : current_recv_slot[r] = -1  BY DEF Init
    <2>3. \A r \in Rails : Len(rq[r]) = rdma_queue_depth
      BY ConstantsAssumption DEF Init
    <2>4. \A r \in Rails : Len(rq[r]) = rdma_queue_depth - (IF current_recv_slot[r] >= 0 THEN 1 ELSE 0)
      <3> TAKE r \in Rails
      <3>1. ~(current_recv_slot[r] >= 0)  BY <2>2
      <3>2. Len(rq[r]) = rdma_queue_depth /\ rdma_queue_depth \in Nat  BY ONLY <2>3, ConstantsAssumption
      <3> QED  BY ONLY <3>1, <3>2
    <2> QED  BY <2>1, <2>4 DEF RecvDistinct, RecvSlotsConserved
  <1>3. SlotInv  BY SMTT(20) DEF Init, SlotInv
  <1>4. CtlInv  BY SMTT(20) DEF Init, CtlInv, Settled
  <1>5. MsgInv
    <2> SUFFICES ASSUME NEW r \in Rails PROVE RailInv(r)
      BY DEF MsgInv
    <2>1. /\ nrecv[r] = 0 /\ Len(sq[r]) = 0 /\ ndeliv[r] = 0 /\ send_seq = recv_seq
          /\ ~(current_recv_slot[r] >= 0)
      BY ONLY Init, r \in Rails DEF Init
    <2>2. NextSent(r) \in Int /\ NextPolled(r) = NextSent(r) + 0
      BY ONLY <1>1, <2>1, NextTypes DEF NextSent, NextPolled, send_rail, recv_rail
    <2>3. Kth(NextPolled(r), 0) = NextPolled(r)  BY ONLY <2>2, KthFacts
    <2> QED  BY <2>1, <2>2, <2>3 DEF RailInv
  <1>6. ReadInv
    <2>1. recv_rail \in Rails  BY ONLY <1>1, RailTypes
    <2>2. ~(current_recv_slot[recv_rail] >= 0) /\ rpos = 0 /\ residue = 0 /\ rpc = "token" /\ recv_seq = 0
      BY <2>1 DEF Init
    <2> QED  BY <2>2 DEF ReadInv, BetweenLiterals
  <1> QED  BY <1>1, <1>2, <1>3, <1>4, <1>5, <1>6 DEF IInv

LEMMA IInvStep ==
    ASSUME UintRange % rdma_queue_depth = 0, IInv, [Next]_vars
    PROVE  IInv'
  <1>1. QInv /\ SlotInv /\ CtlInv  BY DEF IInv, QInv
  <1>2. TypeOK' /\ QueueInv'  BY <1>1, QueueStep DEF QInv
  <1>3. SlotInv' /\ CtlInv'  BY <1>1, SlotStepInv, CtlStep
  <1> QED  BY <1>2, <1>3, ConservedStep, MsgStep, ReadStep DEF IInv

\* Headers never disagree with the SSH stream: neither the sequence check of
\* begin_receive_message nor the boundary check of rdma_recv_data_ptr can fail,
\* for any number of rails and any order in which they deliver.
THEOREM HeadersAlwaysAgree ==
    ASSUME UintRange % rdma_queue_depth = 0
    PROVE  Spec => []HeadersAgree
  <1>1. IInv => HeadersAgree  BY DEF IInv, ReadInv, HeadersAgree
  <1>2. IInv /\ [Next]_vars => IInv'  BY IInvStep
  <1> QED  BY <1>1, <1>2, IInvInit, PTL DEF Spec

\* The bytes behind the pointer rdma_recv_data_ptr returns are the next bytes of
\* the literal whose length the receiver last read from the SSH stream.
THEOREM LiteralsInOrder ==
    ASSUME UintRange % rdma_queue_depth = 0
    PROVE  Spec => []LiteralOrder
  <1>1. IInv => LiteralOrder
    <2> SUFFICES ASSUME IInv, rpc = "use"
                 PROVE  rring[recv_rail][current_recv_slot[recv_rail]].start + current_recv_offset[recv_rail] - rlen
                          = ctl[rpos].start + ctl[rpos].val - residue - rlen
      BY Zenon DEF LiteralOrder
    <2> USE DEF IInv
    <2>1. rpos \in Nat /\ rpos # 0
      <3>1. rpos \in Nat  BY ONLY TypeOK DEF TypeOK
      <3> QED  BY ONLY ReadInv, rpc = "use", <3>1 DEF ReadInv
    <2>2. rpos \in 1 .. Len(ctl)  BY <2>1 DEF TypeOK, QueueInv
    <2>3. ctl[rpos].start \in Nat /\ ctl[rpos].val \in Int /\ residue \in Nat /\ rlen \in Nat
      <3>1. ctl[rpos] \in CtlInt /\ residue \in Nat /\ rlen \in Nat  BY SMTT(20), <2>2 DEF TypeOK
      <3> QED  BY <3>1 DEF CtlInt
    <2>4. Holds(recv_rail, ctl[rpos], ctl[rpos].val - residue)  BY SMTT(20), <2>2 DEF ReadInv
    <2>5. /\ current_recv_offset[recv_rail] = ctl[rpos].val - residue
          /\ rring[recv_rail][current_recv_slot[recv_rail]].start = ctl[rpos].start
      BY <2>4 DEF Holds
    <2> QED  BY <2>3, <2>5
  <1>2. IInv /\ [Next]_vars => IInv'  BY IInvStep
  <1> QED  BY <1>1, <1>2, IInvInit, PTL DEF Spec

\* Every receive slot is posted exactly once or held by the caller, so the slot
\* receive_data is reading is never the target of a delivery.
THEOREM ReceiveCreditConserved ==
    ASSUME UintRange % rdma_queue_depth = 0
    PROVE  Spec => []RecvSlotsConserved
  <1>1. IInv => RecvSlotsConserved  BY DEF IInv
  <1>2. IInv /\ [Next]_vars => IInv'  BY IInvStep
  <1> QED  BY <1>1, <1>2, IInvInit, PTL DEF Spec
==============================================================================
