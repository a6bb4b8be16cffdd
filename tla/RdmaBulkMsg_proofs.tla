------------------------- MODULE RdmaBulkMsg_proofs -------------------------
(***************************************************************************)
(* Proofs about RdmaBulk: which message is at which place of a rail, for   *)
(* the steps that move one.                                                *)
(***************************************************************************)
EXTENDS RdmaBulkSlots_proofs

\* Counting along a rail.
LEMMA KthFacts ==
    ASSUME NEW b \in Int, NEW k \in Int
    PROVE  /\ Kth(b, k) \in Int /\ Kth(b, 0) = b
           /\ Kth(b, k) + rail_count = Kth(b, k + 1)
           /\ Kth(b + rail_count, k) = Kth(b, k + 1)
  BY ConstantsAssumption DEF Kth

\* When the round robin moves on, only the rail it leaves has to wait a round.
LEMMA RailAdvance ==
    ASSUME NEW n \in Nat, NEW r \in Rails
    PROVE  /\ n % rail_count \in Rails
           /\ n + Gap(n % rail_count, r) \in Nat
           /\ r = n % rail_count => Gap(n % rail_count, r) = 0
           /\ (n + 1) + Gap((n + 1) % rail_count, r)
                = n + Gap(n % rail_count, r) + (IF r = n % rail_count THEN rail_count ELSE 0)
  <1> DEFINE a == n % rail_count  b == (n + 1) % rail_count
  <1>1. rail_count \in Nat \ {0}  BY ConstantsAssumption
  <1>2. a \in 0 .. rail_count - 1 /\ b = IF a = rail_count - 1 THEN 0 ELSE a + 1
    BY ONLY Zenon, <1>1, ModRange, ModStep
  <1>3. r \in 0 .. rail_count - 1  BY DEF Rails
  <1> HIDE DEF a, b
  <1>4. /\ a \in Rails /\ n + Gap(a, r) \in Nat /\ (r = a => Gap(a, r) = 0)
        /\ (n + 1) + Gap(b, r) = n + Gap(a, r) + (IF r = a THEN rail_count ELSE 0)
    BY <1>1, <1>2, <1>3 DEF Gap, Rails
  <1> QED  BY <1>4 DEF a, b

LEMMA NextTypes ==
    ASSUME TypeOK, NEW r \in Rails
    PROVE  NextSent(r) \in Nat /\ NextPolled(r) \in Nat
  <1>1. send_seq \in Nat /\ recv_seq \in Nat /\ rail_count \in Nat
    BY ConstantsAssumption DEF TypeOK
  <1>2. send_seq + Gap(send_rail, r) \in Nat /\ recv_seq + Gap(recv_rail, r) \in Nat
    BY ONLY Zenon, <1>1, RailAdvance DEF send_rail, recv_rail
  <1> QED  BY <1>1, <1>2 DEF NextSent, NextPolled

\* A new integer on the SSH stream does not disturb the messages in flight.
LEMMA MsgAppend ==
    ASSUME TypeOK, MsgInv, NEW v, ctl' = Append(ctl, write_int(v)),
           UNCHANGED <<send_seq, recv_seq, current_recv_slot, sq, sring, ndeliv, rq, rring, nrecv>>
    PROVE  MsgInv'
  <1>1. ASSUME NEW x, Matches(x) PROVE Matches(x)'
    <2>1. Len(ctl) \in Nat /\ Len(ctl') = Len(ctl) + 1 /\ ctl'[Len(ctl) + 1].m = send_seq
          /\ \A c \in 1 .. Len(ctl) : ctl'[c] = ctl[c]
      BY SMTT(20) DEF TypeOK, write_int
    <2>2. \A c \in 1 .. Len(ctl') : c \in 1 .. Len(ctl) \/ c = Len(ctl) + 1  BY ONLY <2>1
    <2>3. x.seq < send_seq /\ send_seq \in Nat  BY <1>1 DEF Matches, TypeOK
    <2>4. x.seq # send_seq  BY <2>3
    <2> QED  BY SMTT(20), <1>1, <2>1, <2>2, <2>4 DEF Matches
  <1> QED
    BY <1>1 DEF MsgInv, RailInv, NextPolled, NextSent, send_rail, recv_rail

\* A post puts the next message of its rail behind the ones in flight there; the
\* slot it rewrites belongs to none of them.
LEMMA MsgPost ==
    ASSUME UintRange % rdma_queue_depth = 0, IInv, PostDataSend
    PROVE  MsgInv'
  <1> USE DEF IInv
  <1> DEFINE r == send_rail  n == Len(sq[r])  a == next_slot[r] % rdma_queue_depth
  <1>0. PICK msg \in Msg : msg = [seq |-> send_seq, len |-> samount, start |-> sbytes]
    <2>1. [seq |-> send_seq, len |-> samount, start |-> sbytes] \in Msg  BY DEF TypeOK, Msg
    <2> QED  BY <2>1, Zenon
  <1>1. PICK k \in {0, 1} :
           /\ r \in Rails /\ a \in Slots /\ n \in Nat
           /\ k <= ndeliv[r] /\ n - k \in 0 .. rdma_queue_depth - 1
           /\ Len(sq'[r]) = n - k + 1 /\ sq'[r][n - k + 1] = a
           /\ \A i \in 1 .. n - k : sq'[r][i] = sq[r][i + k]
           /\ ndeliv'[r] = ndeliv[r] - k
           /\ \A s \in Rails \ {r} : sq'[s] = sq[s] /\ ndeliv'[s] = ndeliv[s]
           /\ sring' = [sring EXCEPT ![r] = [sring[r] EXCEPT ![a] = msg]]
    BY SMTT(20), <1>0, PostFacts DEF QInv
  <1>2. /\ send_seq' = send_seq + 1 /\ send_seq \in Nat
        /\ UNCHANGED <<ctl, recv_seq, current_recv_slot, rq, rring, nrecv>>
    BY DEF PostDataSend, TypeOK, ctlVars, recvVars, rqVars
  <1>3. /\ sring \in [Rails -> [Slots -> Msg]] /\ ndeliv \in [Rails -> Nat] /\ nrecv \in [Rails -> Nat]
        /\ sq \in [Rails -> Seq(Slots)] /\ rring \in [Rails -> [Slots -> Msg]]
    BY DEF TypeOK
  <1>4. ASSUME NEW x \in Msg, Matches(x) PROVE Matches(x)'
    BY <1>2, <1>4 DEF Matches, Msg
  <1>5. \A s \in Rails : /\ NextPolled(s)' = NextPolled(s) /\ NextPolled(s) \in Nat /\ NextSent(s) \in Nat
                         /\ NextSent(s)' = NextSent(s) + (IF s = r THEN rail_count ELSE 0)
    <2> TAKE s \in Rails
    <2>1. NextPolled(s)' = NextPolled(s)  BY <1>2 DEF NextPolled, recv_rail
    <2>2. NextSent(s)' = NextSent(s) + (IF s = r THEN rail_count ELSE 0)
      BY <1>2, RailAdvance DEF NextSent, send_rail
    <2> QED  BY <2>1, <2>2, NextTypes
  <1>6. Matches(msg)'
    <2>1. spc = "post" /\ samount \in Nat /\ sbytes \in Nat /\ Len(ctl) \in Nat
      BY DEF PostDataSend, TypeOK
    <2>2. /\ Len(ctl) > 0 /\ ctl[Len(ctl)].val = samount /\ ctl[Len(ctl)].m = send_seq
          /\ ctl[Len(ctl)].start = sbytes
      BY <2>1 DEF CtlInv
    <2>3. ASSUME NEW c \in 1 .. Len(ctl), ctl[c].val > 0, ctl[c].m = send_seq
          PROVE  c = Len(ctl)
      <3>1. CASE c < Len(ctl)
        <4>1. Len(ctl) \in 1 .. Len(ctl) /\ Lit(ctl[c]) = 1  BY ONLY <2>1, <2>3, <3>1 DEF Lit
        <4>2. ctl[c].m + Lit(ctl[c]) <= ctl[Len(ctl)].m  BY <3>1, <4>1 DEF CtlInv
        <4> QED  BY <1>2, <2>2, <2>3, <4>1, <4>2
      <3> QED  BY <2>1, <3>1
    <2>4. \A c \in 1 .. Len(ctl) : ctl[c].val > 0 /\ ctl[c].m = send_seq
                                   => samount = ctl[c].val /\ sbytes = ctl[c].start
      BY <2>2, <2>3
    <2>5. msg.seq = send_seq /\ msg.len = samount /\ msg.start = sbytes  BY <1>0
    <2> QED  BY ONLY <1>2, <2>4, <2>5 DEF Matches
  <1>7. ASSUME NEW s \in Rails PROVE RailInv(s)'
    <2> USE <1>7
    <2>0. RailInv(s)  BY SMTT(20) DEF MsgInv
    <2>1. \A j \in 1 .. nrecv'[s] : /\ rring'[s][rq'[s][j]].seq = Kth(NextPolled(s)', j - 1)
                                    /\ Matches(rring[s][rq[s][j]])'
      <3> TAKE j \in 1 .. nrecv'[s]
      <3>1. j \in 1 .. nrecv[s] /\ rq[s][j] \in Slots
        <4>0. TypeOK /\ QueueInv  BY ONLY IInv DEF IInv
        <4>1. nrecv \in [Rails -> Nat] /\ rq \in [Rails -> Seq(Slots)]  BY ONLY <4>0 DEF TypeOK
        <4>2. nrecv[s] <= Len(rq[s])  BY ONLY <1>7, <4>0 DEF QueueInv
        <4>3. j \in 1 .. nrecv[s]  BY ONLY <1>2, j \in 1 .. nrecv'[s]
        <4> QED  BY ONLY <1>7, <4>1, <4>2, <4>3
      <3>2. rring[s][rq[s][j]] \in Msg /\ Matches(rring[s][rq[s][j]])
            /\ rring[s][rq[s][j]].seq = Kth(NextPolled(s), j - 1)
        BY ONLY <1>3, <2>0, <3>1 DEF RailInv
      <3>3. /\ rring'[s][rq'[s][j]] = rring[s][rq[s][j]]  BY ONLY <1>2
      <3> QED  BY ONLY <1>4, <1>5, <3>2, <3>3
    <2>2. CASE s # r
      <3>1. sq'[s] = sq[s] /\ ndeliv'[s] = ndeliv[s] /\ sring'[s] = sring[s]
        BY <1>1, <1>3, <2>2
      <3>2. \A i \in ndeliv[s] + 1 .. Len(sq[s]) : sring[s][sq[s][i]] \in Msg
        BY <1>3
      <3>3. NextSent(s)' = NextSent(s)  BY ONLY <1>5, <2>2
      <3>4. \A i \in ndeliv'[s] + 1 .. Len(sq'[s]) :
              /\ sring'[s][sq'[s][i]].seq = Kth(NextPolled(s)', nrecv'[s] + i - ndeliv'[s] - 1)
              /\ Matches(sring[s][sq[s][i]])'
        BY ONLY <1>2, <1>4, <1>5, <2>0, <3>1, <3>2 DEF RailInv
      <3>5. NextSent(s)' = Kth(NextPolled(s)', nrecv'[s] + Len(sq'[s]) - ndeliv'[s])
        BY ONLY <1>2, <1>5, <2>0, <3>1, <3>3 DEF RailInv
      <3> QED  BY ONLY <2>1, <3>4, <3>5 DEF RailInv
    <2>3. CASE s = r
      <3> DEFINE p == NextPolled(s)  v == nrecv[s]  e == ndeliv[s]
      <3>1. /\ v \in Nat /\ e \in Nat /\ e <= n /\ p \in Nat /\ NextSent(s) = send_seq
            /\ nrecv'[s] = v /\ ndeliv'[s] = e - k /\ k <= e /\ Len(sq'[s]) = n - k + 1
        <4>1. Gap(send_rail, r) = 0  BY ONLY <1>1, <1>2, RailAdvance DEF send_rail
        <4> QED  BY <1>1, <1>2, <1>3, <1>5, <2>3, <4>1 DEF QueueInv, NextSent
      <3>2. /\ NextSent(s) = Kth(p, v + n - e)
            /\ \A i \in e + 1 .. n : /\ sring[s][sq[s][i]].seq = Kth(p, v + i - e - 1)
                                     /\ Matches(sring[s][sq[s][i]])
        BY <2>0, <2>3 DEF RailInv
      <3>a. k \in {0, 1} /\ n \in Nat /\ n - k \in 0 .. rdma_queue_depth - 1  BY ONLY <1>1
      <3>b. msg.seq = Kth(p, v + n - e)  BY ONLY <1>0, <3>1, <3>2
      <3>3. ASSUME NEW i \in ndeliv'[s] + 1 .. Len(sq'[s])
            PROVE  /\ sring'[s][sq'[s][i]].seq = Kth(p, v + i - (e - k) - 1)
                   /\ Matches(sring[s][sq[s][i]])'
        <4>1. CASE i = n - k + 1
          <5>1. sring'[s][sq'[s][i]] = msg  BY ONLY <1>1, <1>3, <2>3, <4>1
          <5>2. v + i - (e - k) - 1 = v + n - e
            <6> HIDE DEF n, v, e, p
            <6> QED  BY ONLY <3>1, <3>a, <4>1
          <5> QED  BY ONLY <1>6, <3>b, <5>1, <5>2
        <4>2. CASE i # n - k + 1
          <5>1. i \in 1 .. n - k /\ i + k \in e + 1 .. n /\ i + k \in 1 .. n
            <6> HIDE DEF n, v, e, p
            <6> QED  BY ONLY <3>1, <3>a, <3>3, <4>2
          <5>2. sq'[s][i] = sq[s][i + k] /\ sq[s][i + k] \in Slots
            BY ONLY <1>1, <1>3, <2>3, <5>1
          <5>3. sq[s][i + k] # a
            <6>1. sq[s][i + k] = Back(a, n + 1 - (i + k))  BY SMTT(20), <1>1, <2>3, <5>1 DEF SlotInv
            <6>2. n + 1 - (i + k) \in 1 .. rdma_queue_depth - 1
              <7> HIDE DEF n
              <7> QED  BY <3>a, <5>1, ConstantsAssumption
            <6>3. a = Back(a, 0) /\ a \in Slots  BY <1>1 DEF Back, Slots
            <6> HIDE DEF n, a
            <6>4. Back(a, n + 1 - (i + k)) # Back(a, 0)
              <7> DEFINE d == n + 1 - (i + k)
              <7>1. d \in 0 .. rdma_queue_depth /\ 0 \in 0 .. rdma_queue_depth /\ d >= 1
                    /\ d < rdma_queue_depth /\ d # 0
                BY <6>2, ConstantsAssumption
              <7> HIDE DEF d
              <7>2. Back(a, d) # Back(a, 0)  BY ONLY <6>3, <7>1, BackInjective
              <7> QED  BY <7>2 DEF d
            <6> QED  BY ONLY <6>1, <6>3, <6>4
          <5>4. sring'[s][sq'[s][i]] = sring[s][sq[s][i + k]] /\ sring[s][sq[s][i + k]] \in Msg
            BY ONLY <1>1, <1>3, <2>3, <5>2, <5>3
          <5>5. v + i - (e - k) - 1 = v + (i + k) - e - 1
            <6> HIDE DEF n, v, e, p
            <6> QED  BY ONLY <3>1, <3>a, <5>1
          <5> QED  BY ONLY <1>4, <3>2, <5>1, <5>4, <5>5
        <4> QED  BY ONLY <4>1, <4>2
      <3>4. NextSent(s)' = Kth(p, v + Len(sq'[s]) - (e - k))
        <4>1. v + Len(sq'[s]) - (e - k) = (v + n - e) + 1 /\ v + n - e \in Int
          <5> HIDE DEF n, v, e, p
          <5> QED  BY <3>1, <3>a
        <4>2. NextSent(s)' = NextSent(s) + rail_count  BY ONLY <1>5, <2>3
        <4> DEFINE u == v + n - e
        <4>3. u \in Int /\ p \in Int /\ v + Len(sq'[s]) - (e - k) = u + 1 /\ NextSent(s) = Kth(p, u)
          BY <3>1, <3>2, <4>1
        <4> HIDE DEF p, n, v, e, u
        <4> QED  BY <4>2, <4>3, KthFacts
      <3>5. NextPolled(s)' = p  BY <1>5
      <3> QED  BY ONLY <2>1, <3>1, <3>3, <3>4, <3>5 DEF RailInv
    <2> QED  BY <2>2, <2>3
  <1> QED  BY <1>7 DEF MsgInv

\* Draining takes a delivered request off the queue; delivery moves a message
\* from the sender's side of the rail to the receiver's.
LEMMA MsgFabric ==
    ASSUME IInv, NEW r \in Rails, DrainOutstanding(r) \/ Deliver(r)
    PROVE  MsgInv'
  <1> USE DEF IInv
  <1>1. /\ sring \in [Rails -> [Slots -> Msg]] /\ ndeliv \in [Rails -> Nat] /\ nrecv \in [Rails -> Nat]
        /\ sq \in [Rails -> Seq(Slots)] /\ rring \in [Rails -> [Slots -> Msg]] /\ rq \in [Rails -> Seq(Slots)]
    BY DEF TypeOK
  <1>2. UNCHANGED <<ctl, send_seq, recv_seq, current_recv_slot, sring, rq>>
    BY DEF DrainOutstanding, Deliver, ctlVars, recvVars, rqVars, senderVars
  <1>3. \A x : Matches(x) => Matches(x)'
    BY <1>2 DEF Matches
  <1>4. \A s \in Rails : NextPolled(s)' = NextPolled(s) /\ NextSent(s)' = NextSent(s)
    BY ONLY <1>2 DEF NextPolled, NextSent, send_rail, recv_rail
  <1>5. ASSUME NEW s \in Rails, s # r PROVE RailInv(s)'
    <2>1. RailInv(s)  BY ONLY MsgInv, <1>5 DEF MsgInv
    <2>2. UNCHANGED <<sq[s], ndeliv[s], nrecv[s], rring[s], sring[s], rq[s]>>
      BY Zenon, <1>1, <1>2, <1>5 DEF DrainOutstanding, Deliver, rqVars
    <2> QED  BY ONLY <1>3, <1>4, <2>1, <2>2 DEF RailInv
  <1>6. CASE DrainOutstanding(r)
    <2> DEFINE n == Len(sq[r])  e == ndeliv[r]  p == NextPolled(r)  v == nrecv[r]
    <2>1. /\ n \in Nat /\ e \in Nat /\ v \in Nat /\ e > 0 /\ e <= n
          /\ sq'[r] = Tail(sq[r]) /\ ndeliv'[r] = e - 1 /\ UNCHANGED <<rring, nrecv>>
      <3>1. /\ n \in Nat /\ e \in Nat /\ v \in Nat /\ ndone[r] \in Nat
        BY ONLY TypeOK, r \in Rails, <1>1 DEF TypeOK
      <3>2. ndone[r] <= ndeliv[r] /\ ndeliv[r] <= Len(sq[r])  BY ONLY QueueInv, r \in Rails DEF QueueInv
      <3>3. /\ ndone[r] > 0 /\ sq'[r] = Tail(sq[r]) /\ ndeliv'[r] = e - 1 /\ UNCHANGED <<rring, nrecv>>
        BY ONLY r \in Rails, <1>1, <1>6 DEF DrainOutstanding, rqVars
      <3> QED  BY ONLY <3>1, <3>2, <3>3
    <2>2. Len(sq'[r]) = n - 1 /\ \A i \in 1 .. n - 1 : sq'[r][i] = sq[r][i + 1]
      BY ONLY <1>1, <2>1, SeqFacts
    <2>3. RailInv(r)  BY ONLY MsgInv, r \in Rails DEF MsgInv
    <2>4. ASSUME NEW i \in ndeliv'[r] + 1 .. Len(sq'[r])
          PROVE  /\ sring'[r][sq'[r][i]].seq = Kth(p, nrecv'[r] + i - ndeliv'[r] - 1)
                 /\ Matches(sring[r][sq[r][i]])'
      <3>1. i \in 1 .. n - 1 /\ i + 1 \in e + 1 .. n /\ nrecv'[r] + i - ndeliv'[r] - 1 = v + (i + 1) - e - 1
        <4> HIDE DEF n, e, v, p
        <4>1. nrecv'[r] = v  BY <2>1 DEF v
        <4> QED  BY <2>1, <2>2, <2>4, <4>1
      <3>2. sring'[r][sq'[r][i]] = sring[r][sq[r][i + 1]]  BY <1>2, <2>2, <3>1
      <3> QED  BY ONLY <1>3, <2>3, <3>1, <3>2 DEF RailInv
    <2>5. nrecv'[r] + Len(sq'[r]) - ndeliv'[r] = v + n - e
      <3>1. nrecv'[r] = v  BY ONLY <2>1
      <3> HIDE DEF n, e, v, p
      <3> QED  BY <2>1, <2>2, <3>1
    <2>6. RailInv(r)'
      <3>1. \A j \in 1 .. nrecv'[r] : /\ rring'[r][rq'[r][j]].seq = Kth(NextPolled(r)', j - 1)
                                      /\ Matches(rring[r][rq[r][j]])'
        BY ONLY <1>2, <1>3, <1>4, <2>1, <2>3 DEF RailInv
      <3>2. NextSent(r)' = Kth(NextPolled(r)', nrecv'[r] + Len(sq'[r]) - ndeliv'[r])
        BY <1>4, <2>3, <2>5 DEF RailInv
      <3> QED  BY ONLY <1>4, <2>4, <3>1, <3>2 DEF RailInv
    <2> QED  BY ONLY <1>5, <2>6 DEF MsgInv
  <1>7. CASE Deliver(r)
    <2> DEFINE n == Len(sq[r])  e == ndeliv[r]  p == NextPolled(r)  v == nrecv[r]
               d == rq[r][v + 1]  x == sring[r][sq[r][e + 1]]
    <2>1. /\ n \in Nat /\ e \in Nat /\ v \in Nat /\ e < n /\ v < Len(rq[r]) /\ Len(rq[r]) \in Nat
          /\ UNCHANGED sq /\ ndeliv'[r] = e + 1 /\ nrecv'[r] = v + 1
          /\ rring' = [rring EXCEPT ![r] = [rring[r] EXCEPT ![d] = x]]
      BY ONLY <1>1, <1>7 DEF Deliver
    <2>2. d \in Slots /\ rring'[r][d] = x /\ \A c \in Slots \ {d} : rring'[r][c] = rring[r][c]
      BY ONLY <1>1, <2>1
    <2>3. RailInv(r)  BY ONLY MsgInv, r \in Rails DEF MsgInv
    <2>4. ASSUME NEW j \in 1 .. nrecv'[r]
          PROVE  rring'[r][rq'[r][j]].seq = Kth(p, j - 1) /\ Matches(rring[r][rq[r][j]])'
      <3>1. CASE j = v + 1
        <4>1. rring'[r][rq'[r][j]] = x  BY ONLY <1>2, <2>2, <3>1
        <4>2. e + 1 \in e + 1 .. n /\ v + (e + 1) - e - 1 = j - 1
          <5> HIDE DEF n, e, v
          <5> QED  BY ONLY <2>1, <3>1
        <4>3. x.seq = Kth(p, v + (e + 1) - e - 1) /\ Matches(x)
          BY ONLY <2>3, <4>2 DEF RailInv
        <4> QED  BY ONLY <1>3, <4>1, <4>2, <4>3
      <3>2. CASE j # v + 1
        <4>1. j \in 1 .. v /\ j \in 1 .. Len(rq[r]) /\ v + 1 \in 1 .. Len(rq[r])
          <5> HIDE DEF v
          <5> QED  BY ONLY <2>1, <2>4, <3>2
        <4>2. rq[r][j] # d /\ rq[r][j] \in Slots
          BY ONLY QueueInv, r \in Rails, <1>1, <3>2, <4>1 DEF QueueInv, RecvDistinct
        <4>3. rring'[r][rq'[r][j]] = rring[r][rq[r][j]]  BY ONLY <1>2, <2>2, <4>2
        <4> QED  BY <1>3, <2>3, <4>1, <4>3 DEF RailInv
      <3> QED  BY ONLY <3>1, <3>2
    <2>5. ASSUME NEW i \in ndeliv'[r] + 1 .. Len(sq'[r])
          PROVE  /\ sring'[r][sq'[r][i]].seq = Kth(p, nrecv'[r] + i - ndeliv'[r] - 1)
                 /\ Matches(sring[r][sq[r][i]])'
      <3>1. i \in e + 1 .. n /\ nrecv'[r] + i - ndeliv'[r] - 1 = v + i - e - 1
        <4>1. /\ Len(sq'[r]) = n /\ ndeliv'[r] = e + 1 /\ nrecv'[r] = v + 1
              /\ n \in Nat /\ e \in Nat /\ v \in Nat /\ i \in ndeliv'[r] + 1 .. Len(sq'[r])
          BY <2>1, <2>5
        <4> HIDE DEF n, e, v
        <4> QED  BY ONLY <4>1
      <3>2. sring'[r][sq'[r][i]] = sring[r][sq[r][i]]  BY <1>2, <2>1
      <3> QED  BY <1>3, <2>3, <3>1, <3>2 DEF RailInv
    <2>6. nrecv'[r] + Len(sq'[r]) - ndeliv'[r] = v + n - e
      <3>1. Len(sq'[r]) = n  BY ONLY <2>1
      <3> HIDE DEF n, e, v
      <3> QED  BY <2>1, <3>1
    <2>7. RailInv(r)'
      <3>1. NextSent(r)' = Kth(NextPolled(r)', nrecv'[r] + Len(sq'[r]) - ndeliv'[r])
        BY ONLY <1>4, <2>3, <2>6 DEF RailInv
      <3> QED  BY ONLY <1>4, <2>4, <2>5, <3>1 DEF RailInv
    <2> QED  BY ONLY <1>5, <2>7 DEF MsgInv
  <1> QED  BY <1>6, <1>7

\* What begin_receive_message finds at the head of the receive queue is the
\* message of the literal being read, and it passes the header check.
LEMMA BeginFacts ==
    ASSUME IInv, BeginReceiveMessage
    PROVE  LET r == recv_rail  d == rq[r][1]  e == ctl[rpos]
           IN  /\ r \in Rails /\ rpos \in 1 .. Len(ctl) /\ e \in CtlInt /\ d \in Slots
               /\ rring[r][d].len = e.val /\ rring[r][d].start = e.start
               /\ recv_seq = e.m /\ residue + rlen = e.val /\ rlen > 0
               /\ current_recv_slot[r] < 0 /\ nrecv[r] > 0 /\ Len(rq[r]) > 0
               /\ rpc = "begin" /\ rpc' = "begin"
               /\ rq' = [rq EXCEPT ![r] = Tail(rq[r])]
               /\ nrecv' = [nrecv EXCEPT ![r] = nrecv[r] - 1]
               /\ current_recv_slot' = [current_recv_slot EXCEPT ![r] = d]
               /\ current_recv_length' = [current_recv_length EXCEPT ![r] = e.val]
               /\ current_recv_offset' = [current_recv_offset EXCEPT ![r] = 0]
  <1> USE DEF IInv
  <1> DEFINE r == recv_rail  d == rq[r][1]  e == ctl[rpos]  header == rring[r][d]
  <1>1. r \in Rails /\ rq[r] \in Seq(Slots) /\ nrecv[r] \in Nat /\ current_recv_slot[r] \in Slots \cup {-1}
    BY RailTypes DEF TypeOK
  <1>2. rpc = "begin" /\ current_recv_slot[r] < 0 /\ nrecv[r] > 0
    BY DEF BeginReceiveMessage
  <1>3. nrecv[r] <= Len(rq[r]) /\ Len(rq[r]) \in Nat  BY <1>1 DEF QueueInv
  <1>4. Len(rq[r]) > 0 /\ Head(rq[r]) = d /\ d \in Slots  BY ONLY <1>1, <1>2, <1>3, SeqFacts
  <1>5. rpos \in Nat /\ rpos # 0  BY Zenon, <1>2 DEF TypeOK, ReadInv
  <1>6. rpos \in 1 .. Len(ctl) /\ e \in CtlInt
    <2>1. rpos <= flushed /\ flushed <= Len(ctl) /\ Len(ctl) \in Nat /\ flushed \in Nat  BY DEF QueueInv, TypeOK
    <2>2. rpos \in 1 .. Len(ctl)  BY ONLY <1>5, <2>1
    <2> QED  BY <2>2 DEF TypeOK
  <1>7. recv_seq = e.m /\ residue + rlen = e.val /\ rlen > 0
    <2>1. rpos > 0 /\ ~(current_recv_slot[r] >= 0)  BY ONLY <1>1, <1>2, <1>5 DEF Slots
    <2> QED  BY <1>2, <2>1 DEF ReadInv
  <1>8. e.val > 0 /\ e.val <= rdma_chunk_size
    <2>1. residue \in Nat /\ rlen \in Nat  BY SMTT(20) DEF TypeOK
    <2>2. e.val <= rdma_chunk_size  BY <1>6 DEF CtlInv
    <2> QED  BY <1>7, <2>1, <2>2
  <1>9. header.seq = recv_seq /\ Matches(header)
    <2>1. 1 \in 1 .. nrecv[r]  BY ONLY <1>1, <1>2
    <2>2. header.seq = Kth(NextPolled(r), 1 - 1) /\ Matches(header)
      BY <1>1, <2>1 DEF MsgInv, RailInv
    <2>3. NextPolled(r) \in Int /\ Kth(NextPolled(r), 0) = NextPolled(r)
      BY <1>1, NextTypes, KthFacts
    <2>4. NextPolled(r) = recv_seq
      <3>1. recv_seq \in Nat /\ Gap(recv_rail, r) = 0  BY <1>1, RailAdvance DEF recv_rail, TypeOK
      <3>2. ~(current_recv_slot[r] >= 0)  BY ONLY <1>1, <1>2 DEF Slots
      <3> QED  BY ONLY <3>1, <3>2 DEF NextPolled
    <2> QED  BY <2>2, <2>3, <2>4
  <1>10. header.len = e.val /\ header.start = e.start
    BY ONLY <1>6, <1>7, <1>8, <1>9 DEF Matches
  <1>11. header.seq = recv_seq /\ header.len <= rdma_chunk_size  BY ONLY SMTT(20), <1>8, <1>9, <1>10
  <1>12. /\ rq' = [rq EXCEPT ![r] = Tail(rq[r])] /\ nrecv' = [nrecv EXCEPT ![r] = nrecv[r] - 1]
         /\ current_recv_slot' = [current_recv_slot EXCEPT ![r] = d]
         /\ current_recv_length' = [current_recv_length EXCEPT ![r] = header.len]
         /\ current_recv_offset' = [current_recv_offset EXCEPT ![r] = 0]
         /\ rpc' = rpc
    BY <1>4, <1>11 DEF BeginReceiveMessage
  <1> HIDE DEF r, d, e, header
  <1>13. current_recv_length' = [current_recv_length EXCEPT ![r] = e.val]  BY <1>10, <1>12
  <1>14. rring[r][d].len = e.val /\ rring[r][d].start = e.start  BY <1>10 DEF header
  <1> QED  BY ONLY Zenon, <1>1, <1>2, <1>4, <1>6, <1>7, <1>12, <1>13, <1>14 DEF r, d, e

\* Polling the message recv_seq makes the next one of its rail the next to poll.
LEMMA MsgBegin ==
    ASSUME IInv, BeginReceiveMessage
    PROVE  MsgInv'
  <1>0. TypeOK /\ QueueInv /\ MsgInv  BY DEF IInv
  <1> SUFFICES ASSUME NEW r \in Rails, r = recv_rail PROVE MsgInv'
    BY SMTT(20), <1>0, RailTypes
  <1> DEFINE d == rq[r][1]
  <1>1. /\ r \in Rails /\ d \in Slots /\ current_recv_slot[r] < 0 /\ nrecv[r] > 0 /\ Len(rq[r]) > 0
        /\ rq' = [rq EXCEPT ![r] = Tail(rq[r])]
        /\ nrecv' = [nrecv EXCEPT ![r] = nrecv[r] - 1]
        /\ current_recv_slot' = [current_recv_slot EXCEPT ![r] = d]
    BY BeginFacts
  <1>2. /\ sring \in [Rails -> [Slots -> Msg]] /\ ndeliv \in [Rails -> Nat] /\ nrecv \in [Rails -> Nat]
        /\ sq \in [Rails -> Seq(Slots)] /\ rring \in [Rails -> [Slots -> Msg]] /\ rq \in [Rails -> Seq(Slots)]
        /\ current_recv_slot \in [Rails -> Slots \cup {-1}] /\ recv_seq \in Nat
    BY ONLY <1>0 DEF TypeOK
  <1>3. UNCHANGED <<ctl, send_seq, recv_seq, sring, sq, ndeliv, rring>>
    BY DEF BeginReceiveMessage, senderVars, qpVars, ctlVars
  <1>4. \A x : Matches(x) => Matches(x)'
    BY <1>3 DEF Matches
  <1>5. \A s \in Rails : NextSent(s)' = NextSent(s)  BY <1>3 DEF NextSent, send_rail
  <1>6. /\ \A s \in Rails \ {r} : NextPolled(s)' = NextPolled(s)
        /\ NextPolled(r)' = NextPolled(r) + rail_count /\ NextPolled(r) \in Nat
    <2>1. \A s \in Rails \ {r} : current_recv_slot'[s] = current_recv_slot[s]  BY <1>1, <1>2
    <2>2. current_recv_slot'[r] >= 0 /\ ~(current_recv_slot[r] >= 0)
      <3>1. current_recv_slot'[r] = d /\ d \in Slots /\ current_recv_slot[r] \in Slots \cup {-1}
            /\ current_recv_slot[r] < 0
        BY <1>1, <1>2
      <3> HIDE DEF d
      <3> QED  BY <3>1 DEF Slots
    <2>3. recv_seq + Gap(recv_rail, r) \in Nat  BY <1>1, <1>2, RailAdvance DEF recv_rail
    <2>4. \A s \in Rails : recv_seq' + Gap(recv_rail', s) = recv_seq + Gap(recv_rail, s)
      BY <1>3 DEF recv_rail
    <2>5. \A s \in Rails \ {r} : NextPolled(s)' = NextPolled(s)
      BY <1>3, <2>1 DEF NextPolled, recv_rail
    <2>6. NextPolled(r)' = recv_seq' + Gap(recv_rail', r) + rail_count
      BY <1>3, <2>2 DEF NextPolled, recv_rail
    <2>7. NextPolled(r) = recv_seq + Gap(recv_rail, r)
      <3>1. NextPolled(r) = recv_seq + Gap(recv_rail, r) + 0  BY ONLY <2>2 DEF NextPolled
      <3> QED  BY <2>3, <3>1
    <2> QED  BY <1>1, <2>3, <2>4, <2>5, <2>6, <2>7
  <1>7. ASSUME NEW s \in Rails, s # r PROVE RailInv(s)'
    <2>1. RailInv(s)  BY <1>0 DEF MsgInv
    <2>2. UNCHANGED <<sq[s], ndeliv[s], nrecv[s], rring[s], sring[s], rq[s]>>
      BY ONLY <1>1, <1>2, <1>3, <1>7
    <2> QED  BY ONLY <1>4, <1>5, <1>6, <1>7, <2>1, <2>2 DEF RailInv
  <1>8. RailInv(r)'
    <2> DEFINE n == Len(sq[r])  e == ndeliv[r]  p == NextPolled(r)  v == nrecv[r]  c == rail_count
    <2>1. /\ n \in Nat /\ e \in Nat /\ v \in Nat /\ v > 0 /\ v <= Len(rq[r]) /\ Len(rq[r]) \in Nat
          /\ nrecv'[r] = v - 1 /\ rq'[r] = Tail(rq[r]) /\ p \in Nat /\ c \in Nat
      BY <1>0, <1>1, <1>2, <1>6, ConstantsAssumption DEF QueueInv
    <2>2. RailInv(r)  BY ONLY <1>0, <1>1 DEF MsgInv
    <2>3. \A j \in 1 .. v - 1 : rq'[r][j] = rq[r][j + 1]  BY <1>1, <1>2, <2>1, SeqFacts
    <2>4. \A k \in Int : Kth(p + c, k) = Kth(p, k + 1)  BY ONLY <2>1, KthFacts
    <2>5. ASSUME NEW j \in 1 .. nrecv'[r]
          PROVE  rring'[r][rq'[r][j]].seq = Kth(p + c, j - 1) /\ Matches(rring[r][rq[r][j]])'
      <3>1. j \in 1 .. v - 1 /\ j + 1 \in 1 .. v /\ j - 1 \in Int /\ (j - 1) + 1 = (j + 1) - 1
        <4> HIDE DEF v
        <4> QED  BY ONLY <2>1, <2>5
      <3>2. rring'[r][rq'[r][j]] = rring[r][rq[r][j + 1]]  BY ONLY <1>3, <2>3, <3>1
      <3>3. rring[r][rq[r][j + 1]].seq = Kth(p, (j + 1) - 1) /\ Matches(rring[r][rq[r][j + 1]])
        BY <2>2, <3>1 DEF RailInv
      <3>4. Kth(p + c, j - 1) = Kth(p, (j + 1) - 1)  BY ONLY <2>4, <3>1
      <3> QED  BY <1>4, <3>2, <3>3, <3>4
    <2>6. ASSUME NEW i \in ndeliv'[r] + 1 .. Len(sq'[r])
          PROVE  /\ sring'[r][sq'[r][i]].seq = Kth(p + c, nrecv'[r] + i - ndeliv'[r] - 1)
                 /\ Matches(sring[r][sq[r][i]])'
      <3>0. ndeliv'[r] = e /\ Len(sq'[r]) = n /\ nrecv'[r] = v - 1  BY ONLY <1>3, <2>1
      <3>1. /\ i \in e + 1 .. n /\ nrecv'[r] + i - ndeliv'[r] - 1 \in Int
            /\ (nrecv'[r] + i - ndeliv'[r] - 1) + 1 = v + i - e - 1
        <4>1. i \in e + 1 .. n  BY <2>6, <3>0
        <4> HIDE DEF n, e, v
        <4> QED  BY ONLY <2>1, <3>0, <4>1
      <3>2. sring'[r][sq'[r][i]] = sring[r][sq[r][i]]  BY ONLY <1>3
      <3>3. sring[r][sq[r][i]].seq = Kth(p, v + i - e - 1) /\ Matches(sring[r][sq[r][i]])
        BY ONLY <2>2, <3>1 DEF RailInv
      <3>4. Kth(p + c, nrecv'[r] + i - ndeliv'[r] - 1) = Kth(p, v + i - e - 1)
        <4> HIDE DEF p, c, n, v, e
        <4> QED  BY ONLY <2>4, <3>1
      <3> QED  BY ONLY <1>4, <3>2, <3>3, <3>4
    <2>7. NextSent(r)' = Kth(p + c, nrecv'[r] + Len(sq'[r]) - ndeliv'[r])
      <3>0. ndeliv'[r] = e /\ Len(sq'[r]) = n /\ nrecv'[r] = v - 1  BY ONLY <1>3, <2>1
      <3>1. NextSent(r)' = Kth(p, v + n - e)  BY <1>1, <1>5, <2>2 DEF RailInv
      <3> HIDE DEF p, c, n, v, e
      <3>2. v - 1 + n - e \in Int /\ (v - 1 + n - e) + 1 = v + n - e  BY <2>1
      <3>3. Kth(p + c, v - 1 + n - e) = Kth(p, v + n - e)  BY <2>4, <3>2
      <3> QED  BY <3>0, <3>1, <3>3
    <2>8. NextPolled(r)' = p + c  BY <1>6
    <2> QED  BY ONLY <2>5, <2>6, <2>7, <2>8 DEF RailInv
  <1> QED  BY <1>7, <1>8 DEF MsgInv
=============================================================================
