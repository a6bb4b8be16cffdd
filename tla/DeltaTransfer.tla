--------------------------- MODULE DeltaTransfer ---------------------------
(***************************************************************************)
(* The delta algorithm for one file: the block sums the generator computes *)
(* (generator.c), the sender's rolling search for them in the source file  *)
(* (match.c), and the receiver rebuilding the file from literals and block *)
(* numbers (receiver.c), with in-place updating and append mode.           *)
(*                                                                         *)
(* The sender and the receiver of one file share nothing but the token     *)
(* stream, so the receiver is run here once the sender has finished: every *)
(* interleaving of the two gives the same results.                         *)
(*                                                                         *)
(* Offsets and block numbers count from 0 as in the code; At(f, o, n) is   *)
(* the n bytes of f at offset o.                                           *)
(***************************************************************************)
EXTENDS Integers, Sequences, FiniteSets, SequencesExt

CONSTANTS
    Bytes,          \* signed byte values: the weak sum uses schar
    MaxSource,      \* bounds on the lengths of the two files
    MaxBasis,
    BlockLengths,   \* the values sum.blength may have
    SumLengths,     \* the values sum.s2length may have
    SumRange,       \* each half of the weak sum is kept modulo this (2^16)
    CHUNK_SIZE,
    MAX_CHAIN_LEN,
    LiteralStep,    \* what rdma_literal_chunk_size() returns
    Modes           \* pairs <<updating_basis_file, append_mode>>

ASSUME DeltaConstants ==
    /\ Bytes \subseteq Int
    /\ {MaxSource, MaxBasis, SumRange, CHUNK_SIZE, MAX_CHAIN_LEN, LiteralStep} \subseteq Nat \ {0}
    /\ BlockLengths \subseteq Nat \ {0} /\ SumLengths \subseteq Nat
    /\ Modes \subseteq BOOLEAN \X (0 .. 2)

VARIABLES
    job,        \* the files and settings of this transfer
    sums,       \* struct sum_buf of each block, as the sender received them
    pc,         \* where the sender is
    offset, k, s1, s2, want_i,      \* locals of hash_search
    pos, chain_len,                 \* the chain walk at this offset
    hash_table,                     \* chains of block numbers, newest first
    same,                           \* blocks with SUMFLG_SAME_OFFSET
    out,        \* what matched() has sent, last_match, and buf->status # 0
    dst, r_offset, r_sum, verdict   \* the receiver: file, position, digest, result

searching == <<offset, k, s1, s2, want_i, pos, chain_len, hash_table, same>>
receiving == <<dst, r_offset, r_sum, verdict>>
vars == <<job, sums, pc, searching, out, receiving>>

Least(a, b) == IF a <= b THEN a ELSE b
At(f, o, n) == SubSeq(f, o + 1, o + n)
Files(max) == UNION {[1 .. n -> Bytes] : n \in 0 .. max}

src == job.src
len == Len(job.src)
blength == job.blength
inplace == job.inplace
count == Cardinality(DOMAIN sums)
flength == Len(job.basis)

----------------------------------------------------------------------------
(* Sums.                                                                   *)

\* Both halves of the weak sum of b.
get_checksum1(b) ==
    LET acc == FoldLeft(LAMBDA a, x : <<a[1] + x, a[2] + a[1] + x>>, <<0, 0>>, b)
    IN  <<acc[1] % SumRange, acc[2] % SumRange>>

\* The strong sum as far as it is sent: equal for blocks that agree on their
\* first n bytes.  n = 0 is a sum that always collides, n >= Len(b) one that
\* never does.
get_checksum2(b, n) == SubSeq(b, 1, Least(n, Len(b)))

\* The sums of the basis file f in blocks of bl bytes, the last one short.
generate_and_send_sums(f, bl, s2len) ==
    [i \in 0 .. ((Len(f) + bl - 1) \div bl) - 1 |->
        LET n == Least(bl, Len(f) - i * bl)
            b == At(f, i * bl, n)
        IN  [offset |-> i * bl, len |-> n,
             sum1 |-> get_checksum1(b), sum2 |-> get_checksum2(b, s2len)]]

SUM2HASH2(a, b) == (a + b) % SumRange

\* Each block is put at the head of its chain, so a chain runs downwards.
build_hash_table(ss) ==
    [h \in 0 .. SumRange - 1 |->
        SelectSeq([n \in 1 .. Cardinality(DOMAIN ss) |-> Cardinality(DOMAIN ss) - n],
                  LAMBDA i : SUM2HASH2(ss[i].sum1[1], ss[i].sum1[2]) = h)]

----------------------------------------------------------------------------
(* The sender.                                                             *)

Literal(d) == [kind |-> "data", data |-> d]
Block(i) == [kind |-> "block", data |-> i]
EndToken == [kind |-> "end", data |-> 0]

\* matched(): the literal up to o, then block i, or the end of the file for
\* i = -1, or nothing for i = -2.  The digest is fed through map_ptr, which
\* records an error when it is asked for bytes past the end of the file.
matched(m, o, i) ==
    LET n == o - m.last_match
        upto == IF i >= 0 THEN o + sums[i].len ELSE o
    IN  [toks |-> m.toks
                    \o (IF n > 0 THEN <<Literal(At(src, m.last_match, n))>> ELSE <<>>)
                    \o (IF i >= 0 THEN <<Block(i)>> ELSE <<>>)
                    \o (IF i = -1 THEN <<EndToken>> ELSE <<>>),
         last_match |-> upto,
         bad |-> m.bad \/ upto > len]

\* The digest of what was fed to it.  With the checksum "none" it is one zero
\* byte whatever that was (job.digest is FALSE).
sum_end(fed) == IF job.digest THEN fed ELSE <<>>

\* The digest sent after the tokens.  Append mode 1 leaves out the part of
\* the file that is already there; a read error spoils it.
sender_file_sum ==
    IF out.bad THEN <<"bad">>
    ELSE sum_end(IF job.append = 1 THEN At(src, flength, len - flength) ELSE src)

\* Block sums also where nothing verifies what they lead to.
SumsWithoutDigest(j) ==
    {<<>>} \cup (IF j.append > 0 THEN {}
                 ELSE {generate_and_send_sums(j.basis, j.blength, j.s2length)})

\* The sums the generator may send.  A whole-file transfer has none, and with
\* the checksum "none" every transfer is one; appending ignores them.
SumsFor(j) ==
    {<<>>} \cup (IF j.append > 0 \/ ~j.digest THEN {}
                 ELSE {generate_and_send_sums(j.basis, j.blength, j.s2length)})

Init ==
    /\ job \in {j \in [src : Files(MaxSource), basis : Files(MaxBasis), blength : BlockLengths,
                       s2length : SumLengths, inplace : BOOLEAN, append : 0 .. 2,
                       digest : BOOLEAN] :
                    /\ <<j.inplace, j.append>> \in Modes
                    /\ j.append > 0 => Len(j.basis) < Len(j.src)}
    /\ sums \in SumsFor(job)
    /\ pc = "match_sums"
    /\ offset = 0 /\ k = 0 /\ s1 = 0 /\ s2 = 0 /\ want_i = 0
    /\ pos = 0 /\ chain_len = 0
    /\ hash_table = build_hash_table(<<>>)
    /\ same = {}
    /\ out = [toks |-> <<>>, last_match |-> 0, bad |-> FALSE]
    /\ dst = IF job.inplace THEN job.basis ELSE <<>>
    /\ r_offset = IF job.append > 0 THEN Len(job.basis) ELSE 0
    /\ r_sum = IF job.append = 2 THEN job.basis ELSE <<>>
    /\ verdict = "none"

\* match_sums() with sums to search for: build the table, and start
\* hash_search() at offset 0.
StartSearch ==
    /\ pc = "match_sums" /\ len > 0 /\ count > 0
    /\ hash_table' = build_hash_table(sums)
    /\ k' = Least(len, blength)
    /\ LET sum == get_checksum1(At(src, 0, k'))
       IN  s1' = sum[1] /\ s2' = sum[2]
    /\ pc' = "lookup"
    /\ UNCHANGED <<job, sums, offset, want_i, pos, chain_len, same, out, receiving>>

\* match_sums() without: the rest of the file in pieces of LiteralStep.
SendPieces ==
    LET from == IF job.append > 0 THEN flength ELSE 0
        pieces == (len - from - 1) \div LiteralStep
        piece(m, n) == matched(m, from + n * LiteralStep, -2)
        start == [out EXCEPT !.last_match = from]
    IN  /\ pc = "match_sums" /\ (len = 0 \/ count = 0)
        /\ out' = matched(FoldLeft(piece, start, [n \in 1 .. pieces |-> n]), len, -1)
        /\ pc' = "sent"
        /\ UNCHANGED <<job, sums, searching, receiving>>

\* The chain of this offset's weak sum; an empty one goes to null_hash.
LookUp ==
    /\ pc = "lookup"
    /\ pc' = IF hash_table[SUM2HASH2(s1, s2)] = <<>> THEN "null_hash" ELSE "chain"
    /\ pos' = 1 /\ chain_len' = 0
    /\ UNCHANGED <<job, sums, offset, k, s1, s2, want_i, hash_table, same, out, receiving>>

hash_entry == SUM2HASH2(s1, s2)
chain == hash_table[hash_entry]
block_length == Least(blength, len - offset)     \* l
here == At(src, offset, block_length)
sum2 == get_checksum2(here, job.s2length)

NeverBypassed(i) == FALSE
\* In-place: a block behind us is gone unless it was found at its own offset.
Bypassed(i) == inplace /\ sums[i].offset < offset /\ i \notin same

\* Leave the chain when it is used up.
ChainEnds ==
    /\ pc = "chain" /\ pos > Len(chain)
    /\ pc' = "null_hash"
    /\ UNCHANGED <<job, sums, searching, out, receiving>>

\* The walk comes back to the entry it meant to drop.
Requeued(c, p) == Append(RemoveAt(c, p), c[p])

\* *prev = s->sums[i].chain
Unlinked(c, p) == RemoveAt(c, p)

\* A bypassed entry is unlinked; the walk goes on with the one after it.
Unlink ==
    /\ pc = "chain" /\ pos <= Len(chain) /\ Bypassed(chain[pos])
    /\ hash_table' = [hash_table EXCEPT ![hash_entry] = Unlinked(@, pos)]
    /\ UNCHANGED <<job, sums, pc, offset, k, s1, s2, want_i, pos, chain_len, same,
                   out, receiving>>

OnChain == pc = "chain" /\ pos <= Len(chain) /\ ~Bypassed(chain[pos])
WeakHit == <<s1, s2>> = sums[chain[pos]].sum1
TooLong == chain_len + 1 > MAX_CHAIN_LEN
StrongHit == block_length = sums[chain[pos]].len /\ sum2 = sums[chain[pos]].sum2

\* The block at this place of the chain is not the one: try the next, or give
\* this offset up after MAX_CHAIN_LEN hits of the weak sum.
Reject ==
    /\ OnChain /\ (WeakHit => TooLong \/ ~StrongHit)
    /\ IF WeakHit /\ TooLong
         THEN pc' = "null_hash" /\ UNCHANGED pos
         ELSE pos' = pos + 1 /\ UNCHANGED pc
    /\ chain_len' = IF WeakHit THEN chain_len + 1 ELSE chain_len
    /\ UNCHANGED <<job, sums, offset, k, s1, s2, want_i, hash_table, same, out, receiving>>

\* The first block boundary at or after the current offset, where the code's
\* aligned_offset/aligned_i loop stops.
aligned_i == (offset + blength - 1) \div blength
aligned_offset == aligned_i * blength

FitsWeakly(i) == <<s1, s2>> = sums[i].sum1 /\ block_length = sums[i].len

Fits(i) == /\ <<s1, s2>> = sums[i].sum1
           /\ block_length = sums[i].len
           /\ sum2 = sums[i].sum2

\* What hash_search makes of a hit on block i before it looks at want_i: the
\* block, the offset, and the values its variables sum, sum2, want_i and the
\* set same then have.  In-place, the block at the same offset is preferred;
\* on a hit of a zero weak sum, so is skipping ahead to the next boundary if
\* that block is found there too.
Aligned(i) ==
    LET sum == <<s1, s2>>
        tried == /\ inplace /\ aligned_i < count
                 /\ \/ offset = aligned_offset
                    \/ /\ sum = <<0, 0>> /\ block_length = blength
                       /\ aligned_offset + block_length <= len
        ours == tried /\ (i = aligned_i \/ Fits(aligned_i))
        ahead == ours /\ offset # aligned_offset
        there == At(src, aligned_offset, block_length)
        sumThere == get_checksum1(there)
        sum2There == get_checksum2(there, job.s2length)
        weak == ahead => sumThere = sums[aligned_i].sum1
        strong == ahead /\ weak => sum2There = sums[aligned_i].sum2
        settled == ours /\ weak /\ strong
    IN  [i |-> IF ours THEN aligned_i ELSE i,
         offset |-> IF settled THEN aligned_offset ELSE offset,
         sum |-> IF ahead THEN sumThere ELSE sum,
         sum2 |-> IF ahead /\ weak THEN sum2There ELSE sum2,
         want_i |-> IF settled THEN aligned_i ELSE want_i,
         same |-> IF settled THEN same \cup {aligned_i} ELSE same]

WeakBetterMatch(a) ==
    /\ a.i # a.want_i /\ a.want_i < count
    /\ ~inplace \/ sums[a.want_i].offset >= a.offset \/ a.want_i \in a.same
    /\ a.sum = sums[a.want_i].sum1

\* check_want_i: prefer the block after the last match.
BetterMatch(a) ==
    /\ a.i # a.want_i /\ a.want_i < count
    /\ ~inplace \/ sums[a.want_i].offset >= a.offset \/ a.want_i \in a.same
    /\ a.sum = sums[a.want_i].sum1
    /\ a.sum2 = sums[a.want_i].sum2

\* A match: send it, and restart the rolling sum on its last byte.  map_ptr()
\* ends the program when it is asked for a negative length, and an empty
\* window is dereferenced.
Found ==
    /\ OnChain /\ WeakHit /\ ~TooLong /\ StrongHit
    /\ LET a == Aligned(chain[pos])
           i == IF BetterMatch(a) THEN a.want_i ELSE a.i
           o == a.offset + sums[i].len - 1
           n == Least(blength, len - o)
           sum == get_checksum1(At(src, o, n))
       IN  /\ out' = matched(out, a.offset, i)
           /\ same' = a.same
           /\ want_i' = i + 1
           /\ offset' = o
           /\ IF n > 0
                THEN /\ k' = n /\ s1' = sum[1] /\ s2' = sum[2]
                     /\ pc' = "null_hash"
                ELSE /\ pc' = "exit"
                     /\ UNCHANGED <<k, s1, s2>>
    /\ chain_len' = chain_len + 1
    /\ UNCHANGED <<job, sums, pos, hash_table, receiving>>

\* The first byte leaves the sum.
TrimmedAtFullLength == <<s1 - src[offset + 1], s2 - blength * src[offset + 1]>>
Trimmed == <<s1 - src[offset + 1], s2 - k * src[offset + 1]>>

\* No block begins at or after this offset: the last one is the shortest.
OneTooFar == len + 2 - sums[count - 1].len
end == len + 1 - sums[count - 1].len

\* null_hash: roll the sum one byte on, send a long literal early, and leave
\* the loop when no block fits any more.
Roll ==
    LET backup == offset - out.last_match
        more == offset + k < len
        early == backup >= blength + CHUNK_SIZE /\ end - offset > CHUNK_SIZE
        m == IF early THEN matched(out, offset - blength, -2) ELSE out
        r1 == Trimmed[1] + (IF more THEN src[offset + k + 1] ELSE 0)
        r2 == Trimmed[2] + (IF more THEN r1 ELSE 0)
    IN  /\ pc = "null_hash"
        /\ s1' = r1 % SumRange
        /\ s2' = r2 % SumRange
        /\ k' = IF more THEN k ELSE k - 1
        /\ offset' = offset + 1
        /\ IF offset + 1 < end
             THEN out' = m /\ pc' = "lookup"
             ELSE out' = matched(m, len, -1) /\ pc' = "sent"
        /\ UNCHANGED <<job, sums, want_i, pos, chain_len, hash_table, same, receiving>>

----------------------------------------------------------------------------
(* The receiver.                                                           *)

write_file(f, o, d) ==
    [n \in 1 .. (IF Len(f) > o + Len(d) THEN Len(f) ELSE o + Len(d)) |->
        IF n \in o + 1 .. o + Len(d) THEN d[n - o] ELSE f[n]]

\* What map_ptr() may return for block i of the basis.  When the basis is the
\* file being written, each byte is the one now in the file, or still the old
\* one: the map window may have been filled before the byte was written, and
\* the write may still be buffered.
map_ptr(i) ==
    LET o == i * blength
        n == IF i = count - 1 THEN flength - o ELSE blength
        old == At(job.basis, o, n)
        now == At(dst, o, n)
    IN  IF inplace THEN {b \in [1 .. n -> Bytes] : \A x \in 1 .. n : b[x] \in {old[x], now[x]}}
        ELSE {old}

SenderDone == pc \in {"sent", "exit"}
Token == Head(out.toks)

RecvLiteral ==
    /\ SenderDone /\ out.toks # <<>> /\ Token.kind = "data"
    /\ dst' = write_file(dst, r_offset, Token.data)
    /\ r_sum' = r_sum \o Token.data
    /\ r_offset' = r_offset + Len(Token.data)
    /\ out' = [out EXCEPT !.toks = Tail(@)]
    /\ UNCHANGED <<job, sums, pc, searching, verdict>>

\* A block is copied from the basis; in-place, a block that is already in its
\* place is only seeked past.
RecvBlock ==
    /\ SenderDone /\ out.toks # <<>> /\ Token.kind = "block"
    /\ \E map \in map_ptr(Token.data) :
        /\ dst' = IF inplace /\ r_offset = Token.data * blength THEN dst
                  ELSE write_file(dst, r_offset, map)
        /\ r_sum' = r_sum \o map
        /\ r_offset' = r_offset + Len(map)
    /\ out' = [out EXCEPT !.toks = Tail(@)]
    /\ UNCHANGED <<job, sums, pc, searching, verdict>>

\* do_ftruncate(): in-place, the new data may be shorter than the old.
Untruncated == dst
Truncated == IF inplace THEN At(dst, 0, r_offset) ELSE dst

\* The end: cut an in-place file to its new length, compare the digests.
RecvEnd ==
    /\ SenderDone /\ out.toks # <<>> /\ Token.kind = "end"
    /\ dst' = Truncated
    /\ verdict' = IF sum_end(r_sum) = sender_file_sum THEN "ok" ELSE "failed"
    /\ out' = [out EXCEPT !.toks = Tail(@)]
    /\ UNCHANGED <<job, sums, pc, searching, r_offset, r_sum>>

Done == SenderDone /\ out.toks = <<>>

\* Nothing is left to do for this file.
Finished == Done /\ UNCHANGED vars

Next ==
    \/ StartSearch \/ SendPieces \/ LookUp \/ ChainEnds \/ Unlink \/ Reject
    \/ Found \/ Roll
    \/ RecvLiteral \/ RecvBlock \/ RecvEnd \/ Finished

Spec == Init /\ [][Next]_vars

----------------------------------------------------------------------------
(* Properties.                                                             *)

Weak == 0 .. SumRange - 1

\* Every variable keeps its type; the window never leaves the source file.
TypeOK ==
    /\ pc \in {"match_sums", "lookup", "chain", "null_hash", "sent", "exit"}
    /\ {s1, s2} \subseteq Weak
    /\ k \in 0 .. blength
    /\ want_i \in 0 .. count
    /\ same \subseteq DOMAIN sums
    /\ pc \in {"lookup", "chain", "null_hash"} => offset \in 0 .. len - 1
    /\ out.last_match \in Nat /\ out.bad \in BOOLEAN
    /\ dst \in Seq(Bytes) /\ r_offset \in 0 .. Len(dst)
    /\ verdict \in {"none", "ok", "failed"}

\* The sum hash_search rolls from byte to byte, through restarts after a match
\* and the shrinking window at the end of the file, is at every offset the
\* weak sum of the bytes at that offset.
RollingSum ==
    pc \in {"lookup", "chain"} =>
        /\ k = block_length
        /\ <<s1, s2>> = get_checksum1(here)

Exact == job.s2length >= blength

\* When strong sums do not collide, a transfer that does not overwrite its own
\* basis rebuilds the source file and verifies it, whatever the weak sums, the
\* early literals and the chain limit of hash_search do.
Rebuilt == Exact /\ ~inplace /\ Done => verdict = "ok" /\ dst = src

\* The same for a transfer that updates the file in place.
RebuiltInPlace ==
    Exact /\ inplace /\ job.append = 0 /\ Done => verdict = "ok" /\ dst = src

\* The weak sum of some block-long window of the source is zero although the
\* window is not all zeros.
FalseZero ==
    \E o \in 0 .. len - blength :
        /\ get_checksum1(At(src, o, blength)) = <<0, 0>>
        /\ \E x \in 1 .. blength : src[o + x] # 0

\* In place the source is rebuilt unless such a window misleads the search for
\* zeros that hash_search uses to get back in step with the basis.
RebuiltInPlaceUnlessFalseZero == ~FalseZero => RebuiltInPlace

\* Whatever block sums collide, a file receive_data() reports as good is the
\* source file: where there is a transfer digest because that covers it, and with
\* the checksum "none" because the transfer is then a whole-file one.  Nothing is
\* promised of the part that was there before an append in append mode 1, which
\* never looks at it, nor in append mode 2 (append-verify) without a digest.
VerifiedIsSource ==
    verdict = "ok" =>
        /\ Len(dst) = len
        /\ LET from == IF job.append = 1 \/ (job.append = 2 /\ ~job.digest) THEN flength ELSE 0
           IN  At(dst, from, len - from) = At(src, from, len - from)

\* In-place: a block the receiver is told to copy still holds the bytes whose
\* sums the generator sent, also when some of the file was already rewritten.
CopiedBlockIntact ==
    SenderDone /\ out.toks # <<>> /\ Token.kind = "block" =>
        Cardinality(map_ptr(Token.data)) = 1

\* A block sent for some place is as long as the window it was found in: the
\* search never sends a block that reaches past the end of the source file.
MatchedLengthsAgree == pc # "exit" /\ ~out.bad

Rank == [match_sums |-> 3, lookup |-> 2, chain |-> 1, null_hash |-> 0, sent |-> 0, exit |-> 0]
ChainLeft == IF pc = "chain" THEN Len(chain) - pos ELSE 0

\* hash_search terminates: no step goes back in the file, and a step that stays
\* at its offset comes nearer to the end of the work there, also when it drops
\* entries from the chain it walks or jumps ahead to re-align.
SearchAdvances ==
    [][~SenderDone =>
        \/ offset' > offset
        \/ /\ offset' = offset
           /\ \/ Rank[pc'] < Rank[pc]
              \/ pc' = pc /\ ChainLeft' < ChainLeft]_vars
=============================================================================
