---------------------------- MODULE TokenStream ----------------------------
(***************************************************************************)
(* What the uncompressed token coder promises its callers on the ordinary  *)
(* rsync-over-SSH path (token.c): one in-order stream of integers in which *)
(* every positive integer is followed by that many literal bytes.  The     *)
(* decoder hands a literal out in pieces of at most CHUNK_SIZE bytes.      *)
(***************************************************************************)
EXTENDS Integers, Sequences

CONSTANTS
    CHUNK_SIZE,  \* largest piece the decoder hands out
    Ints         \* what write_int may carry

VARIABLES
    sent,    \* the integers written, each with the position of its literal
    rd,      \* how many of them have been read
    res,     \* bytes of the current literal not handed out (residue)
    piece,   \* the last piece handed out
    failed   \* the decoding process gave up

streamVars == <<sent, rd, res, piece, failed>>

\* Where in the literal stream the next literal begins.
NextStart(s) ==
    IF s = << >> THEN 0
    ELSE s[Len(s)].start + (IF s[Len(s)].val > 0 THEN s[Len(s)].val ELSE 0)

SInit ==
    /\ sent = << >> /\ rd = 0 /\ res = 0
    /\ piece = [start |-> 0, len |-> 0]
    /\ failed = FALSE

\* simple_send_token writes a literal length and its bytes, or a token.
Send(x) ==
    /\ sent' = Append(sent, [val |-> x, start |-> NextStart(sent)])
    /\ UNCHANGED <<rd, res, piece, failed>>

\* simple_recv_token reads the next integer.
RecvInt ==
    /\ ~failed /\ res = 0 /\ rd < Len(sent)
    /\ rd' = rd + 1
    /\ res' = IF sent[rd + 1].val > 0 THEN sent[rd + 1].val ELSE 0
    /\ UNCHANGED <<sent, piece, failed>>

\* It hands out the next MIN(CHUNK_SIZE, residue) bytes of the literal.
RecvPiece ==
    LET n == IF CHUNK_SIZE <= res THEN CHUNK_SIZE ELSE res
    IN  /\ ~failed /\ res > 0
        /\ piece' = [start |-> sent[rd].start + sent[rd].val - res, len |-> n]
        /\ res' = res - n
        /\ UNCHANGED <<sent, rd, failed>>

\* The process ends in exit_cleanup.
Fail ==
    /\ ~failed /\ failed' = TRUE /\ res' = 0
    /\ UNCHANGED <<sent, rd, piece>>

SNext == (\E x \in Ints : Send(x)) \/ RecvInt \/ RecvPiece \/ Fail

SSpec == SInit /\ [][SNext]_streamVars

=============================================================================
