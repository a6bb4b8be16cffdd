----------------------------- MODULE RdmaBulkMC -----------------------------
(***************************************************************************)
(* Small instances of RdmaBulk for TLC, and the refinement of TokenStream. *)
(***************************************************************************)
EXTENDS RdmaBulkInv

\* The piece being handed out has left simple_recv_token's residue already.
Stream == INSTANCE TokenStream WITH
    Ints   <- -1 .. rdma_chunk_size,
    sent   <- [i \in 1 .. Len(ctl) |-> [val |-> ctl[i].val, start |-> ctl[i].start]],
    rd     <- rpos,
    res    <- IF rpc = "exit" THEN 0
              ELSE residue + (IF rpc = "token" THEN 0 ELSE rlen),
    piece  <- got,
    failed <- rpc = "exit"

\* With RDMA active, sender and receiver together behave as the token coder on
\* the ordinary path does: the same integers and the same literal bytes, piece
\* by piece, in the same order.
StreamSpec == Stream!SSpec

=============================================================================
