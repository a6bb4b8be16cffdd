----------------------------- MODULE RdmaSetup -----------------------------
(***************************************************************************)
(* How the two ends of a transfer agree to use RDMA (rdma.c): the          *)
(* capability letter and compatibility flag, the preflight over the SSH    *)
(* stream, the fork of the receiving side, and the activation of each rail *)
(* over a bootstrap connection.  "C" is the command side, "S" the remote   *)
(* side; either may be the data sender.                                    *)
(***************************************************************************)
EXTENDS Integers, Sequences, FiniteSets

CONSTANTS
    MaxCandidates,  \* bound: usable RoCE devices of a side
    Rates,          \* link rates of a side's first device
    ReadyTimeouts   \* may the wait for the peer's ready byte run out?

ASSUME SetupAssumption ==
    /\ MaxCandidates \in Nat
    /\ Rates \subseteq Nat
    /\ ReadyTimeouts \in BOOLEAN

RDMA_MAX_RAILS == 2
Sides == {"C", "S"}
Peer(p) == IF p = "C" THEN "S" ELSE "C"

VARIABLES
    cfg,        \* the options and the hardware of this invocation
    pc,         \* where each side is
    c2s, s2c,   \* SSH stream before multiplexing
    endpoints,  \* candidates with a listener that the server offered
    rail_count, \* per side
    listening,  \* who holds the listeners open: "S", and after a fork "G"
    rail,       \* per side: the rail rdma_activate works on
    paths,      \* per side: rails with verbs resources
    conn,       \* rails whose bootstrap connection the client has dialled
    record, ready, closed, \* per side: rails on whose connection it wrote its
                           \* QP record, its ready byte, or has closed
    qp_up,      \* per side: rails whose queue pair is in RTS
    probed, arrived \* rails whose probe was posted, and has been delivered

vars == <<cfg, pc, c2s, s2c, endpoints, rail_count, listening, rail, paths, conn,
          record, ready, closed, qp_up, probed, arrived>>
sshVars  == <<c2s, s2c, endpoints, rail_count>>
bootVars == <<conn, record, ready, closed, qp_up, probed, arrived>>

Configs ==
    [kind : {"shell", "local", "daemon"},   \* how the peers are connected
     policy : {"auto", "required", "off"},  \* rdma_policy of the client
     capable : BOOLEAN,                     \* the server knows the letter R
     compress : BOOLEAN, batch : BOOLEAN,   \* do_compression, write_batch
     sender : Sides,
     local : 0 .. MaxCandidates, remote : 0 .. MaxCandidates,
     requested : 0 .. RDMA_MAX_RAILS,       \* rdma_requested_rails
     local_rate : Rates, remote_rate : Rates]

Settled == {"active", "ssh", "exit"}

Init ==
    /\ cfg \in Configs
    /\ pc = [p \in Sides |-> "start"]
    /\ c2s = << >> /\ s2c = << >>
    /\ endpoints = 0 /\ rail_count = [p \in Sides |-> 0]
    /\ listening = {}
    /\ rail = [p \in Sides |-> 1]
    /\ paths = [p \in Sides |-> {}]
    /\ conn = {} /\ probed = {} /\ arrived = {}
    /\ record = [p \in Sides |-> {}] /\ ready = [p \in Sides |-> {}]
    /\ closed = [p \in Sides |-> {}] /\ qp_up = [p \in Sides |-> {}]

\* A fallback that forgets --rdma=required.
SilentFallback(p) == "ssh"

\* fallback(): only the command side honours --rdma=required.
Fallback(p) == IF p = "C" /\ cfg.policy = "required" THEN "exit" ELSE "ssh"

-----------------------------------------------------------------------------
\* The early returns of rdma_preflight that both sides take alike.  The letter
\* R is sent, and CF_RDMA_BULK answered, only for an enabled policy.
attempted == cfg.kind = "shell" /\ cfg.policy # "off"
peer_capable == cfg.capable

\* client_preflight sends the request.
ClientStart ==
    /\ pc["C"] = "start"
    /\ IF ~attempted
       THEN pc' = [pc EXCEPT !["C"] = "ssh"] /\ c2s' = c2s
       ELSE IF ~peer_capable \/ cfg.compress
       THEN pc' = [pc EXCEPT !["C"] = Fallback("C")] /\ c2s' = c2s
       ELSE /\ pc' = [pc EXCEPT !["C"] = "status"]
            /\ c2s' = Append(c2s, [type |-> "request"])
    /\ UNCHANGED <<cfg, s2c, endpoints, rail_count, listening, rail, paths, bootVars>>

ServerStart ==
    /\ pc["S"] = "start"
    /\ pc' = [pc EXCEPT !["S"] =
                IF ~attempted \/ ~peer_capable \/ cfg.compress THEN "ssh" ELSE "request"]
    /\ UNCHANGED <<cfg, sshVars, listening, rail, paths, bootVars>>

\* server_preflight reads the request, opens a listener for each candidate
\* (usable of them succeed), and answers with the usable endpoints.
ServerRequest ==
    /\ pc["S"] = "request" /\ c2s # << >>
    /\ c2s' = Tail(c2s)
    /\ \E usable \in 0 .. cfg.remote :
         /\ s2c' = Append(s2c, [type |-> "status", n |-> usable])
         /\ endpoints' = usable
         /\ pc' = [pc EXCEPT !["S"] = IF usable = 0 THEN Fallback("S") ELSE "rails"]
         /\ listening' = IF usable = 0 THEN {} ELSE {"S"}
    /\ UNCHANGED <<cfg, rail_count, rail, paths, bootVars>>

\* One rail for every pair of devices.
UncappedRails(local, remote) == local * remote

\* choose_rails with the client's candidates and the server's endpoints.
choose_rails(local, remote) ==
    CASE local = 0 \/ remote = 0 -> 0
      [] OTHER ->
         IF cfg.requested # 0 THEN cfg.requested
         ELSE IF \/ local >= 2 /\ remote >= 2
                 \/ local = 1 /\ remote >= 2 /\ cfg.local_rate * 2 >= cfg.remote_rate * 3
                 \/ local >= 2 /\ remote = 1 /\ cfg.remote_rate * 2 >= cfg.local_rate * 3
              THEN 2 ELSE 1

\* client_preflight reads the status, chooses the rails and sends them, even
\* when there are none.
ClientStatus ==
    LET n == Head(s2c).n
        desired == choose_rails(cfg.local, n)
    IN  /\ pc["C"] = "status" /\ s2c # << >>
        /\ s2c' = Tail(s2c)
        /\ IF n = 0
           THEN /\ pc' = [pc EXCEPT !["C"] = Fallback("C")]
                /\ UNCHANGED <<c2s, rail_count>>
           ELSE /\ c2s' = Append(c2s, [type |-> "rails", n |-> desired])
                /\ rail_count' = [rail_count EXCEPT !["C"] = desired]
                /\ pc' = [pc EXCEPT !["C"] = IF desired = 0 THEN Fallback("C") ELSE "fork"]
        /\ UNCHANGED <<cfg, endpoints, listening, rail, paths, bootVars>>

ServerRails ==
    LET n == Head(c2s).n
    IN  /\ pc["S"] = "rails" /\ c2s # << >>
        /\ c2s' = Tail(c2s)
        /\ rail_count' = [rail_count EXCEPT !["S"] = n]
        /\ IF n \in 1 .. RDMA_MAX_RAILS
           THEN pc' = [pc EXCEPT !["S"] = "fork"] /\ UNCHANGED listening
           ELSE pc' = [pc EXCEPT !["S"] = Fallback("S")] /\ listening' = {}
        /\ UNCHANGED <<cfg, s2c, endpoints, rail, paths, bootVars>>

\* do_recv forks on the receiving side; the generator inherits the listeners.
Fork(p) ==
    /\ pc[p] = "fork"
    /\ pc' = [pc EXCEPT ![p] = "open"]
    /\ listening' = IF p = "S" /\ cfg.sender # "S" THEN listening \cup {"G"} ELSE listening
    /\ UNCHANGED <<cfg, sshVars, rail, paths, bootVars>>

\* A generator that keeps what it inherited.
KeepingGenerator == "G" \in listening /\ UNCHANGED vars

\* rdma_after_receiver_fork(0) in the generator.
GeneratorCloses ==
    /\ "G" \in listening
    /\ listening' = listening \ {"G"}
    /\ UNCHANGED <<cfg, pc, sshVars, rail, paths, bootVars>>

-----------------------------------------------------------------------------
\* rdma_activate works on rail[p]: the client dials, the server accepts.
Open(p) ==
    LET i == rail[p]
    IN  /\ pc[p] = "open"
        /\ IF p = "C" THEN listening # {} /\ conn' = conn \cup {i}
           ELSE i \in conn /\ conn' = conn
        /\ pc' = [pc EXCEPT ![p] = "setup"]
        /\ UNCHANGED <<cfg, sshVars, listening, rail, paths, record, ready, closed, qp_up, probed, arrived>>

\* setup_path_resources (the receiver preposts its ring), then exchange_qp
\* writes the QP record.
SetupPath(p) ==
    LET i == rail[p]
    IN  /\ pc[p] = "setup"
        /\ paths' = [paths EXCEPT ![p] = @ \cup {i}]
        /\ record' = [record EXCEPT ![p] = @ \cup {i}]
        /\ pc' = [pc EXCEPT ![p] = "record"]
        /\ UNCHANGED <<cfg, sshVars, listening, rail, conn, ready, closed, qp_up, probed, arrived>>

\* The peer's record arrives and the queue pair goes to RTR and RTS; a sender
\* then posts its probe.
ReadRecord(p) ==
    LET i == rail[p]
    IN  /\ pc[p] = "record" /\ i \in record[Peer(p)]
        /\ qp_up' = [qp_up EXCEPT ![p] = @ \cup {i}]
        /\ probed' = IF p = cfg.sender THEN probed \cup {i} ELSE probed
        /\ pc' = [pc EXCEPT ![p] = "probe"]
        /\ UNCHANGED <<cfg, sshVars, listening, rail, paths, conn, record, ready, closed, arrived>>

\* External: the fabric carries the probe while both queue pairs are up.
DeliverProbe(i) ==
    /\ i \in probed \ arrived
    /\ \A p \in Sides : i \in qp_up[p]
    /\ arrived' = arrived \cup {i}
    /\ UNCHANGED <<cfg, pc, sshVars, listening, rail, paths, conn, record, ready, closed, qp_up, probed>>

\* The probe's completion is polled (the receiver reposts the slot) and the
\* ready byte is written.
ProbeDone(p) ==
    LET i == rail[p]
    IN  /\ pc[p] = "probe" /\ i \in arrived
        /\ ready' = [ready EXCEPT ![p] = @ \cup {i}]
        /\ pc' = [pc EXCEPT ![p] = "ready"]
        /\ UNCHANGED <<cfg, sshVars, listening, rail, paths, conn, record, closed, qp_up, probed, arrived>>

\* A side that does not wait for its peer's ready byte.
UnconfirmedReady(p, i) == TRUE

\* peer_ready has arrived on the bootstrap connection.
peer_ready(p, i) == i \in ready[Peer(p)]

\* A loop that stops one rail short.
OneRailShort(p, i) == i + 1 < rail_count[p]

\* The condition of the loop over the rails.
more_rails(p, i) == i < rail_count[p]

\* The peer is ready on this rail: close the connection and go on to the next
\* rail, or close the listeners and use the transport.
ReadReady(p) ==
    LET i == rail[p]
    IN  /\ pc[p] = "ready" /\ peer_ready(p, i)
        /\ closed' = [closed EXCEPT ![p] = @ \cup {i}]
        /\ IF more_rails(p, i)
           THEN /\ rail' = [rail EXCEPT ![p] = i + 1]
                /\ pc' = [pc EXCEPT ![p] = "open"]
                /\ UNCHANGED listening
           ELSE /\ pc' = [pc EXCEPT ![p] = "active"]
                /\ listening' = listening \ {p}
                /\ UNCHANGED rail
        /\ UNCHANGED <<cfg, sshVars, paths, conn, record, ready, qp_up, probed, arrived>>

\* The error path that destroys only the rail that failed.
DestroyOnePath(p) == [paths EXCEPT ![p] = @ \ {rail[p]}]

\* destroy_all_paths
destroy_all_paths(p) == [paths EXCEPT ![p] = {}]

\* May the current step of rdma_activate fail?  Every wait before the ready
\* exchange may run out and every call may fail.  The last read fails when the
\* peer has closed without writing, or when its time is up.
MayFail(p) ==
    LET i == rail[p]
    IN  \/ pc[p] \in {"open", "setup", "record", "probe"}
        \/ /\ pc[p] = "ready" /\ i \notin ready[Peer(p)]
           /\ i \in closed[Peer(p)] \/ ReadyTimeouts

\* The error path of rdma_activate.
ActivationFails(p) ==
    /\ MayFail(p)
    /\ closed' = [closed EXCEPT ![p] = @ \cup {rail[p]}]
    /\ paths' = destroy_all_paths(p)
    /\ qp_up' = [qp_up EXCEPT ![p] = {}]
    /\ listening' = listening \ {p}
    /\ pc' = [pc EXCEPT ![p] = Fallback(p)]
    /\ UNCHANGED <<cfg, sshVars, rail, conn, record, ready, probed, arrived>>

Step(p) ==
    \/ Fork(p) \/ Open(p) \/ SetupPath(p) \/ ReadRecord(p)
    \/ ProbeDone(p) \/ ReadReady(p) \/ ActivationFails(p)

Preflight == ClientStart \/ ServerStart \/ ServerRequest \/ ClientStatus \/ ServerRails

Next ==
    \/ Preflight \/ GeneratorCloses
    \/ \E p \in Sides : Step(p)
    \/ \E i \in 1 .. RDMA_MAX_RAILS : DeliverProbe(i)

Spec == Init /\ [][Next]_vars

\* Every process keeps running; every wait of the activation is bounded by
\* RDMA_BOOTSTRAP_TIMEOUT_MS, so some outcome of the current step happens.
FairSpec ==
    Spec /\ WF_vars(Preflight) /\ WF_vars(GeneratorCloses)
         /\ \A p \in Sides : WF_vars(Step(p))

-----------------------------------------------------------------------------
\* Types of the setup state.
TypeOK ==
    /\ cfg \in Configs
    /\ pc \in [Sides -> {"start", "request", "status", "rails", "fork", "open", "setup",
                        "record", "probe", "ready"} \cup Settled]
    /\ rail_count \in [Sides -> 0 .. RDMA_MAX_RAILS] /\ rail \in [Sides -> 1 .. RDMA_MAX_RAILS]
    /\ endpoints \in 0 .. MaxCandidates /\ listening \subseteq {"S", "G"}
    /\ conn \subseteq 1 .. RDMA_MAX_RAILS /\ arrived \subseteq probed
    /\ \A f \in {paths, record, ready, closed, qp_up} : f \in [Sides -> SUBSET (1 .. RDMA_MAX_RAILS)]

\* ADDING-RDMA.md, negotiation step 6: "Until every selected QP is ready, any
\* failure tears down partial verbs state and selects ordinary SSH transport."
\* The two ends must never settle on different transports: the sender would
\* divert literals that the receiver reads from the SSH stream.
ActivationAgrees ==
    (\A p \in Sides : pc[p] \in Settled) => (pc["C"] = "active" <=> pc["S"] = "active")

\* A side that uses RDMA has all the rails both ends agreed on, each with its
\* probe delivered, and its peer never has a different number of them.
RailsAgree ==
    \A p \in Sides : pc[p] = "active" =>
        /\ rail_count["C"] = rail_count["S"]
        /\ paths[p] = 1 .. rail_count[p] /\ paths[p] \subseteq arrived

\* Falling back leaves no verbs resources behind, and no settled server keeps
\* its listeners ("prove cleanup and pre-data fallback", ADDING-RDMA.md).
CleanFallback ==
    \A p \in Sides :
        /\ pc[p] \in {"ssh", "exit"} => paths[p] = {} /\ qp_up[p] = {}
        /\ pc[p] \in Settled => p \notin listening

\* --rdma=required "fails before diverting any literal data instead"
\* (rsync.1.md): over a remote shell it never goes on without RDMA.
RequiredHonoured ==
    cfg.kind = "shell" /\ cfg.policy = "required" => pc["C"] # "ssh"

\* "RDMA is not attempted for local, daemon-socket, or batch transfers"
\* (rsync.1.md): such a transfer keeps all its literals on the ordinary path.
BatchStaysOnSSH == cfg.batch => \A p \in Sides : pc[p] # "active"

\* The setup ends on both sides, whatever fails, and the generator has let go
\* of the inherited listeners.
SetupEnds == <>[](listening = {} /\ \A p \in Sides : pc[p] \in Settled)

=============================================================================
