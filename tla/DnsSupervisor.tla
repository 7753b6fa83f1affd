--------------------------- MODULE DnsSupervisor ----------------------------
(***************************************************************************)
(* The controller's DNS supervisor task, the DnsServer it starts, and the  *)
(* readiness flag dns_up.  A server has a UDP socket and a TCP listener on *)
(* one port.  run() serves TCP itself and leaves UDP to a detached task,   *)
(* which outlives run().                                                   *)
(***************************************************************************)
EXTENDS Naturals

CONSTANTS
  MaxTcpErrors,   \* bound on errors of accept
  MaxUdpErrors,   \* bound on errors of recv_from
  MaxForeign      \* bound on times another process takes the port

ASSUME SupAssumption ==
  {MaxTcpErrors, MaxUdpErrors, MaxForeign} \subseteq Nat

VARIABLES
  sup,            \* the supervisor
  dnsUp,          \* AppState.dns_up
  udp,            \* the UDP socket of a server
  tcp,            \* the TCP listener of a server is open
  foreign,        \* the protocols on which another process has the port
  faults          \* errors so far, for the bounds

supVars == <<sup, dnsUp, udp, tcp, foreign, faults>>

SupTypeOK ==
  /\ sup \in {"new", "bind_udp", "bind_tcp", "serving", "backoff"}
  /\ dnsUp \in BOOLEAN
  \* bound: held by run(); serving: held by the detached task; draining: the
  \* task has ended and requests in flight still hold the socket.
  /\ udp \in {"closed", "bound", "serving", "draining"}
  /\ tcp \in BOOLEAN
  /\ foreign \subseteq {"udp", "tcp"}
  /\ faults \in [tcp : 0..MaxTcpErrors, udp : 0..MaxUdpErrors,
                 foreign : 0..MaxForeign]

SupInit ==
  /\ sup = "new"
  /\ dnsUp = FALSE
  /\ udp = "closed"
  /\ tcp = FALSE
  /\ foreign = {}
  /\ faults = [tcp |-> 0, udp |-> 0, foreign |-> 0]

-----------------------------------------------------------------------------
(* The supervisor loop and DnsServer::run.                                 *)

\* Mutant of new: the flag is not set before run().
NewWithoutFlag ==
  /\ sup = "new"
  /\ sup' = "bind_udp"
  /\ UNCHANGED <<dnsUp, udp, tcp, foreign, faults>>

\* DnsServer::new has no step that fails and opens no socket.
new ==
  /\ sup = "new"
  /\ dnsUp' = TRUE
  /\ sup' = "bind_udp"
  /\ UNCHANGED <<udp, tcp, foreign, faults>>

\* run() has returned.
Exited == sup' = "backoff" /\ dnsUp' = FALSE

\* The port is free for UDP only when no server, this one's predecessors
\* included, holds a socket on it.
bind_udp ==
  /\ sup = "bind_udp"
  /\ \/ /\ udp = "closed"
        /\ "udp" \notin foreign
        /\ udp' = "bound"
        /\ sup' = "bind_tcp"
        /\ UNCHANGED dnsUp
     \/ /\ udp # "closed" \/ "udp" \in foreign
        /\ Exited
        /\ UNCHANGED udp
  /\ UNCHANGED <<tcp, foreign, faults>>

\* Mutant of bind_tcp: the UDP task is started before TCP is bound.
ServeUdpFirst ==
  /\ sup = "bind_tcp"
  /\ udp' = "serving"
  /\ \/ /\ "tcp" \notin foreign
        /\ tcp' = TRUE
        /\ sup' = "serving"
        /\ UNCHANGED dnsUp
     \/ /\ "tcp" \in foreign
        /\ Exited
        /\ UNCHANGED tcp
  /\ UNCHANGED <<foreign, faults>>

\* When TCP cannot be bound, run() returns and drops the UDP socket.
bind_tcp ==
  /\ sup = "bind_tcp"
  /\ \/ /\ "tcp" \notin foreign
        /\ tcp' = TRUE
        /\ udp' = "serving"
        /\ sup' = "serving"
        /\ UNCHANGED dnsUp
     \/ /\ "tcp" \in foreign
        /\ udp' = "closed"
        /\ Exited
        /\ UNCHANGED tcp
  /\ UNCHANGED <<foreign, faults>>

\* Mutant of serve_tcp_error: the UDP socket goes with run().
TcpErrorClosesUdp ==
  /\ sup = "serving"
  /\ faults.tcp < MaxTcpErrors
  /\ faults' = [faults EXCEPT !.tcp = @ + 1]
  /\ tcp' = FALSE
  /\ udp' = "closed"
  /\ Exited
  /\ UNCHANGED foreign

\* serve_tcp returns on the first error of accept; the UDP task goes on.
serve_tcp_error ==
  /\ sup = "serving"
  /\ faults.tcp < MaxTcpErrors
  /\ faults' = [faults EXCEPT !.tcp = @ + 1]
  /\ tcp' = FALSE
  /\ Exited
  /\ UNCHANGED <<udp, foreign>>

sleep_backoff ==
  /\ sup = "backoff"
  /\ sup' = "new"
  /\ UNCHANGED <<dnsUp, udp, tcp, foreign, faults>>

\* serve_udp returns on the first error of recv_from, and nobody waits for
\* it.  Requests in flight keep the socket until they have answered.
serve_udp_error ==
  /\ udp = "serving"
  /\ faults.udp < MaxUdpErrors
  /\ faults' = [faults EXCEPT !.udp = @ + 1]
  /\ udp' = "draining"
  /\ UNCHANGED <<sup, dnsUp, tcp, foreign>>

udp_drained ==
  /\ udp = "draining"
  /\ udp' = "closed"
  /\ UNCHANGED <<sup, dnsUp, tcp, foreign, faults>>

-----------------------------------------------------------------------------
(* Another process on the port, such as a stub resolver at boot.           *)

ForeignBind(p) ==
  /\ p \notin foreign
  /\ p = "udp" => udp = "closed"
  /\ p = "tcp" => ~tcp
  /\ faults.foreign < MaxForeign
  /\ faults' = [faults EXCEPT !.foreign = @ + 1]
  /\ foreign' = foreign \union {p}
  /\ UNCHANGED <<sup, dnsUp, udp, tcp>>

ForeignClose(p) ==
  /\ p \in foreign
  /\ foreign' = foreign \ {p}
  /\ UNCHANGED <<sup, dnsUp, udp, tcp, faults>>

-----------------------------------------------------------------------------

Supervise == new \/ bind_udp \/ bind_tcp \/ sleep_backoff

SupNext ==
  \/ Supervise
  \/ serve_tcp_error
  \/ serve_udp_error
  \/ udp_drained
  \/ \E p \in {"udp", "tcp"} : ForeignBind(p) \/ ForeignClose(p)

SupSpec == SupInit /\ [][SupNext]_supVars

\* The supervisor task is scheduled, requests in flight time out
\* (query_timeout), and the other process gives the port back.
SupFairness ==
  /\ WF_supVars(Supervise)
  /\ WF_supVars(udp_drained)
  /\ \A p \in {"udp", "tcp"} : WF_supVars(ForeignClose(p))

FairSupSpec == SupSpec /\ SupFairness

-----------------------------------------------------------------------------
(* Properties.                                                             *)

Listening == tcp /\ udp = "serving"

\* A controller whose DNS server answers over TCP is never reported down by
\* /ready, and its port is open for both protocols unless UDP has failed.
ServingIsReady ==
  tcp => dnsUp /\ (udp = "serving" \/ faults.udp > 0)

\* The listener is open just while run() serves it, the flag is up from
\* DnsServer::new until run() returns, and run() holds the UDP socket itself
\* only between the two binds.
PhaseSound ==
  /\ tcp <=> sup = "serving"
  /\ dnsUp <=> sup \in {"bind_udp", "bind_tcp", "serving"}
  /\ udp = "bound" <=> sup = "bind_tcp"

\* The readiness flag is sound in every state, and so are the sockets for the
\* place the supervisor has reached (main.rs, DNS supervisor; DnsServer::run).
SupervisorInv == SupTypeOK /\ PhaseSound /\ ServingIsReady

\* However often another process takes the port for UDP, for TCP or for both,
\* also between the two binds, both protocols are served in the end and stay
\* so, unless accept or recv_from fails (the supervisor of main.rs).
RegainsPort ==
  [](faults.tcp = 0 /\ faults.udp = 0) => <>[]Listening

\* The two protocols fail apart: however accept and bind fail, a UDP server
\* that has started keeps answering until recv_from itself fails.
UdpOutlivesTcp ==
  [][udp = "serving" /\ udp' # "serving" => faults'.udp > faults.udp]_supVars

-----------------------------------------------------------------------------
(* Statements of the documentation that the code does not keep.            *)

\* controller main.rs:5, "DNS / cleanup / backup tasks self-restart": in the
\* end both protocols are served, and stay so.  This does not survive one
\* error of accept, after which the detached UDP task keeps the port from
\* every new server, or one of recv_from, which nobody notices.
SelfRestarts == <>[]Listening

\* state.rs:17, "Set true once DNS listener is known to be up."
DnsUpMeansListening == dnsUp => Listening

=============================================================================
