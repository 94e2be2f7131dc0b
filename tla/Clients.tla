------------------------------ MODULE Clients ------------------------------
(***************************************************************************)
(* Sketches in one loop(): a web server, a web client and a clock share the    *)
(* sockets of the device and the one error the driver keeps for all of them.   *)
(* One function runs at a time; another begins when none does.               *)
(***************************************************************************)
EXTENDS WebServer, WebClient, NtpClient

CONSTANTS
    Sketches   \* the sets of programs that a sketch runs

vars == <<sockets, server_vars, client_vars, ntp_vars>>

ServerRuns == server \notin ServerRests
ClientRuns == client \notin {"off", "rest"}
NtpRuns    == ntp \notin NtpRests

Init ==
    /\ SocketsInit /\ ServerInit /\ ClientInit /\ NtpInit
    /\ \E programs \in Sketches :
        /\ server = IF "server" \in programs THEN "INIT_SERVER" ELSE "off"
        /\ client = IF "client" \in programs THEN "rest" ELSE "off"
        /\ ntp = IF "ntp" \in programs THEN "setup" ELSE "off"

ServerStep == ~ClientRuns /\ ~NtpRuns /\ ServerNext /\ UNCHANGED <<client_vars, ntp_vars>>
ClientStep == ~ServerRuns /\ ~NtpRuns /\ ClientNext /\ UNCHANGED <<server_vars, ntp_vars>>
NtpStep    == ~ServerRuns /\ ~ClientRuns /\ NtpNext /\ UNCHANGED <<server_vars, client_vars>>

Device ==
    \/ (PeerLeaves \/ Failure) /\ UNCHANGED <<server_vars, client_vars, ntp_vars>>
    \/ ArpEvent /\ UNCHANGED <<server_vars, client_vars>>

Next == ServerStep \/ ClientStep \/ NtpStep \/ Device

Spec == Init /\ [][Next]_vars

\* The processor runs the function it is in; a request and a reply end, or the time for
\* them does; the device comes to the last of the failures it has to report.
FairSpec ==
    /\ Spec
    /\ WF_vars(ServerRuns /\ ServerStep) /\ WF_vars(ClientRuns /\ ClientStep)
    /\ WF_vars(NtpRuns /\ NtpStep)
    /\ WF_vars(ServerParsed /\ UNCHANGED <<client_vars, ntp_vars>>)
    /\ WF_vars(ClientRecvEnds /\ UNCHANGED <<server_vars, ntp_vars>>)
    /\ WF_vars(LastFailure /\ UNCHANGED <<server_vars, client_vars, ntp_vars>>)

-----------------------------------------------------------------------------
ServerTypes ==
    /\ server \in ServerRests \cup {"setsockopt", "bind", "listen", "undo", "timeout", "drop",
                                    "reading", "responding"}
    /\ {http_server_socket, client_socket} \subseteq Descriptors \cup {EFAIL, SOC_IN_PROGRESS}
    /\ left \in 0..Pieces
ClientTypes ==
    /\ app_st \in {"CONNECT_BEGIN", "CONNECT_SERVER"}
    /\ client \in {"off", "rest", "socket", "setsockopt", "undo", "connect", "send", "recv", "close"}
    /\ host_socket \in Descriptors \cup {EFAIL}
    /\ conn_count \in 0..(MaxConns + 1) /\ pieces \in 0..Request
NtpTypes ==
    /\ ntp \in NtpRests \cup {"socket", "setsockopt", "undo", "start", "wait", "check", "recvfrom"}
    /\ ntp_socket \in Descriptors \cup {EFAIL}
    /\ first_send \in BOOLEAN /\ SpiderARP_Flag \in ArpFlags
    /\ sent \in {EFAIL, 0, Sent, 199}

\* The types of the sockets and of the variables of each program.
TypeOK == SocketsTypeOK /\ ServerTypes /\ ClientTypes /\ NtpTypes

\* Between their functions the programs hold every socket they got and have not closed:
\* whichever call fails, round after round, none is lost but those that the device itself
\* refused to close (leaked), which the programs never see again.
Held ==
    (IF server \in ServerRests \ {"off", "INIT_SERVER"} THEN {http_server_socket} ELSE {})
        \cup (IF server \in {"HANDLE_REQUEST", "HANDLE_GET_RESPONSE", "CLOSE_CLIENT_CONN"}
              THEN {client_socket} ELSE {})
        \cup (IF ntp = "loop" THEN {ntp_socket} ELSE {})
NoneLost == ~(ServerRuns \/ ClientRuns \/ NtpRuns) => open = Held \ {-1}

\* Every socket not given up has its owner, and no program uses one it does not own, be it
\* another's or one the device still has after a close it refused.
SocketsOwned == NoneLost /\ NoStray

\* What the one error kept for all of them costs: after a failed completion at most one send
\* on a connection whose peer is there is refused, of whichever program, and only a failed
\* completion makes that possible again.
OnePerFailure == missed <= 1

\* Every function returns to loop(), and one that reads does not read for ever.
FunctionsReturn ==
    /\ ServerRuns ~> ~ServerRuns
    /\ ClientRuns ~> ~ClientRuns
    /\ NtpRuns ~> ~NtpRuns
=============================================================================
