----------------------------- MODULE ClientsInv -----------------------------
(***************************************************************************)
(* The inductive invariants of Clients: in which state each program holds a  *)
(* socket, that nobody else holds it and there is no other, which sockets     *)
(* have failures still to be reported, and that an error is charged once.     *)
(***************************************************************************)
EXTENDS Clients

\* The server holds a listening socket from Setting on, a connection in Serving.
Setting == {"setsockopt", "bind", "listen", "undo"}
Serving == {"timeout", "drop", "HANDLE_REQUEST", "reading", "HANDLE_GET_RESPONSE",
            "responding", "CLOSE_CLIENT_CONN"}

\* When each handle names a socket.
HandlesInv ==
    /\ {http_server_socket, host_socket, ntp_socket} \subseteq Descriptors \cup {-1}
    /\ server \in {"off", "INIT_SERVER"} <=> http_server_socket = -1
    /\ server \in Serving <=> client_socket \in Descriptors
    /\ client \in {"setsockopt", "undo", "connect", "send", "recv"} => host_socket # -1
    /\ client \in {"off", "rest", "socket"} => host_socket = -1
    /\ ntp \in {"setsockopt", "undo"} => ntp_socket # -1
    /\ ntp \in {"off", "setup", "socket"} => ntp_socket = -1

\* What is being sent has a piece left.
PiecesInv ==
    /\ server = "responding" => left >= 1
    /\ client = "send" => pieces >= 1

\* The handles name different sockets, and all the device has open; the one that listens
\* is the server's.
OwnersInv ==
    /\ open = {http_server_socket, client_socket, host_socket, ntp_socket} \cap Descriptors
    /\ http_server_socket \in Descriptors =>
           http_server_socket \notin {client_socket, host_socket, ntp_socket}
    /\ client_socket \in Descriptors => client_socket \notin {host_socket, ntp_socket}
    /\ host_socket \in Descriptors => host_socket # ntp_socket
    /\ listening = IF server \in {"off", "INIT_SERVER"} \cup Setting THEN {}
                   ELSE {http_server_socket}

OwnInv == TypeOK /\ HandlesInv /\ PiecesInv /\ OwnersInv /\ NoStray

\* A failure is that of a connection whose peer has left.
Conns == {client_socket, host_socket, ntp_socket}
StatusInv == failing \subseteq Conns \cap gone /\ StatusTrue

\* A piece refused with its peer there uses up an error, and an error is that of the last
\* failure.
MissedInv == missed + (IF slTransmitDataError # 0 THEN 1 ELSE 0) <= 1
=============================================================================
