----------------------------- MODULE WebServer -----------------------------
(***************************************************************************)
(* WebServer.c, and the sketch SimpleHttpServer.ino that runs it: its states  *)
(* are app_st's; between them loop() returns, in the others a function runs.   *)
(***************************************************************************)
EXTENDS Sockets, FiniteSets

VARIABLES
    server,               \* app_st, or the call that WebServer.c makes next
    http_server_socket, client_socket,
    left                  \* pieces of the response still to send

server_vars == <<server, http_server_socket, client_socket, left>>

ServerRests == {"off", "INIT_SERVER", "WAIT_CONNECT", "HANDLE_REQUEST", "HANDLE_GET_RESPONSE",
                "CLOSE_CLIENT_CONN"}

\* A response is sent in pieces: in the code 3 (not found), 4 (bad request) or 11.
Pieces == 3

-----------------------------------------------------------------------------
\* WebServer_begin

ServerSocket ==
    /\ server = "INIT_SERVER"
    /\ \E r \in Descriptors \cup {EFAIL} :
        /\ Open(r)
        /\ http_server_socket' = r
        /\ server' = IF r = EFAIL THEN "INIT_SERVER" ELSE "setsockopt"
    /\ UNCHANGED <<client_socket, left>>

\* setsockopt, bind and listen; the first to fail ends it.
ServerSetup ==
    /\ \/ server = "setsockopt" /\ Command(http_server_socket) /\ server' \in {"bind", "undo"}
       \/ server = "bind" /\ Command(http_server_socket) /\ server' \in {"listen", "undo"}
       \/ server = "listen" /\ listen(http_server_socket) /\ server' = "WAIT_CONNECT"
       \/ server = "listen" /\ Command(http_server_socket) /\ server' = "undo"
    /\ UNCHANGED <<http_server_socket, client_socket, left>>

ServerUndo ==
    /\ server = "undo"
    /\ closesocket(http_server_socket)
    /\ server' = "INIT_SERVER" /\ http_server_socket' = -1
    /\ UNCHANGED <<client_socket, left>>

\* WebServer_close, which the sketch does not call
ServerStop ==
    /\ server = "WAIT_CONNECT"
    /\ closesocket(http_server_socket)
    /\ server' = "INIT_SERVER" /\ http_server_socket' = -1
    /\ UNCHANGED <<client_socket, left>>

-----------------------------------------------------------------------------
\* WebServer_wait_connect

ServerAccept ==
    /\ server = "WAIT_CONNECT"
    /\ \E r \in Descriptors \cup {EFAIL, SOC_IN_PROGRESS} :
        /\ accept(http_server_socket, r)
        /\ client_socket' = r
        /\ server' = IF r < 0 THEN "WAIT_CONNECT" ELSE "timeout"
    /\ UNCHANGED <<http_server_socket, left>>

ServerTimeout ==
    /\ server = "timeout"
    /\ Command(client_socket)
    /\ server' \in {"HANDLE_REQUEST", "drop"}
    /\ UNCHANGED <<http_server_socket, client_socket, left>>

\* After a failed setsockopt, and WebServer_close_connect after the response
ServerDrop ==
    /\ server \in {"drop", "CLOSE_CLIENT_CONN"}
    /\ closesocket(client_socket)
    /\ server' = "WAIT_CONNECT" /\ client_socket' = -1
    /\ UNCHANGED <<http_server_socket, left>>

-----------------------------------------------------------------------------
\* WebServer_request_available and the recv of WebServer_get_request

ServerRead ==
    /\ server \in {"HANDLE_REQUEST", "reading"}
    /\ Command(client_socket)
    /\ server' = "reading"
    /\ UNCHANGED <<http_server_socket, client_socket, left>>

\* WebServer_process_request returns: complete, out of time or failed, the sketch
\* goes on alike.
ServerParsed ==
    /\ server = "reading"
    /\ Command(client_socket)
    /\ server' = "HANDLE_GET_RESPONSE"
    /\ UNCHANGED <<http_server_socket, client_socket, left>>

\* WebServer_put_notfound, WebServer_put_badrequest, or the page of the sketch. What
\* WebServer_put_response returns nobody looks at. Variant: a piece is tried until sent.
Retried == IF Refused(client_socket) THEN 0 ELSE 1
Piece   == 1

ServerRespond ==
    /\ \/ /\ server = "HANDLE_GET_RESPONSE"
          /\ left' = Pieces - 1
       \/ /\ server = "responding"
          /\ left' = left - Piece
    /\ send(client_socket)
    /\ server' = IF left' = 0 THEN "CLOSE_CLIENT_CONN" ELSE "responding"
    /\ UNCHANGED <<http_server_socket, client_socket>>

-----------------------------------------------------------------------------
ServerInit ==
    /\ http_server_socket = -1 /\ client_socket = -1 /\ left = 0

ServerNext ==
    \/ ServerSocket \/ ServerSetup \/ ServerUndo \/ ServerStop
    \/ ServerAccept \/ ServerTimeout \/ ServerDrop
    \/ ServerRead \/ ServerParsed \/ ServerRespond
=============================================================================
