----------------------------- MODULE WebClient -----------------------------
(***************************************************************************)
(* WebClient.c, and the sketch SimpleHttpGet.ino that runs it: app_st is the   *)
(* sketch's, client the call made next, "rest" when loop() returns.           *)
(***************************************************************************)
EXTENDS Sockets, FiniteSets

CONSTANTS
    MaxConns   \* connections with one resolved address; 29 in the sketch, which counts to it

ASSUME WebClientAssumption == MaxConns \in Nat

VARIABLES
    app_st, client, host_socket, conn_count,
    pieces                \* of the request still to send

\* WebClient_SendRequest sends this many pieces, in the code 5; WebClient_Get sends one.
Request == 3

client_vars == <<app_st, client, host_socket, conn_count, pieces>>

-----------------------------------------------------------------------------
\* WebClient_Get_HostIP; or the beginning of WebClient_Begin_URL, which goes on with
\* the socket
ClientResolve ==
    /\ app_st = "CONNECT_BEGIN" /\ client = "rest"
    /\ \/ UNCHANGED <<app_st, client>>
       \/ app_st' = "CONNECT_SERVER" /\ client' \in {"rest", "socket"}
    /\ UNCHANGED <<sockets, host_socket, conn_count, pieces>>

\* WebClient_Begin_IP. The sketch closes -1 when it fails.
ClientSocket ==
    /\ app_st = "CONNECT_SERVER" /\ client \in {"rest", "socket"}
    /\ \E r \in Descriptors \cup {EFAIL} :
        /\ Open(r)
        /\ host_socket' = r
        /\ client' = IF r = EFAIL THEN "close" ELSE "setsockopt"
    /\ UNCHANGED <<app_st, conn_count, pieces>>

ClientTimeout ==
    /\ client = "setsockopt"
    /\ Command(host_socket)
    /\ client' \in {"connect", "undo"}
    /\ UNCHANGED <<app_st, host_socket, conn_count, pieces>>

\* Variant: the handle is kept.
UndoKeeps == host_socket
Undone    == -1

ClientUndo ==
    /\ client = "undo"
    /\ closesocket(host_socket)
    /\ host_socket' = Undone
    /\ client' = "close"
    /\ UNCHANGED <<app_st, conn_count, pieces>>

\* WebClient_Connect. The address is resolved anew after a failure, and after so many
\* connections. Variant: the count goes on.
CountOn == conn_count' = conn_count + 1 /\ UNCHANGED app_st
Count ==
    IF conn_count > MaxConns
    THEN conn_count' = 0 /\ app_st' = "CONNECT_BEGIN"
    ELSE conn_count' = conn_count + 1 /\ UNCHANGED app_st

ClientConnect ==
    /\ client = "connect"
    /\ Command(host_socket)
    /\ \/ app_st' = "CONNECT_BEGIN" /\ client' = "close" /\ UNCHANGED <<conn_count, pieces>>
       \/ Count /\ client' = "send" /\ pieces' \in {1, Request}
    /\ UNCHANGED host_socket

\* WebClient_SendRequest, or the send of WebClient_Get
ClientSend ==
    /\ client = "send"
    /\ LET r == SendResult(host_socket)
       IN /\ client' = IF r < 0 THEN "close" ELSE IF pieces = 1 THEN "recv" ELSE "send"
          /\ pieces' = IF r < 0 THEN 0 ELSE pieces - 1
    /\ send(host_socket)
    /\ UNCHANGED <<app_st, host_socket, conn_count>>

\* WebClient_DataAvailable and WebClient_RecvData, until nothing comes any more
ClientRecv ==
    /\ client = "recv"
    /\ Command(host_socket)
    /\ UNCHANGED <<app_st, client, host_socket, conn_count, pieces>>
ClientRecvEnds ==
    /\ client = "recv"
    /\ Command(host_socket)
    /\ client' = "close"
    /\ UNCHANGED <<app_st, host_socket, conn_count, pieces>>

\* WebClient_Close. The sketch clears its Host_Info before it uses it again.
ClientClose ==
    /\ client = "close"
    /\ closesocket(host_socket)
    /\ client' = "rest" /\ host_socket' = -1 /\ pieces' = 0
    /\ UNCHANGED <<app_st, conn_count>>

-----------------------------------------------------------------------------
ClientInit ==
    /\ app_st = "CONNECT_BEGIN" /\ host_socket = -1
    /\ conn_count = 0 /\ pieces = 0

ClientNext ==
    \/ ClientResolve \/ ClientSocket \/ ClientTimeout \/ ClientUndo \/ ClientConnect
    \/ ClientSend \/ ClientRecv \/ ClientRecvEnds \/ ClientClose
=============================================================================
