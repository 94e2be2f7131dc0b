--------------------------- MODULE SocketCommands ---------------------------
(***************************************************************************)
(* The functions of socket.c. Arguments nothing depends on are words of the  *)
(* stream; the parameters are the lengths.                                   *)
(***************************************************************************)
EXTENDS HciCommands

HOSTNAME_MAX_LENGTH == 230
MDNS_DEVICE_SERVICE_MAX_LENGTH == 32

Socket == Result32(HCI_CMND_SOCKET, HCI_CMND_SOCKET, Words(3), 12)
CloseSocket == Result32(HCI_CMND_CLOSE_SOCKET, HCI_CMND_CLOSE_SOCKET, Words(1), 4)
Listen == Result32(HCI_CMND_LISTEN, HCI_CMND_LISTEN, Words(2), 8)

\* sd, the place of the address, its length, the address
Addressed == <<UINT32_TO_STREAM, PointsTo(8, 4), UINT32_TO_STREAM, ARRAY_TO_STREAM(8)>>
Bind    == Result32(HCI_CMND_BIND, HCI_CMND_BIND, Addressed, 20)
Connect == Result32(HCI_CMND_CONNECT, HCI_CMND_CONNECT, Addressed, 20)

\* tBsdReturnParams: descriptor, status, address of the peer
Accept ==
    Command(HCI_CMND_ACCEPT, HCI_CMND_ACCEPT, Words(1), 4, 24,
            {<<4, 4, Param(4)>>, <<8, 8, Param(8)>>}, "INT32")

GetHostByName(n) ==
    Command(HCI_CMND_GETHOSTNAME, HCI_EVNT_BSD_GETHOSTBYNAME,
            <<PointsTo(8, 3), UINT32_TO_STREAM, ARRAY_TO_STREAM(n)>>, 9 + n - 1, 8,
            {<<0, 4, Param(0)>>, <<4, 4, Param(4)>>}, "INT16")

\* nfds, the places of the three sets and of the timeout, is_blocking, the sets, the
\* timeout. The timeout of a blocking select is what the buffer held before.
Select ==
    Command(HCI_CMND_BSD_SELECT, HCI_EVNT_SELECT,
            <<UINT32_TO_STREAM, PointsTo(20, 7), PointsTo(20, 8), PointsTo(20, 9),
              PointsTo(20, 10)>> \o Words(6), 44, 16,
            {<<0, 4, Param(0)>>, <<4, 4, Param(4)>>, <<8, 4, Param(8)>>, <<12, 4, Param(12)>>},
            "select")

SetSockOpt(optlen) ==
    Command(HCI_CMND_SETSOCKOPT, HCI_CMND_SETSOCKOPT,
            <<UINT32_TO_STREAM, UINT32_TO_STREAM, UINT32_TO_STREAM, PointsTo(8, 6),
              UINT32_TO_STREAM, ARRAY_TO_STREAM(optlen)>>,
            20 + optlen, 4, {<<0, 4, Param(0)>>}, "sockopt")

\* tBsdGetSockOptReturnParams: the option's value, status
GetSockOpt ==
    Command(HCI_CMND_GETSOCKOPT, HCI_CMND_GETSOCKOPT, Words(3), 12, 5,
            {<<0, 4, Param(0)>>, <<4, 1, Status>>}, "sockopt")

GetMss ==
    Command(HCI_CMND_GETMSSVALUE, HCI_EVNT_GETMSSVALUE, Words(1), 4, 2,
            {<<0, 2, Param(0)>>}, "void")

\* tBsdReadReturnParams: descriptor, number of bytes, flags
Received(op) == [Command(op, op, Words(3), 12, 12, {<<4, 4, Param(4)>>}, "bytes")
                 EXCEPT !.data = TRUE]
Recv     == Received(HCI_CMND_RECV)
RecvFrom == Received(HCI_CMND_RECVFROM)

\* sd, the place of the payload, its length, flags, and for sendto the place of
\* the address behind it. The completion is decoded and not looked at.
Send(n) ==
    [Command(HCI_CMND_SEND, HCI_EVNT_SEND,
             <<UINT32_TO_STREAM, PointsTo(16 - 4, 5), UINT32_TO_STREAM, UINT32_TO_STREAM,
               ARRAY_TO_STREAM(n)>>, 16, 12, {}, "void")
     EXCEPT !.payload = n]
SendTo(n) ==
    [Command(HCI_CMND_SENDTO, HCI_EVNT_SENDTO,
             <<UINT32_TO_STREAM, PointsTo(24 - 4, 7), UINT32_TO_STREAM, UINT32_TO_STREAM,
               PointsTo(n + 4 + 4, 8), UINT32_TO_STREAM, ARRAY_TO_STREAM(n),
               ARRAY_TO_STREAM(8)>>, 24, 12, {}, "void")
     EXCEPT !.payload = n + 8]

MdnsAdvertiser(n) ==
    Result8(HCI_CMND_MDNS_ADVERTISE, HCI_EVNT_MDNS_ADVERTISE,
            <<UINT32_TO_STREAM, PointsTo(8, 4), UINT32_TO_STREAM, ARRAY_TO_STREAM(n)>>, 12 + n)
=============================================================================
