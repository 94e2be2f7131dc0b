------------------------------ MODULE MCHciApi ------------------------------
(***************************************************************************)
(* Every function of the API, with lengths at the ends of their ranges.      *)
(***************************************************************************)
EXTENDS HciApi

\* The transmit buffer holds a host name of 193 bytes.
SocketCalls ==
    {Socket, CloseSocket, Listen, Bind, Connect, Accept, Select, SetSockOpt(4), GetSockOpt,
     GetMss, Recv, RecvFrom}
        \cup {GetHostByName(n) : n \in {1, 193, 231}}
        \cup {Send(n) : n \in {0, 1, 184}} \cup {SendTo(n) : n \in {0, 1, 168}}
        \cup {MdnsAdvertiser(n) : n \in {0, 32, 33, 250}}

WlanCalls ==
    {SimpleLinkStart, ReadBufferSize, WlanDisconnect, SetConnectionPolicy, DelProfile,
     GetScanResults, SetScanParams, SetEventMask, StatusGet, SmartConfigStart, SmartConfigStop,
     SmartConfigSetPrefix}
        \cup {WlanConnect(s, k) : s \in {1, 32}, k \in {0, 64}}
        \cup {AddProfileUnsec(s) : s \in {1, 32}}
        \cup {AddProfileWep(s, k) : s \in {1, 32}, k \in {5, 13}}
        \cup {AddProfileWpa(s, k) : s \in {1, 32}, k \in {8, 64}}

NetappCalls ==
    {Dhcp, TimeoutValues, PingSend, PingReport, PingStop, ArpFlush, SetDebugLevel, IpConfig}

NvmemCalls ==
    {NvmemRead, ReadSpVersion, NvmemCreateEntry} \cup {NvmemWrite(n) : n \in {6, 128}}

AllCalls == SocketCalls \cup WlanCalls \cup NetappCalls \cup NvmemCalls

\* One event that the handler knows, one of the WLAN that it does not, credits, and
\* the failure of a send.
OutOfTurn ==
    {HCI_EVNT_WLAN_UNSOL_DHCP, HCI_EVNT_WLAN_TX_COMPLETE, HCI_EVNT_DATA_UNSOL_FREE_BUFF,
     HCI_EVNT_SEND}

Answered == {-57, -1, 0, 4}
SendAnswers == {HCI_EVNT_SEND, HCI_EVNT_SENDTO}
=============================================================================
