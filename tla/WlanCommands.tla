---------------------------- MODULE WlanCommands ----------------------------
(***************************************************************************)
(* The functions of wlan.c, netapp.c and nvmem.c that are one command.       *)
(***************************************************************************)
EXTENDS HciCommands

\* START asks for the patches, READ_BUFFER_SIZE for the credits; neither has a result.
SimpleLinkStart ==
    Command(HCI_CMND_SIMPLE_LINK_START, HCI_CMND_SIMPLE_LINK_START, <<Bytes(1)>>, 1, 0, {},
            "void")
ReadBufferSize ==
    Command(HCI_CMND_READ_BUFFER_SIZE, HCI_CMND_READ_BUFFER_SIZE, <<>>, 0, 0, {}, "void")

\* The place and length of the name, the kind of security, the place and length of
\* the key, 16 bits of zero, the BSSID, the name, the key.
WlanConnect(ssid, key) ==
    Result32(HCI_CMND_WLAN_CONNECT, HCI_CMND_WLAN_CONNECT,
             <<PointsTo(28, 8), UINT32_TO_STREAM, UINT32_TO_STREAM, PointsTo(16 + ssid, 9),
               UINT32_TO_STREAM, UINT16_TO_STREAM, ARRAY_TO_STREAM(6), ARRAY_TO_STREAM(ssid),
               ARRAY_TO_STREAM(key)>>, 29 + ssid + key - 1)

WlanDisconnect ==
    Result32(HCI_CMND_WLAN_DISCONNECT, HCI_CMND_WLAN_DISCONNECT, <<>>, 0)
SetConnectionPolicy ==
    Result32(HCI_CMND_WLAN_IOCTL_SET_CONNECTION_POLICY,
             HCI_CMND_WLAN_IOCTL_SET_CONNECTION_POLICY, Words(3), 12)

\* wlan_add_profile for each kind of security: the kind, the place and length of
\* the name, 16 bits of zero, the BSSID, the priority, what the kind needs, the
\* name, the key. The caller gives a password, or four keys, of key bytes.
Profile(first, name, rest, len) ==
    Result32(HCI_CMND_WLAN_IOCTL_ADD_PROFILE, HCI_CMND_WLAN_IOCTL_ADD_PROFILE,
             <<UINT32_TO_STREAM, PointsTo(first, name), UINT32_TO_STREAM, UINT16_TO_STREAM,
               ARRAY_TO_STREAM(6), UINT32_TO_STREAM>> \o rest, len)
AddProfileUnsec(ssid) == Profile(20, 7, <<ARRAY_TO_STREAM(ssid)>>, 24 + ssid)
AddProfileWep(ssid, key) ==
    Profile(32, 10,
            <<PointsTo(12 + ssid, 11), UINT32_TO_STREAM, UINT32_TO_STREAM,
              ARRAY_TO_STREAM(ssid), ARRAY_TO_STREAM(key), ARRAY_TO_STREAM(key),
              ARRAY_TO_STREAM(key), ARRAY_TO_STREAM(key)>>, 36 + ssid + 4 * key)
AddProfileWpa(ssid, key) ==
    Profile(40, 12,
            <<UINT32_TO_STREAM, UINT32_TO_STREAM, UINT32_TO_STREAM, PointsTo(8 + ssid, 13),
              UINT32_TO_STREAM, ARRAY_TO_STREAM(ssid), ARRAY_TO_STREAM(key)>>,
            44 + ssid + key)

DelProfile ==
    Result32(HCI_CMND_WLAN_IOCTL_DEL_PROFILE, HCI_CMND_WLAN_IOCTL_DEL_PROFILE, Words(1), 4)

\* The table's count, the status, validity and length of the name, the time, name and BSSID.
GetScanResults ==
    Command(HCI_CMND_WLAN_IOCTL_GET_SCAN_RESULTS, HCI_CMND_WLAN_IOCTL_GET_SCAN_RESULTS,
            Words(1), 4, 50,
            {<<0, 4, Param(0)>>, <<4, 4, Param(4)>>, <<8, 2, Param(8)>>, <<10, 2, Param(10)>>,
             <<12, 38, Param(12)>>}, "void")

SetScanParams ==
    Result32(HCI_CMND_WLAN_IOCTL_SET_SCANPARAM, HCI_CMND_WLAN_IOCTL_SET_SCANPARAM,
             <<PointsTo(36, 10)>> \o Words(8) \o <<ARRAY_TO_STREAM(4 * 16)>>, 100)

SetEventMask == Result32(HCI_CMND_EVENT_MASK, HCI_CMND_EVENT_MASK, Words(1), 4)
StatusGet ==
    Result32(HCI_CMND_WLAN_IOCTL_STATUSGET, HCI_CMND_WLAN_IOCTL_STATUSGET, <<>>, 0)

SmartConfigStart ==
    Result32(HCI_CMND_WLAN_IOCTL_SIMPLE_CONFIG_START, HCI_CMND_WLAN_IOCTL_SIMPLE_CONFIG_START,
             Words(1), 4)
SmartConfigStop ==
    Result32(HCI_CMND_WLAN_IOCTL_SIMPLE_CONFIG_STOP, HCI_CMND_WLAN_IOCTL_SIMPLE_CONFIG_STOP,
             <<>>, 0)
SmartConfigSetPrefix ==
    Result32(HCI_CMND_WLAN_IOCTL_SIMPLE_CONFIG_SET_PREFIX,
             HCI_CMND_WLAN_IOCTL_SIMPLE_CONFIG_SET_PREFIX, <<ARRAY_TO_STREAM(3)>>, 3)

-----------------------------------------------------------------------------
\* netapp.c

Dhcp == Result8(HCI_NETAPP_DHCP, HCI_NETAPP_DHCP, Words(5), 20)
\* NETAPP_SET_TIMER_PARAMS_LEN announces one word more than is written.
TimeoutValues == Result8(HCI_NETAPP_SET_TIMERS, HCI_NETAPP_SET_TIMERS, Words(4), 20)
PingSend == Result8(HCI_NETAPP_PING_SEND, HCI_NETAPP_PING_SEND, Words(4), 16)
PingReport ==
    [Result8(HCI_NETAPP_PING_REPORT, HCI_NETAPP_PING_REPORT, <<>>, 0) EXCEPT !.fails = "void"]
PingStop == Result8(HCI_NETAPP_PING_STOP, HCI_NETAPP_PING_STOP, <<>>, 0)
ArpFlush == Result8(HCI_NETAPP_ARP_FLUSH, HCI_NETAPP_ARP_FLUSH, <<>>, 0)
SetDebugLevel == Result8(HCI_NETAPP_SET_DEBUG_LEVEL, HCI_NETAPP_SET_DEBUG_LEVEL, Words(1), 4)

\* tNetappIpconfigRetArgs: five addresses, the MAC address, the name
IpConfig ==
    Command(HCI_NETAPP_IPCONFIG, HCI_NETAPP_IPCONFIG, <<>>, 0, 58,
            {<<0, 4, Param(0)>>, <<4, 4, Param(4)>>, <<8, 4, Param(8)>>, <<12, 4, Param(12)>>,
             <<16, 4, Param(16)>>, <<20, 6, Param(20)>>, <<26, 32, Param(26)>>}, "void")

-----------------------------------------------------------------------------
\* nvmem.c

\* The data follows the answer in a packet of its own.
NvmemRead ==
    [ResultU8(HCI_CMND_NVMEM_READ, HCI_CMND_NVMEM_READ, Words(3), 12) EXCEPT !.data = TRUE]

\* A data packet: the file, the place of the data, its length, the entry's offset.
NvmemWrite(n) ==
    [Result32(HCI_CMND_NVMEM_WRITE, HCI_EVNT_NVMEM_WRITE,
              <<UINT32_TO_STREAM, PointsTo(12, 5), UINT32_TO_STREAM, UINT32_TO_STREAM,
                ARRAY_TO_STREAM(n)>>, 16)
     EXCEPT !.payload = n]

\* Status, and the last two bytes of the version.
ReadSpVersion ==
    Command(HCI_CMND_READ_SP_VERSION, HCI_CMND_READ_SP_VERSION, <<>>, 0, 5,
            {<<0, 1, Status>>, <<3, 1, Param(2)>>, <<4, 1, Param(3)>>}, "UINT8")
NvmemCreateEntry ==
    ResultU8(HCI_CMND_NVMEM_CREATE_ENTRY, HCI_CMND_NVMEM_CREATE_ENTRY, Words(2), 8)
=============================================================================
