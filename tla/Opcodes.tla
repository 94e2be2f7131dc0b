------------------------------ MODULE Opcodes ------------------------------
(***************************************************************************)
(* The opcodes of commands and events. Their values matter: what kind of     *)
(* event one is, is told by two of its bits.                                 *)
(***************************************************************************)
EXTENDS Integers

HCI_CMND_WLAN_CONNECT == 1
HCI_CMND_WLAN_DISCONNECT == 2
HCI_CMND_WLAN_IOCTL_SET_SCANPARAM == 3
HCI_CMND_WLAN_IOCTL_SET_CONNECTION_POLICY == 4
HCI_CMND_WLAN_IOCTL_ADD_PROFILE == 5
HCI_CMND_WLAN_IOCTL_DEL_PROFILE == 6
HCI_CMND_WLAN_IOCTL_GET_SCAN_RESULTS == 7
HCI_CMND_EVENT_MASK == 8
HCI_CMND_WLAN_IOCTL_STATUSGET == 9
HCI_CMND_WLAN_IOCTL_SIMPLE_CONFIG_START == 10
HCI_CMND_WLAN_IOCTL_SIMPLE_CONFIG_STOP == 11
HCI_CMND_WLAN_IOCTL_SIMPLE_CONFIG_SET_PREFIX == 12

HCI_EVNT_PATCHES_REQ == 4096
HCI_CMND_SOCKET == 4097
HCI_CMND_BIND == 4098
HCI_EVNT_SEND == 4099
HCI_CMND_RECV == 4100
HCI_CMND_ACCEPT == 4101
HCI_CMND_LISTEN == 4102
HCI_CMND_CONNECT == 4103
HCI_CMND_BSD_SELECT == 4104
HCI_EVNT_SELECT == HCI_CMND_BSD_SELECT
HCI_CMND_SETSOCKOPT == 4105
HCI_CMND_GETSOCKOPT == 4106
HCI_CMND_CLOSE_SOCKET == 4107
HCI_CMND_RECVFROM == 4109
HCI_EVNT_WRITE == 4110
HCI_EVNT_SENDTO == 4111
HCI_CMND_GETHOSTNAME == 4112
HCI_EVNT_BSD_GETHOSTBYNAME == HCI_CMND_GETHOSTNAME
HCI_CMND_MDNS_ADVERTISE == 4113
HCI_EVNT_MDNS_ADVERTISE == HCI_CMND_MDNS_ADVERTISE
HCI_CMND_GETMSSVALUE == 4114
HCI_EVNT_GETMSSVALUE == HCI_CMND_GETMSSVALUE

HCI_CMND_SEND == 129
HCI_CMND_SENDTO == 131
HCI_CMND_NVMEM_WRITE == 144

HCI_CMND_NVMEM_READ == 513
HCI_EVNT_NVMEM_READ == HCI_CMND_NVMEM_READ
HCI_EVNT_NVMEM_WRITE == 514
HCI_CMND_NVMEM_CREATE_ENTRY == 515
HCI_CMND_READ_SP_VERSION == 519

HCI_NETAPP_DHCP == 8193
HCI_NETAPP_PING_SEND == 8194
HCI_NETAPP_PING_REPORT == 8195
HCI_NETAPP_PING_STOP == 8196
HCI_NETAPP_IPCONFIG == 8197
HCI_NETAPP_ARP_FLUSH == 8198
HCI_NETAPP_SET_DEBUG_LEVEL == 8200
HCI_NETAPP_SET_TIMERS == 8201

HCI_EVNT_UNSOL_BASE == 16384
HCI_CMND_SIMPLE_LINK_START == HCI_EVNT_UNSOL_BASE
HCI_CMND_READ_BUFFER_SIZE == HCI_EVNT_UNSOL_BASE + 11
HCI_EVNT_DATA_UNSOL_FREE_BUFF == HCI_EVNT_UNSOL_BASE + 256

HCI_EVNT_WLAN_UNSOL_BASE == 32768
HCI_EVNT_WLAN_UNSOL_CONNECT == HCI_EVNT_WLAN_UNSOL_BASE + 1
HCI_EVNT_WLAN_UNSOL_DISCONNECT == HCI_EVNT_WLAN_UNSOL_BASE + 2
HCI_EVNT_WLAN_UNSOL_INIT == HCI_EVNT_WLAN_UNSOL_BASE + 4
HCI_EVNT_WLAN_TX_COMPLETE == HCI_EVNT_WLAN_UNSOL_BASE + 8
HCI_EVNT_WLAN_UNSOL_DHCP == HCI_EVNT_WLAN_UNSOL_BASE + 16
HCI_EVNT_WLAN_ASYNC_PING_REPORT == HCI_EVNT_WLAN_UNSOL_BASE + 64
HCI_EVNT_WLAN_ASYNC_SIMPLE_CONFIG_DONE == HCI_EVNT_WLAN_UNSOL_BASE + 128
HCI_EVNT_WLAN_KEEPALIVE == HCI_EVNT_WLAN_UNSOL_BASE + 512
HCI_EVNT_ASYNC_ARP_DONE == HCI_EVNT_WLAN_UNSOL_BASE + 1024
HCI_EVNT_BSD_TCP_CLOSE_WAIT == HCI_EVNT_WLAN_UNSOL_BASE + 2048
HCI_EVNT_ASYNC_ARP_WAITING == HCI_EVNT_WLAN_UNSOL_BASE + 2304

\* Layout of an event.
HCI_EVENT_STATUS_OFFSET == 4
HCI_EVENT_HEADER_SIZE == 5
=============================================================================
