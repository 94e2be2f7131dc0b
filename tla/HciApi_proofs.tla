--------------------------- MODULE HciApi_proofs ---------------------------
(***************************************************************************)
(* Proofs about HciApi for any of the functions of the API, with arguments   *)
(* of any length, and any device that answers them.                          *)
(***************************************************************************)
EXTENDS HciApi, SequenceTheorems, WellFoundedInduction, TLAPS

\* The functions of the API; a length is any number.
SocketApi ==
    {Socket, CloseSocket, Listen, Bind, Connect, Accept, Select, GetSockOpt, GetMss, Recv,
     RecvFrom}
        \cup {SetSockOpt(n) : n \in Nat} \cup {GetHostByName(n) : n \in Nat}
        \cup {Send(n) : n \in Nat} \cup {SendTo(n) : n \in Nat}
        \cup {MdnsAdvertiser(n) : n \in Nat}
WlanApi ==
    {SimpleLinkStart, ReadBufferSize, WlanDisconnect, SetConnectionPolicy, DelProfile,
     GetScanResults, SetScanParams, SetEventMask, StatusGet, SmartConfigStart, SmartConfigStop,
     SmartConfigSetPrefix}
        \cup {WlanConnect(s, k) : s \in Nat, k \in Nat}
        \cup {AddProfileUnsec(s) : s \in Nat}
        \cup {AddProfileWep(s, k) : s \in Nat, k \in Nat}
        \cup {AddProfileWpa(s, k) : s \in Nat, k \in Nat}
DeviceApi ==
    {Dhcp, TimeoutValues, PingSend, PingReport, PingStop, ArpFlush, SetDebugLevel, IpConfig,
     NvmemRead, ReadSpVersion, NvmemCreateEntry}
        \cup {NvmemWrite(n) : n \in Nat}
Api == SocketApi \cup WlanApi \cup DeviceApi

\* What the device reports as an error fits the byte that most functions return.
ErrorsInByte == \A s \in Statuses : s >= -128

\* A function waits for the event that answers its command, which is none of those
\* that are handled as unsolicited whatever is awaited.
AnswerKept(ev) ==
    /\ ev \in Nat \ {0} /\ ev # HCI_EVNT_DATA_UNSOL_FREE_BUFF
    /\ ~HasBit(ev, HCI_EVNT_WLAN_UNSOL_BASE)
Fails == {"INT8", "UINT8", "INT16", "bytes", "INT32", "select", "sockopt", "void"}
WellAnswered(c) ==
    /\ c.ev = AnswerTo(c.op) /\ AnswerKept(c.ev)
    /\ c.fails \in Fails /\ c.data \in BOOLEAN

\* A write, or a field taken: its place in the object, its bytes, their place in the event.
Placed == Nat \X Nat \X Int

\* What an event writes stays within the object of the caller, and each field that is
\* taken of the object is one write's, which none after it writes over.
Within(d, obj) ==
    /\ d \in Seq(Placed) /\ obj \in 0..ObjectSize
    /\ \A k \in DOMAIN d : d[k][1] + d[k][2] <= obj
Supplies(w, t) ==
    /\ w[3] # ToZero /\ w[3] - w[1] = t[3] - t[1]
    /\ w[1] <= t[1] /\ t[1] + t[2] <= w[1] + w[2]
Apart(w, t) == w[1] + w[2] <= t[1] \/ t[1] + t[2] <= w[1]
Stays(d, k, t) ==
    /\ t \in Placed /\ k \in DOMAIN d /\ Supplies(d[k], t)
    /\ \A j \in DOMAIN d : j > k => Apart(d[j], t)
Fits(d, obj, takes) == Within(d, obj) /\ \A t \in takes : \E k \in DOMAIN d : Stays(d, k, t)
WellDecoded(c) == Fits(Decoded(c.ev), c.obj, c.takes)

-----------------------------------------------------------------------------
\* The receive buffer holds no part of an answer: nothing, or an event that came
\* unasked for and was not handled, of which nothing is decoded.
NotOurs ==
    \/ rx = NoPacket
    \/ \E op \in Unsolicited \ SendEvents : rx = Event(op, 0) /\ Decoded(op) = <<>>

DataOf(c, status) == IF DeviceSendsData(c, status) THEN <<Data>> ELSE <<>>

\* Until the event is taken it is on its way or held, and nothing can displace it.
EventOwed ==
    \E s \in Statuses :
        /\ call.ev \in SendEvents => s # ERROR_SOCKET_INACTIVE
        /\ \/ wire = Answer(call, s) /\ NotOurs
           \/ wire = DataOf(call, s) /\ rx = Event(call.ev, s) /\ paused
\* Then the same holds of the data.
DataOwed ==
    \/ wire = DataOf(call, answered) /\ NotOurs
    \/ /\ wire = <<>> /\ rx = Data /\ paused
       /\ DeviceSendsData(call, answered)

CallInv ==
    /\ pc \in {"idle", "sent", "event", "answered", "data", "filled"}
    /\ IF pc = "idle" THEN call = NoCall ELSE call \in Calls
WaitInv ==
    /\ usRxEventOpcode = IF pc = "event" THEN call.ev ELSE 0
    /\ usRxDataPending = (pc = "data")
    /\ pc = "data" => WaitsForData(call, answered)
StatusInv ==
    /\ paused \in BOOLEAN /\ result \in Int /\ answered \in Statuses \cup {0}
    /\ pc \in {"answered", "data", "filled"} => answered \in Statuses
OwedInv ==
    /\ pc \in {"sent", "event"} => EventOwed
    /\ pc \in {"answered", "data"} => DataOwed
    /\ pc \in {"idle", "filled"} => wire = <<>> /\ NotOurs
\* The object holds the answer, once that has been taken, and nothing before.
ObjectInv ==
    /\ pc \in {"idle", "sent"} => object = <<>>
    /\ pc = "event" => object = Blank
    /\ pc \in {"answered", "data", "filled"} => object = Decode(call.ev, Blank)
Inv == CallInv /\ WaitInv /\ StatusInv /\ OwedInv /\ ObjectInv

-----------------------------------------------------------------------------
\* The calls: every function waits for the event that answers its command, and that
\* event is one which the handler of unsolicited events lets pass.

\* An opcode below the events of the WLAN has none of their bits.
LEMMA NoWlanBit ==
    ASSUME NEW n \in Nat, n < 32768
    PROVE  ~HasBit(n, HCI_EVNT_WLAN_UNSOL_BASE)
<1>1. n \div 32768 = 0
  OBVIOUS
<1> QED
  BY <1>1 DEF HasBit, HCI_EVNT_WLAN_UNSOL_BASE

LEMMA Passes ==
    ASSUME NEW ev \in Nat, 0 < ev, ev < 32768, ev # 16640
    PROVE  AnswerKept(ev)
<1>1. ~HasBit(ev, HCI_EVNT_WLAN_UNSOL_BASE)
  BY NoWlanBit
<1> QED
  BY <1>1 DEF AnswerKept, HCI_EVNT_DATA_UNSOL_FREE_BUFF, HCI_EVNT_UNSOL_BASE

\* The three commands that another event answers.
LEMMA AnswerOf ==
    /\ AnswerTo(HCI_CMND_SEND) = HCI_EVNT_SEND
    /\ AnswerTo(HCI_CMND_SENDTO) = HCI_EVNT_SENDTO
    /\ AnswerTo(HCI_CMND_NVMEM_WRITE) = HCI_EVNT_NVMEM_WRITE
    /\ \A op : op \notin {129, 131, 144} => AnswerTo(op) = op
<1>1. /\ HCI_CMND_SEND # HCI_CMND_SENDTO
      /\ HCI_CMND_SEND # HCI_CMND_NVMEM_WRITE
      /\ HCI_CMND_SENDTO # HCI_CMND_NVMEM_WRITE
  BY DEF HCI_CMND_SEND, HCI_CMND_SENDTO, HCI_CMND_NVMEM_WRITE
<1>2. \A op : op \notin {129, 131, 144} => /\ op # HCI_CMND_SEND
                                         /\ op # HCI_CMND_SENDTO
                                         /\ op # HCI_CMND_NVMEM_WRITE
  BY DEF HCI_CMND_SEND, HCI_CMND_SENDTO, HCI_CMND_NVMEM_WRITE
<1> QED
  BY <1>1, <1>2, Zenon DEF AnswerTo

LEMMA SocketAnswered == \A c \in SocketApi : WellAnswered(c)
<1> USE DEF Fails, HCI_CMND_SEND, HCI_CMND_SENDTO, HCI_CMND_NVMEM_WRITE
<1>1. /\ WellAnswered(Socket)
      /\ WellAnswered(CloseSocket)
      /\ WellAnswered(Listen)
      /\ WellAnswered(Bind)
      /\ WellAnswered(Connect)
  BY Passes, AnswerOf
  DEF WellAnswered, Socket, CloseSocket, Listen, Bind, Connect, Result32, Command, HCI_CMND_SOCKET,
      HCI_CMND_CLOSE_SOCKET, HCI_CMND_LISTEN, HCI_CMND_BIND, HCI_CMND_CONNECT
<1>2. /\ WellAnswered(Accept)
      /\ WellAnswered(Select)
      /\ WellAnswered(GetSockOpt)
      /\ WellAnswered(GetMss)
  BY Passes, AnswerOf
  DEF WellAnswered, Accept, Select, GetSockOpt, GetMss, Command, HCI_CMND_ACCEPT, HCI_CMND_BSD_SELECT,
      HCI_EVNT_SELECT, HCI_CMND_GETSOCKOPT, HCI_CMND_GETMSSVALUE, HCI_EVNT_GETMSSVALUE
<1>3. /\ WellAnswered(Recv)
      /\ WellAnswered(RecvFrom)
  BY Passes, AnswerOf DEF WellAnswered, Recv, RecvFrom, Received, Command, HCI_CMND_RECV, HCI_CMND_RECVFROM
<1>4. \A n \in Nat : WellAnswered(SetSockOpt(n))
  BY Passes, AnswerOf DEF WellAnswered, SetSockOpt, Command, HCI_CMND_SETSOCKOPT
<1>5. \A n \in Nat : WellAnswered(GetHostByName(n))
  BY Passes, AnswerOf
  DEF WellAnswered, GetHostByName, Command, HCI_CMND_GETHOSTNAME, HCI_EVNT_BSD_GETHOSTBYNAME
<1>6. \A n \in Nat : WellAnswered(MdnsAdvertiser(n))
  BY Passes, AnswerOf
  DEF WellAnswered, MdnsAdvertiser, Result8, Command, HCI_CMND_MDNS_ADVERTISE, HCI_EVNT_MDNS_ADVERTISE
<1>7. \A n \in Nat : WellAnswered(Send(n)) /\ WellAnswered(SendTo(n))
  BY Passes, AnswerOf DEF WellAnswered, Send, SendTo, Command, HCI_EVNT_SEND, HCI_EVNT_SENDTO
<1> QED
  BY <1>1, <1>2, <1>3, <1>4, <1>5, <1>6, <1>7 DEF SocketApi

LEMMA WlanAnswered == \A c \in WlanApi : WellAnswered(c)
<1> USE DEF Fails, Result32, Command, HCI_CMND_SEND, HCI_CMND_SENDTO,
            HCI_CMND_NVMEM_WRITE
<1>1. /\ WellAnswered(SimpleLinkStart)
      /\ WellAnswered(ReadBufferSize)
      /\ WellAnswered(GetScanResults)
  BY Passes, AnswerOf
  DEF WellAnswered, SimpleLinkStart, ReadBufferSize, GetScanResults, HCI_CMND_SIMPLE_LINK_START,
      HCI_CMND_READ_BUFFER_SIZE, HCI_EVNT_UNSOL_BASE, HCI_CMND_WLAN_IOCTL_GET_SCAN_RESULTS
<1>2. /\ WellAnswered(WlanDisconnect)
      /\ WellAnswered(SetConnectionPolicy)
      /\ WellAnswered(DelProfile)
      /\ WellAnswered(SetScanParams)
  BY Passes, AnswerOf
  DEF WellAnswered, WlanDisconnect, SetConnectionPolicy, DelProfile, SetScanParams,
      HCI_CMND_WLAN_DISCONNECT, HCI_CMND_WLAN_IOCTL_SET_CONNECTION_POLICY,
      HCI_CMND_WLAN_IOCTL_DEL_PROFILE, HCI_CMND_WLAN_IOCTL_SET_SCANPARAM
<1>3. /\ WellAnswered(SetEventMask)
      /\ WellAnswered(StatusGet)
      /\ WellAnswered(SmartConfigStart)
      /\ WellAnswered(SmartConfigStop)
      /\ WellAnswered(SmartConfigSetPrefix)
  BY Passes, AnswerOf
  DEF WellAnswered, SetEventMask, StatusGet, SmartConfigStart, SmartConfigStop, SmartConfigSetPrefix,
      HCI_CMND_EVENT_MASK, HCI_CMND_WLAN_IOCTL_STATUSGET,
      HCI_CMND_WLAN_IOCTL_SIMPLE_CONFIG_START, HCI_CMND_WLAN_IOCTL_SIMPLE_CONFIG_STOP,
      HCI_CMND_WLAN_IOCTL_SIMPLE_CONFIG_SET_PREFIX
<1>4. \A s, k \in Nat : WellAnswered(WlanConnect(s, k))
  BY Passes, AnswerOf DEF WellAnswered, WlanConnect, HCI_CMND_WLAN_CONNECT
<1>5. \A middle, first, key, len : WellAnswered(Profile(middle, first, key, len))
  BY Passes, AnswerOf DEF WellAnswered, Profile, HCI_CMND_WLAN_IOCTL_ADD_PROFILE
<1>6. \A s, k \in Nat : /\ WellAnswered(AddProfileUnsec(s))
                        /\ WellAnswered(AddProfileWep(s, k))
                        /\ WellAnswered(AddProfileWpa(s, k))
  BY <1>5 DEF AddProfileUnsec, AddProfileWep, AddProfileWpa
<1> QED
  BY <1>1, <1>2, <1>3, <1>4, <1>6 DEF WlanApi

LEMMA DeviceAnswered == \A c \in DeviceApi : WellAnswered(c)
<1> USE DEF Fails, Result8, ResultU8, Command, HCI_CMND_SEND, HCI_CMND_SENDTO,
            HCI_CMND_NVMEM_WRITE
<1>1. /\ WellAnswered(Dhcp)
      /\ WellAnswered(TimeoutValues)
      /\ WellAnswered(PingSend)
      /\ WellAnswered(PingReport)
      /\ WellAnswered(PingStop)
  BY Passes, AnswerOf
  DEF WellAnswered, Dhcp, TimeoutValues, PingSend, PingReport, PingStop, HCI_NETAPP_DHCP,
      HCI_NETAPP_SET_TIMERS, HCI_NETAPP_PING_SEND, HCI_NETAPP_PING_REPORT,
      HCI_NETAPP_PING_STOP
<1>2. /\ WellAnswered(ArpFlush)
      /\ WellAnswered(SetDebugLevel)
      /\ WellAnswered(IpConfig)
  BY Passes, AnswerOf
  DEF WellAnswered, ArpFlush, SetDebugLevel, IpConfig, HCI_NETAPP_ARP_FLUSH, HCI_NETAPP_SET_DEBUG_LEVEL,
      HCI_NETAPP_IPCONFIG
<1>3. /\ WellAnswered(NvmemRead)
      /\ WellAnswered(ReadSpVersion)
      /\ WellAnswered(NvmemCreateEntry)
  BY Passes, AnswerOf
  DEF WellAnswered, NvmemRead, ReadSpVersion, NvmemCreateEntry, HCI_CMND_NVMEM_READ,
      HCI_CMND_READ_SP_VERSION, HCI_CMND_NVMEM_CREATE_ENTRY
<1>4. \A n \in Nat : WellAnswered(NvmemWrite(n))
  BY Passes, AnswerOf DEF WellAnswered, NvmemWrite, Result32, HCI_EVNT_NVMEM_WRITE
<1> QED
  BY <1>1, <1>2, <1>3, <1>4 DEF DeviceApi

\* Every function of the API waits for the event that the device answers its command
\* with, and hci_unsol_event_handler lets that event pass.
THEOREM ApiAnswered == \A c \in Api : WellAnswered(c)
BY SocketAnswered, WlanAnswered, DeviceAnswered DEF Api

-----------------------------------------------------------------------------
\* What the answers write into the objects of the callers.

\* The numbers of the events that are decoded.
LEMMA Numbers ==
    /\ ResultInStatus = {8193, 8194, 8196, 8198, 8200, 8201, 513, 515, 8195, 4113}
    /\ ResultInParameters = {4105, 1, 9, 5, 6, 4, 3, 10, 11, 12, 8, 2, 4097, 4098, 4102, 4107,
                             4103, 514}
BY DEF ResultInStatus, ResultInParameters, HCI_NETAPP_DHCP, HCI_NETAPP_PING_SEND,
   HCI_NETAPP_PING_STOP, HCI_NETAPP_ARP_FLUSH, HCI_NETAPP_SET_DEBUG_LEVEL,
   HCI_NETAPP_SET_TIMERS, HCI_EVNT_NVMEM_READ, HCI_CMND_NVMEM_READ, HCI_CMND_NVMEM_CREATE_ENTRY,
   HCI_NETAPP_PING_REPORT, HCI_EVNT_MDNS_ADVERTISE, HCI_CMND_MDNS_ADVERTISE,
   HCI_CMND_SETSOCKOPT, HCI_CMND_WLAN_CONNECT, HCI_CMND_WLAN_IOCTL_STATUSGET,
   HCI_CMND_WLAN_IOCTL_ADD_PROFILE, HCI_CMND_WLAN_IOCTL_DEL_PROFILE,
   HCI_CMND_WLAN_IOCTL_SET_CONNECTION_POLICY, HCI_CMND_WLAN_IOCTL_SET_SCANPARAM,
   HCI_CMND_WLAN_IOCTL_SIMPLE_CONFIG_START, HCI_CMND_WLAN_IOCTL_SIMPLE_CONFIG_STOP,
   HCI_CMND_WLAN_IOCTL_SIMPLE_CONFIG_SET_PREFIX, HCI_CMND_EVENT_MASK, HCI_CMND_WLAN_DISCONNECT,
   HCI_CMND_SOCKET, HCI_CMND_BIND, HCI_CMND_LISTEN, HCI_CMND_CLOSE_SOCKET, HCI_CMND_CONNECT,
   HCI_EVNT_NVMEM_WRITE

\* The writes of each event, in bytes.
LEMMA Table ==
    /\ \A op \in ResultInStatus : Decoded(op) = << <<0, 1, 4>> >>
    /\ \A op \in ResultInParameters : Decoded(op) = << <<0, 4, 5>> >>
    /\ Decoded(519) = << <<0, 1, 4>>, <<1, 4, 5>> >>
    /\ Decoded(4112) = << <<0, 4, 5>>, <<4, 4, 9>> >>
    /\ Decoded(4114) = << <<0, 2, 5>> >>
    /\ Decoded(4101) = << <<0, 4, 5>>, <<4, 4, 9>>, <<8, 16, 13>> >>
    /\ \A op \in {4100, 4109} : Decoded(op) = << <<0, 4, 5>>, <<4, 4, 9>>, <<8, 4, 13>> >>
    /\ \A op \in {4099, 4111} : Decoded(op) = << <<0, 4, 5>>, <<4, 4, 9>> >>
    /\ Decoded(4104) = << <<0, 4, 5>>, <<4, 4, 9>>, <<8, 4, 13>>, <<12, 4, 17>> >>
    /\ Decoded(4106) = << <<4, 1, 4>>, <<0, 4, 5>> >>
    /\ Decoded(7) = << <<0, 4, 5>>, <<4, 4, 9>>, <<8, 2, 13>>, <<10, 2, -2>>, <<10, 2, 15>>,
                       <<12, 2, -2>>, <<12, 38, 17>> >>
    /\ Decoded(8197) = << <<0, 4, 5>>, <<4, 4, 9>>, <<8, 4, 13>>, <<12, 4, 17>>, <<16, 4, 21>>,
                          <<20, 6, 25>>, <<26, 32, 31>> >>
    /\ Decoded(4096) = <<>> /\ Decoded(16384) = <<>> /\ Decoded(16395) = <<>>
    /\ \A op \in Nat : op >= 32768 => Decoded(op) = <<>>
<1> USE Numbers
    DEF Decoded, Field, Param, Status, ToZero, HCI_EVENT_STATUS_OFFSET, HCI_EVENT_HEADER_SIZE,
        HCI_CMND_READ_SP_VERSION, HCI_EVNT_BSD_GETHOSTBYNAME, HCI_CMND_GETHOSTNAME,
        HCI_EVNT_GETMSSVALUE, HCI_CMND_GETMSSVALUE, HCI_CMND_ACCEPT, HCI_CMND_RECV,
        HCI_CMND_RECVFROM, HCI_EVNT_SEND, HCI_EVNT_SENDTO, HCI_EVNT_SELECT,
        HCI_CMND_BSD_SELECT, HCI_CMND_GETSOCKOPT, HCI_CMND_WLAN_IOCTL_GET_SCAN_RESULTS,
        HCI_NETAPP_IPCONFIG
<1>1. \A op \in ResultInStatus : Decoded(op) = << <<0, 1, 4>> >>
  <2>1. /\ Decoded(8193) = << <<0, 1, 4>> >> /\ Decoded(8194) = << <<0, 1, 4>> >>
       /\ Decoded(8196) = << <<0, 1, 4>> >> /\ Decoded(8198) = << <<0, 1, 4>> >>
       /\ Decoded(8200) = << <<0, 1, 4>> >> /\ Decoded(8201) = << <<0, 1, 4>> >>
    OBVIOUS
  <2>2. /\ Decoded(513) = << <<0, 1, 4>> >> /\ Decoded(515) = << <<0, 1, 4>> >>
       /\ Decoded(8195) = << <<0, 1, 4>> >> /\ Decoded(4113) = << <<0, 1, 4>> >>
    OBVIOUS
  <2> HIDE DEF Decoded
  <2> QED
    BY <2>1, <2>2
<1>2. \A op \in ResultInParameters : Decoded(op) = << <<0, 4, 5>> >>
  <2>1. /\ Decoded(4105) = << <<0, 4, 5>> >> /\ Decoded(1) = << <<0, 4, 5>> >>
       /\ Decoded(9) = << <<0, 4, 5>> >> /\ Decoded(5) = << <<0, 4, 5>> >>
       /\ Decoded(6) = << <<0, 4, 5>> >> /\ Decoded(4) = << <<0, 4, 5>> >>
    OBVIOUS
  <2>2. /\ Decoded(3) = << <<0, 4, 5>> >> /\ Decoded(10) = << <<0, 4, 5>> >>
       /\ Decoded(11) = << <<0, 4, 5>> >> /\ Decoded(12) = << <<0, 4, 5>> >>
       /\ Decoded(8) = << <<0, 4, 5>> >> /\ Decoded(2) = << <<0, 4, 5>> >>
    OBVIOUS
  <2>3. /\ Decoded(4097) = << <<0, 4, 5>> >> /\ Decoded(4098) = << <<0, 4, 5>> >>
       /\ Decoded(4102) = << <<0, 4, 5>> >> /\ Decoded(4107) = << <<0, 4, 5>> >>
       /\ Decoded(4103) = << <<0, 4, 5>> >> /\ Decoded(514) = << <<0, 4, 5>> >>
    OBVIOUS
  <2> HIDE DEF Decoded
  <2> QED
    BY <2>1, <2>2, <2>3
<1>3. /\ Decoded(519) = << <<0, 1, 4>>, <<1, 4, 5>> >>
      /\ Decoded(4112) = << <<0, 4, 5>>, <<4, 4, 9>> >>
      /\ Decoded(4114) = << <<0, 2, 5>> >>
      /\ Decoded(4101) = << <<0, 4, 5>>, <<4, 4, 9>>, <<8, 16, 13>> >>
  OBVIOUS
<1>4. /\ \A op \in {4100, 4109} : Decoded(op) = << <<0, 4, 5>>, <<4, 4, 9>>, <<8, 4, 13>> >>
      /\ \A op \in {4099, 4111} : Decoded(op) = << <<0, 4, 5>>, <<4, 4, 9>> >>
  OBVIOUS
<1>5. /\ Decoded(4104) = << <<0, 4, 5>>, <<4, 4, 9>>, <<8, 4, 13>>, <<12, 4, 17>> >>
      /\ Decoded(4106) = << <<4, 1, 4>>, <<0, 4, 5>> >>
  OBVIOUS
<1>6. Decoded(7) = << <<0, 4, 5>>, <<4, 4, 9>>, <<8, 2, 13>>, <<10, 2, -2>>, <<10, 2, 15>>,
                      <<12, 2, -2>>, <<12, 38, 17>> >>
  OBVIOUS
<1>7. Decoded(8197) = << <<0, 4, 5>>, <<4, 4, 9>>, <<8, 4, 13>>, <<12, 4, 17>>,
                         <<16, 4, 21>>, <<20, 6, 25>>, <<26, 32, 31>> >>
  OBVIOUS
<1>8. Decoded(4096) = <<>> /\ Decoded(16384) = <<>> /\ Decoded(16395) = <<>>
  OBVIOUS
<1>9. \A op \in Nat : op >= 32768 => Decoded(op) = <<>>
  OBVIOUS
<1> QED
  BY <1>1, <1>2, <1>3, <1>4, <1>5, <1>6, <1>7, <1>8, <1>9

\* Each object has room for what its event writes, and keeps what is taken of it.
LEMMA ByteFits ==
    Fits(<< <<0, 1, 4>> >>,
         1, {<<0, 1, 4>>})
<1> DEFINE d == << <<0, 1, 4>> >>
<1>1. Within(d, 1)
  BY DEF Within, Placed, ObjectSize
<1>2. 1 \in DOMAIN d /\ Stays(d, 1, <<0, 1, 4>>)
  BY DEF Stays, Supplies, Apart, ToZero, Placed
<1> HIDE DEF d
<1>3. Fits(d, 1, {<<0, 1, 4>>})
  BY <1>1, <1>2 DEF Fits
<1> QED
  BY <1>3 DEF d

LEMMA WordFits ==
    Fits(<< <<0, 4, 5>> >>,
         4, {<<0, 4, 5>>})
<1> DEFINE d == << <<0, 4, 5>> >>
<1>1. Within(d, 4)
  BY DEF Within, Placed, ObjectSize
<1>2. 1 \in DOMAIN d /\ Stays(d, 1, <<0, 4, 5>>)
  BY DEF Stays, Supplies, Apart, ToZero, Placed
<1> HIDE DEF d
<1>3. Fits(d, 4, {<<0, 4, 5>>})
  BY <1>1, <1>2 DEF Fits
<1> QED
  BY <1>3 DEF d

LEMMA VersionFits ==
    Fits(<< <<0, 1, 4>>, <<1, 4, 5>> >>,
         5, {<<0, 1, 4>>, <<3, 1, 7>>, <<4, 1, 8>>})
<1> DEFINE d == << <<0, 1, 4>>, <<1, 4, 5>> >>
<1>1. Within(d, 5)
  BY DEF Within, Placed, ObjectSize
<1>2. 1 \in DOMAIN d /\ Stays(d, 1, <<0, 1, 4>>)
  BY DEF Stays, Supplies, Apart, ToZero, Placed
<1>3. 2 \in DOMAIN d /\ Stays(d, 2, <<3, 1, 7>>)
  BY DEF Stays, Supplies, Apart, ToZero, Placed
<1>4. 2 \in DOMAIN d /\ Stays(d, 2, <<4, 1, 8>>)
  BY DEF Stays, Supplies, Apart, ToZero, Placed
<1> HIDE DEF d
<1>5. Fits(d, 5, {<<0, 1, 4>>, <<3, 1, 7>>, <<4, 1, 8>>})
  BY <1>1, <1>2, <1>3, <1>4 DEF Fits
<1> QED
  BY <1>5 DEF d

LEMMA HostFits ==
    Fits(<< <<0, 4, 5>>, <<4, 4, 9>> >>,
         8, {<<0, 4, 5>>, <<4, 4, 9>>})
<1> DEFINE d == << <<0, 4, 5>>, <<4, 4, 9>> >>
<1>1. Within(d, 8)
  BY DEF Within, Placed, ObjectSize
<1>2. 1 \in DOMAIN d /\ Stays(d, 1, <<0, 4, 5>>)
  BY DEF Stays, Supplies, Apart, ToZero, Placed
<1>3. 2 \in DOMAIN d /\ Stays(d, 2, <<4, 4, 9>>)
  BY DEF Stays, Supplies, Apart, ToZero, Placed
<1> HIDE DEF d
<1>4. Fits(d, 8, {<<0, 4, 5>>, <<4, 4, 9>>})
  BY <1>1, <1>2, <1>3 DEF Fits
<1> QED
  BY <1>4 DEF d

LEMMA MssFits ==
    Fits(<< <<0, 2, 5>> >>,
         2, {<<0, 2, 5>>})
<1> DEFINE d == << <<0, 2, 5>> >>
<1>1. Within(d, 2)
  BY DEF Within, Placed, ObjectSize
<1>2. 1 \in DOMAIN d /\ Stays(d, 1, <<0, 2, 5>>)
  BY DEF Stays, Supplies, Apart, ToZero, Placed
<1> HIDE DEF d
<1>3. Fits(d, 2, {<<0, 2, 5>>})
  BY <1>1, <1>2 DEF Fits
<1> QED
  BY <1>3 DEF d

LEMMA AcceptedFits ==
    Fits(<< <<0, 4, 5>>, <<4, 4, 9>>, <<8, 16, 13>> >>,
         24, {<<4, 4, 9>>, <<8, 8, 13>>})
<1> DEFINE d == << <<0, 4, 5>>, <<4, 4, 9>>, <<8, 16, 13>> >>
<1>1. Within(d, 24)
  BY DEF Within, Placed, ObjectSize
<1>2. 2 \in DOMAIN d /\ Stays(d, 2, <<4, 4, 9>>)
  BY DEF Stays, Supplies, Apart, ToZero, Placed
<1>3. 3 \in DOMAIN d /\ Stays(d, 3, <<8, 8, 13>>)
  BY DEF Stays, Supplies, Apart, ToZero, Placed
<1> HIDE DEF d
<1>4. Fits(d, 24, {<<4, 4, 9>>, <<8, 8, 13>>})
  BY <1>1, <1>2, <1>3 DEF Fits
<1> QED
  BY <1>4 DEF d

LEMMA ReadFits ==
    Fits(<< <<0, 4, 5>>, <<4, 4, 9>>, <<8, 4, 13>> >>,
         12, {<<4, 4, 9>>})
<1> DEFINE d == << <<0, 4, 5>>, <<4, 4, 9>>, <<8, 4, 13>> >>
<1>1. Within(d, 12)
  BY DEF Within, Placed, ObjectSize
<1>2. 2 \in DOMAIN d /\ Stays(d, 2, <<4, 4, 9>>)
  BY DEF Stays, Supplies, Apart, ToZero, Placed
<1> HIDE DEF d
<1>3. Fits(d, 12, {<<4, 4, 9>>})
  BY <1>1, <1>2 DEF Fits
<1> QED
  BY <1>3 DEF d

LEMMA SendDoneFits ==
    Fits(<< <<0, 4, 5>>, <<4, 4, 9>> >>,
         12, {})
<1> DEFINE d == << <<0, 4, 5>>, <<4, 4, 9>> >>
<1>1. Within(d, 12)
  BY DEF Within, Placed, ObjectSize
<1> HIDE DEF d
<1>2. Fits(d, 12, {})
  BY <1>1 DEF Fits
<1> QED
  BY <1>2 DEF d

LEMMA SelectedFits ==
    Fits(<< <<0, 4, 5>>, <<4, 4, 9>>, <<8, 4, 13>>, <<12, 4, 17>> >>,
         16, {<<0, 4, 5>>, <<4, 4, 9>>, <<8, 4, 13>>, <<12, 4, 17>>})
<1> DEFINE d == << <<0, 4, 5>>, <<4, 4, 9>>, <<8, 4, 13>>, <<12, 4, 17>> >>
<1>1. Within(d, 16)
  BY DEF Within, Placed, ObjectSize
<1>2. 1 \in DOMAIN d /\ Stays(d, 1, <<0, 4, 5>>)
  BY DEF Stays, Supplies, Apart, ToZero, Placed
<1>3. 2 \in DOMAIN d /\ Stays(d, 2, <<4, 4, 9>>)
  BY DEF Stays, Supplies, Apart, ToZero, Placed
<1>4. 3 \in DOMAIN d /\ Stays(d, 3, <<8, 4, 13>>)
  BY DEF Stays, Supplies, Apart, ToZero, Placed
<1>5. 4 \in DOMAIN d /\ Stays(d, 4, <<12, 4, 17>>)
  BY DEF Stays, Supplies, Apart, ToZero, Placed
<1> HIDE DEF d
<1>6. Fits(d, 16, {<<0, 4, 5>>, <<4, 4, 9>>, <<8, 4, 13>>, <<12, 4, 17>>})
  BY <1>1, <1>2, <1>3, <1>4, <1>5 DEF Fits
<1> QED
  BY <1>6 DEF d

LEMMA OptionFits ==
    Fits(<< <<4, 1, 4>>, <<0, 4, 5>> >>,
         5, {<<0, 4, 5>>, <<4, 1, 4>>})
<1> DEFINE d == << <<4, 1, 4>>, <<0, 4, 5>> >>
<1>1. Within(d, 5)
  BY DEF Within, Placed, ObjectSize
<1>2. 2 \in DOMAIN d /\ Stays(d, 2, <<0, 4, 5>>)
  BY DEF Stays, Supplies, Apart, ToZero, Placed
<1>3. 1 \in DOMAIN d /\ Stays(d, 1, <<4, 1, 4>>)
  BY DEF Stays, Supplies, Apart, ToZero, Placed
<1> HIDE DEF d
<1>4. Fits(d, 5, {<<0, 4, 5>>, <<4, 1, 4>>})
  BY <1>1, <1>2, <1>3 DEF Fits
<1> QED
  BY <1>4 DEF d

LEMMA ScanFits ==
    Fits(<< <<0, 4, 5>>, <<4, 4, 9>>, <<8, 2, 13>>, <<10, 2, -2>>, <<10, 2, 15>>,
            <<12, 2, -2>>, <<12, 38, 17>> >>,
         50, {<<0, 4, 5>>, <<4, 4, 9>>, <<8, 2, 13>>, <<10, 2, 15>>, <<12, 38, 17>>})
<1> DEFINE d == << <<0, 4, 5>>, <<4, 4, 9>>, <<8, 2, 13>>, <<10, 2, -2>>, <<10, 2, 15>>,
                  <<12, 2, -2>>, <<12, 38, 17>> >>
<1>1. Within(d, 50)
  BY DEF Within, Placed, ObjectSize
<1>2. 1 \in DOMAIN d /\ Stays(d, 1, <<0, 4, 5>>)
  BY DEF Stays, Supplies, Apart, ToZero, Placed
<1>3. 2 \in DOMAIN d /\ Stays(d, 2, <<4, 4, 9>>)
  BY DEF Stays, Supplies, Apart, ToZero, Placed
<1>4. 3 \in DOMAIN d /\ Stays(d, 3, <<8, 2, 13>>)
  BY DEF Stays, Supplies, Apart, ToZero, Placed
<1>5. 5 \in DOMAIN d /\ Stays(d, 5, <<10, 2, 15>>)
  BY DEF Stays, Supplies, Apart, ToZero, Placed
<1>6. 7 \in DOMAIN d /\ Stays(d, 7, <<12, 38, 17>>)
  BY DEF Stays, Supplies, Apart, ToZero, Placed
<1> HIDE DEF d
<1>7. Fits(d, 50, {<<0, 4, 5>>, <<4, 4, 9>>, <<8, 2, 13>>, <<10, 2, 15>>, <<12, 38, 17>>})
  BY <1>1, <1>2, <1>3, <1>4, <1>5, <1>6 DEF Fits
<1> QED
  BY <1>7 DEF d

LEMMA ConfigFits ==
    Fits(<< <<0, 4, 5>>, <<4, 4, 9>>, <<8, 4, 13>>, <<12, 4, 17>>, <<16, 4, 21>>,
            <<20, 6, 25>>, <<26, 32, 31>> >>,
         58, {<<0, 4, 5>>, <<4, 4, 9>>, <<8, 4, 13>>, <<12, 4, 17>>, <<16, 4, 21>>,
              <<20, 6, 25>>, <<26, 32, 31>>})
<1> DEFINE d == << <<0, 4, 5>>, <<4, 4, 9>>, <<8, 4, 13>>, <<12, 4, 17>>, <<16, 4, 21>>,
                  <<20, 6, 25>>, <<26, 32, 31>> >>
<1>1. Within(d, 58)
  BY DEF Within, Placed, ObjectSize
<1>2. 1 \in DOMAIN d /\ Stays(d, 1, <<0, 4, 5>>)
  BY DEF Stays, Supplies, Apart, ToZero, Placed
<1>3. 2 \in DOMAIN d /\ Stays(d, 2, <<4, 4, 9>>)
  BY DEF Stays, Supplies, Apart, ToZero, Placed
<1>4. 3 \in DOMAIN d /\ Stays(d, 3, <<8, 4, 13>>)
  BY DEF Stays, Supplies, Apart, ToZero, Placed
<1>5. 4 \in DOMAIN d /\ Stays(d, 4, <<12, 4, 17>>)
  BY DEF Stays, Supplies, Apart, ToZero, Placed
<1>6. 5 \in DOMAIN d /\ Stays(d, 5, <<16, 4, 21>>)
  BY DEF Stays, Supplies, Apart, ToZero, Placed
<1>7. 6 \in DOMAIN d /\ Stays(d, 6, <<20, 6, 25>>)
  BY DEF Stays, Supplies, Apart, ToZero, Placed
<1>8. 7 \in DOMAIN d /\ Stays(d, 7, <<26, 32, 31>>)
  BY DEF Stays, Supplies, Apart, ToZero, Placed
<1> HIDE DEF d
<1>9. Fits(d, 58, {<<0, 4, 5>>, <<4, 4, 9>>, <<8, 4, 13>>, <<12, 4, 17>>, <<16, 4, 21>>,
               <<20, 6, 25>>, <<26, 32, 31>>})
  BY <1>1, <1>2, <1>3, <1>4, <1>5, <1>6, <1>7, <1>8 DEF Fits
<1> QED
  BY <1>9 DEF d

\* A function that returns the first four bytes, or the status byte.
LEMMA OneField ==
    ASSUME NEW op, NEW args, NEW len
    PROVE  /\ \A ev \in ResultInParameters : WellDecoded(Result32(op, ev, args, len))
           /\ \A ev \in ResultInStatus : /\ WellDecoded(Result8(op, ev, args, len))
                                       /\ WellDecoded(ResultU8(op, ev, args, len))
<1> USE DEF WellDecoded, Command, Param, Status, HCI_EVENT_STATUS_OFFSET, HCI_EVENT_HEADER_SIZE
<1>1. ASSUME NEW ev \in ResultInParameters PROVE WellDecoded(Result32(op, ev, args, len))
  <2>1. Decoded(ev) = << <<0, 4, 5>> >>
    BY Table
  <2> QED
    BY <2>1, WordFits DEF Result32
<1>2. ASSUME NEW ev \in ResultInStatus
      PROVE  /\ WellDecoded(Result8(op, ev, args, len))
             /\ WellDecoded(ResultU8(op, ev, args, len))
  <2>1. Decoded(ev) = << <<0, 1, 4>> >>
    BY Table
  <2> QED
    BY <2>1, ByteFits DEF Result8, ResultU8
<1> QED
  BY <1>1, <1>2

LEMMA SocketDecoded == \A c \in SocketApi : WellDecoded(c)
<1>1. /\ WellDecoded(Socket)
      /\ WellDecoded(CloseSocket)
      /\ WellDecoded(Listen)
      /\ WellDecoded(Bind)
      /\ WellDecoded(Connect)
  BY OneField
  DEF Socket, CloseSocket, Listen, Bind, Connect, ResultInParameters
<1>2. WellDecoded(Accept)
  <2>1. Decoded(HCI_CMND_ACCEPT) = << <<0, 4, 5>>, <<4, 4, 9>>, <<8, 16, 13>> >>
    BY Table DEF HCI_CMND_ACCEPT
  <2> QED
    BY <2>1, AcceptedFits
    DEF WellDecoded, Command, Accept, Param, Status, HCI_EVENT_STATUS_OFFSET,
        HCI_EVENT_HEADER_SIZE
<1>3. WellDecoded(Select)
  <2>1. Decoded(HCI_EVNT_SELECT) = << <<0, 4, 5>>, <<4, 4, 9>>, <<8, 4, 13>>,
                                      <<12, 4, 17>> >>
    BY Table DEF HCI_EVNT_SELECT, HCI_CMND_BSD_SELECT
  <2> QED
    BY <2>1, SelectedFits
    DEF WellDecoded, Command, Select, Param, Status, HCI_EVENT_STATUS_OFFSET,
        HCI_EVENT_HEADER_SIZE
<1>4. WellDecoded(GetSockOpt)
  <2>1. Decoded(HCI_CMND_GETSOCKOPT) = << <<4, 1, 4>>, <<0, 4, 5>> >>
    BY Table DEF HCI_CMND_GETSOCKOPT
  <2> QED
    BY <2>1, OptionFits
    DEF WellDecoded, Command, GetSockOpt, Param, Status, HCI_EVENT_STATUS_OFFSET,
        HCI_EVENT_HEADER_SIZE
<1>5. WellDecoded(GetMss)
  <2>1. Decoded(HCI_EVNT_GETMSSVALUE) = << <<0, 2, 5>> >>
    BY Table DEF HCI_EVNT_GETMSSVALUE, HCI_CMND_GETMSSVALUE
  <2> QED
    BY <2>1, MssFits
    DEF WellDecoded, Command, GetMss, Param, Status, HCI_EVENT_STATUS_OFFSET,
        HCI_EVENT_HEADER_SIZE
<1>6. /\ WellDecoded(Recv)
      /\ WellDecoded(RecvFrom)
  <2>1. Decoded(HCI_CMND_RECV) = << <<0, 4, 5>>, <<4, 4, 9>>, <<8, 4, 13>> >>
    BY Table DEF HCI_CMND_RECV, HCI_CMND_RECVFROM
  <2>2. Decoded(HCI_CMND_RECVFROM) = << <<0, 4, 5>>, <<4, 4, 9>>, <<8, 4, 13>> >>
    BY Table DEF HCI_CMND_RECV, HCI_CMND_RECVFROM
  <2> QED
    BY <2>1, <2>2, ReadFits
    DEF WellDecoded, Command, Recv, RecvFrom, Received, Param, Status,
        HCI_EVENT_STATUS_OFFSET, HCI_EVENT_HEADER_SIZE
<1>7. \A n \in Nat : WellDecoded(GetHostByName(n))
  <2>1. Decoded(HCI_EVNT_BSD_GETHOSTBYNAME) = << <<0, 4, 5>>, <<4, 4, 9>> >>
    BY Table DEF HCI_EVNT_BSD_GETHOSTBYNAME, HCI_CMND_GETHOSTNAME
  <2> QED
    BY <2>1, HostFits
    DEF WellDecoded, Command, GetHostByName, Param, Status, HCI_EVENT_STATUS_OFFSET,
        HCI_EVENT_HEADER_SIZE
<1>8. \A n \in Nat : WellDecoded(MdnsAdvertiser(n))
  BY OneField
  DEF MdnsAdvertiser, ResultInStatus
<1>9. \A n \in Nat : /\ WellDecoded(Send(n))
                     /\ WellDecoded(SendTo(n))
  <2>1. Decoded(HCI_EVNT_SEND) = << <<0, 4, 5>>, <<4, 4, 9>> >>
    BY Table DEF HCI_EVNT_SEND, HCI_EVNT_SENDTO
  <2>2. Decoded(HCI_EVNT_SENDTO) = << <<0, 4, 5>>, <<4, 4, 9>> >>
    BY Table DEF HCI_EVNT_SEND, HCI_EVNT_SENDTO
  <2> QED
    BY <2>1, <2>2, SendDoneFits
    DEF WellDecoded, Command, Send, SendTo, Param, Status, HCI_EVENT_STATUS_OFFSET,
        HCI_EVENT_HEADER_SIZE
<1>10. \A n \in Nat : WellDecoded(SetSockOpt(n))
  <2>1. Decoded(HCI_CMND_SETSOCKOPT) = << <<0, 4, 5>> >>
    BY Table DEF ResultInParameters
  <2> QED
    BY <2>1, WordFits
    DEF WellDecoded, Command, SetSockOpt, Param, Status, HCI_EVENT_STATUS_OFFSET,
        HCI_EVENT_HEADER_SIZE
<1> QED
  BY <1>1, <1>2, <1>3, <1>4, <1>5, <1>6, <1>7, <1>8, <1>9, <1>10 DEF SocketApi

LEMMA WlanDecoded == \A c \in WlanApi : WellDecoded(c)
<1>1. /\ WellDecoded(SimpleLinkStart)
      /\ WellDecoded(ReadBufferSize)
  <2>1. Decoded(16384) = <<>> /\ Decoded(16395) = <<>>
    BY Table
  <2>2. HCI_CMND_SIMPLE_LINK_START = 16384 /\ HCI_CMND_READ_BUFFER_SIZE = 16395
    BY DEF HCI_CMND_SIMPLE_LINK_START, HCI_CMND_READ_BUFFER_SIZE, HCI_EVNT_UNSOL_BASE
  <2>3. Fits(<<>>, 0, {})
    BY DEF Fits, Within, Placed, ObjectSize
  <2> QED
    BY <2>1, <2>2, <2>3 DEF WellDecoded, Command, SimpleLinkStart, ReadBufferSize
<1>2. WellDecoded(GetScanResults)
  <2>1. Decoded(HCI_CMND_WLAN_IOCTL_GET_SCAN_RESULTS) = << <<0, 4, 5>>, <<4, 4, 9>>,
                                                           <<8, 2, 13>>, <<10, 2, -2>>,
                                                           <<10, 2, 15>>, <<12, 2, -2>>,
                                                           <<12, 38, 17>> >>
    BY Table DEF HCI_CMND_WLAN_IOCTL_GET_SCAN_RESULTS
  <2> QED
    BY <2>1, ScanFits
    DEF WellDecoded, Command, GetScanResults, Param, Status, HCI_EVENT_STATUS_OFFSET,
        HCI_EVENT_HEADER_SIZE
<1>3. /\ WellDecoded(WlanDisconnect)
      /\ WellDecoded(SetConnectionPolicy)
      /\ WellDecoded(DelProfile)
      /\ WellDecoded(SetScanParams)
  BY OneField
  DEF WlanDisconnect, SetConnectionPolicy, DelProfile, SetScanParams, ResultInParameters
<1>4. /\ WellDecoded(SetEventMask)
      /\ WellDecoded(StatusGet)
      /\ WellDecoded(SmartConfigStart)
      /\ WellDecoded(SmartConfigStop)
      /\ WellDecoded(SmartConfigSetPrefix)
  BY OneField
  DEF SetEventMask, StatusGet, SmartConfigStart, SmartConfigStop, SmartConfigSetPrefix,
      ResultInParameters
<1>5. \A s, k \in Nat : WellDecoded(WlanConnect(s, k))
  BY OneField
  DEF WlanConnect, ResultInParameters
<1>6. \A middle, first, key, len : WellDecoded(Profile(middle, first, key, len))
  BY OneField DEF Profile, ResultInParameters
<1>7. \A s, k \in Nat : /\ WellDecoded(AddProfileUnsec(s))
                        /\ WellDecoded(AddProfileWep(s, k))
                        /\ WellDecoded(AddProfileWpa(s, k))
  BY <1>6 DEF AddProfileUnsec, AddProfileWep, AddProfileWpa
<1> QED
  BY <1>1, <1>2, <1>3, <1>4, <1>5, <1>6, <1>7 DEF WlanApi

LEMMA DeviceDecoded == \A c \in DeviceApi : WellDecoded(c)
<1>1. /\ WellDecoded(Dhcp)
      /\ WellDecoded(TimeoutValues)
      /\ WellDecoded(PingSend)
      /\ WellDecoded(PingStop)
  BY OneField
  DEF Dhcp, TimeoutValues, PingSend, PingStop, ResultInStatus
<1>2. /\ WellDecoded(ArpFlush)
      /\ WellDecoded(SetDebugLevel)
  BY OneField
  DEF ArpFlush, SetDebugLevel, ResultInStatus
<1>3. WellDecoded(IpConfig)
  <2>1. Decoded(HCI_NETAPP_IPCONFIG) = << <<0, 4, 5>>, <<4, 4, 9>>, <<8, 4, 13>>,
                                          <<12, 4, 17>>, <<16, 4, 21>>, <<20, 6, 25>>,
                                          <<26, 32, 31>> >>
    BY Table DEF HCI_NETAPP_IPCONFIG
  <2> QED
    BY <2>1, ConfigFits
    DEF WellDecoded, Command, IpConfig, Param, Status, HCI_EVENT_STATUS_OFFSET,
        HCI_EVENT_HEADER_SIZE
<1>4. WellDecoded(PingReport)
  <2>1. Decoded(HCI_NETAPP_PING_REPORT) = << <<0, 1, 4>> >>
    BY Table DEF ResultInStatus
  <2> QED
    BY <2>1, ByteFits
    DEF WellDecoded, Command, Result8, PingReport, Param, Status, HCI_EVENT_STATUS_OFFSET,
        HCI_EVENT_HEADER_SIZE
<1>5. WellDecoded(ReadSpVersion)
  <2>1. Decoded(HCI_CMND_READ_SP_VERSION) = << <<0, 1, 4>>, <<1, 4, 5>> >>
    BY Table DEF HCI_CMND_READ_SP_VERSION
  <2> QED
    BY <2>1, VersionFits
    DEF WellDecoded, Command, ReadSpVersion, Param, Status, HCI_EVENT_STATUS_OFFSET,
        HCI_EVENT_HEADER_SIZE
<1>6. \A n \in Nat : WellDecoded(NvmemWrite(n))
  <2>1. Decoded(HCI_EVNT_NVMEM_WRITE) = << <<0, 4, 5>> >>
    BY Table DEF ResultInParameters
  <2> QED
    BY <2>1, WordFits
    DEF WellDecoded, Command, Result32, NvmemWrite, Param, Status, HCI_EVENT_STATUS_OFFSET,
        HCI_EVENT_HEADER_SIZE
<1>7. WellDecoded(NvmemRead)
  <2>1. Decoded(HCI_CMND_NVMEM_READ) = << <<0, 1, 4>> >>
    BY Table DEF ResultInStatus, HCI_EVNT_NVMEM_READ
  <2> QED
    BY <2>1, ByteFits
    DEF WellDecoded, Command, ResultU8, NvmemRead, Param, Status, HCI_EVENT_STATUS_OFFSET,
        HCI_EVENT_HEADER_SIZE
<1>8. WellDecoded(NvmemCreateEntry)
  BY OneField
  DEF NvmemCreateEntry, ResultInStatus
<1> QED
  BY <1>1, <1>2, <1>3, <1>4, <1>5, <1>6, <1>7, <1>8 DEF DeviceApi

\* For every function of the API hci_event_handler's writes for its answer fit the object
\* the function passes, and are where the function takes its results.
THEOREM ApiDecoded == \A c \in Api : WellDecoded(c)
BY SocketDecoded, WlanDecoded, DeviceDecoded DEF Api

-----------------------------------------------------------------------------
\* What is in an object once an event is decoded.

\* Nothing behind the object, whose end no write passes.
LEMMA DecodedWithin ==
    ASSUME NEW ev, NEW obj, Within(Decoded(ev), obj)
    PROVE  \A i \in 0..(ObjectSize - 1) : i >= obj => Decode(ev, Blank)[i] = Untouched
<1> SUFFICES ASSUME NEW i \in 0..(ObjectSize - 1), i >= obj
             PROVE  Decode(ev, Blank)[i] = Untouched
  OBVIOUS
<1> DEFINE d == Decoded(ev)
<1>1. \A k \in DOMAIN d : ~(d[k][1] <= i /\ i < d[k][1] + d[k][2])
  <2> TAKE k \in DOMAIN d
  <2>1. d[k] \in Placed /\ d[k][1] + d[k][2] <= obj
    BY DEF Within
  <2> HIDE DEF d
  <2> QED
    BY <2>1 DEF Placed, ObjectSize, Within
<1>2. Over(ev, i) = {}
  BY <1>1 DEF Over
<1> QED
  BY <1>2 DEF Decode, Blank

\* The last of a set of numbers is its maximum.
LEMMA LastIsMax ==
    ASSUME NEW S \in SUBSET Int, NEW k \in S, \A j \in S : j <= k
    PROVE  Max(S) = k
<1>1. \A m \in S : (\A j \in S : m >= j) => m = k
  OBVIOUS
<1> QED
  BY <1>1 DEF Max

\* A field that is taken holds what the last write over it put there.
LEMMA DecodedThere ==
    ASSUME NEW ev, NEW obj, Within(Decoded(ev), obj),
           NEW k, NEW t, Stays(Decoded(ev), k, t), NEW i \in 0..(t[2] - 1)
    PROVE  Decode(ev, Blank)[t[1] + i] = From(ev, t[3] + i)
<1> DEFINE d == Decoded(ev)
           at == t[1] + i
<1>1. /\ t[1] \in Nat /\ t[2] \in Nat /\ t[3] \in Int /\ k \in DOMAIN d
      /\ Supplies(d[k], t) /\ \A j \in DOMAIN d : j > k => Apart(d[j], t)
  BY DEF Stays, Placed
<1>2. \A j \in DOMAIN d : /\ j \in Nat /\ d[j][1] \in Nat /\ d[j][2] \in Nat
                         /\ d[j][3] \in Int /\ d[j][1] + d[j][2] <= obj
  <2>1. \A j \in DOMAIN d : j \in Nat /\ d[j] \in Placed /\ d[j][1] + d[j][2] <= obj
    BY DEF Within
  <2> HIDE DEF d
  <2> QED
    BY <2>1 DEF Placed
<1>3. obj \in 0..ObjectSize
  BY DEF Within
<1> HIDE DEF d
<1>4. d[k][1] <= at /\ at < d[k][1] + d[k][2]
  BY <1>1, <1>2 DEF Supplies
<1>5. at \in 0..(ObjectSize - 1)
  BY <1>1, <1>2, <1>3, <1>4 DEF ObjectSize
<1>6. \A j \in DOMAIN d : d[j][1] <= at /\ at < d[j][1] + d[j][2] => j <= k
  BY <1>1, <1>2 DEF Apart
<1>7. Over(ev, at) = {j \in DOMAIN d : d[j][1] <= at /\ at < d[j][1] + d[j][2]}
  BY DEF Over, d
<1>8. Max(Over(ev, at)) = k /\ Over(ev, at) # {}
  BY <1>1, <1>2, <1>4, <1>6, <1>7, LastIsMax
<1>9. Decode(ev, Blank)[at] = Write(ev, d[k], at)
  <2> HIDE DEF at
  <2> QED
    BY <1>5, <1>8 DEF Decode, Blank, d
<1>10. Write(ev, d[k], at) = From(ev, d[k][3] + at - d[k][1])
  BY <1>1 DEF Write, Supplies
<1>11. d[k][3] + at - d[k][1] = t[3] + i
  <2>1. d[k][3] \in Int /\ d[k][1] \in Nat
    BY <1>1, <1>2
  <2>2. d[k][3] - d[k][1] = t[3] - t[1]
    BY <1>1 DEF Supplies
  <2> QED
    BY <1>1, <2>1, <2>2
<1> QED
  BY <1>9, <1>10, <1>11

-----------------------------------------------------------------------------
\* Results.

LEMMA ReturnedOf ==
    ASSUME NEW s
    PROVE  /\ Returned("INT8", s) = Signed(s, 8)
           /\ Returned("UINT8", s) = s % 256
           /\ Returned("INT16", s) = Signed(s, 16)
           /\ Returned("bytes", s) = Signed(s, 16)
           /\ Returned("INT32", s) = s
           /\ Returned("select", s) = IF s >= 0 THEN Signed(s, 16) ELSE -1
           /\ Returned("sockopt", s) = IF s >= 0 THEN 0 ELSE Signed(s, 16)
           /\ Returned("void", s) = 0
<1>1. Returned("INT8", s) = Signed(s, 8)
  BY Zenon DEF Returned
<1>2. Returned("UINT8", s) = s % 256
  BY Zenon DEF Returned
<1>3. Returned("INT16", s) = Signed(s, 16)
  BY Zenon DEF Returned
<1>4. Returned("bytes", s) = Signed(s, 16)
  BY Zenon DEF Returned
<1>5. Returned("INT32", s) = s
  BY Zenon DEF Returned
<1>6. Returned("select", s) = IF s >= 0 THEN Signed(s, 16) ELSE -1
  BY Zenon DEF Returned
<1>7. Returned("sockopt", s) = IF s >= 0 THEN 0 ELSE Signed(s, 16)
  BY Zenon DEF Returned
<1>8. Returned("void", s) = 0
  BY Zenon DEF Returned
<1> QED
  BY <1>1, <1>2, <1>3, <1>4, <1>5, <1>6, <1>7, <1>8

LEMMA SignedByte ==
    ASSUME NEW s \in Int
    PROVE  /\ Signed(s, 8) \in Int
           /\ (-128 <= s /\ s < 0) => Signed(s, 8) = s
BY DEF Signed

LEMMA SignedWord ==
    ASSUME NEW s \in Int
    PROVE  /\ Signed(s, 16) \in Int
           /\ (-32768 <= s /\ s < 0) => Signed(s, 16) = s
<1> DEFINE m == (s + 32768) % 65536
<1>1. 2^(16 - 1) = 32768 /\ 2^16 = 65536
  OBVIOUS
<1>2. Signed(s, 16) = m - 32768
  BY <1>1 DEF Signed
<1>3. m \in Int
  OBVIOUS
<1>4. -32768 <= s /\ s < 0 => m = s + 32768
  OBVIOUS
<1> HIDE DEF m
<1>5. Signed(s, 16) \in Int
  BY <1>2, <1>3
<1>6. ASSUME -32768 <= s /\ s < 0 PROVE Signed(s, 16) = s
  <2>1. m - 32768 = s
    BY <1>4, <1>6
  <2> QED
    BY <1>2, <2>1
<1> QED
  BY <1>5, <1>6

\* A status is returned as a number.
LEMMA ReturnedInt ==
    ASSUME NEW fails \in Fails, NEW s \in Int
    PROVE  Returned(fails, s) \in Int
<1>1. Signed(s, 8) \in Int
  BY SignedByte
<1>2. Signed(s, 16) \in Int
  BY SignedWord
<1>3. s % 256 \in Int
  OBVIOUS
<1>4. CASE fails \in {"INT8", "UINT8"}
  BY <1>1, <1>3, <1>4, ReturnedOf
<1>5. CASE fails \in {"INT16", "bytes"}
  BY <1>2, <1>5, ReturnedOf
<1>6. CASE fails \in {"INT32", "void"}
  BY <1>6, ReturnedOf
<1>7. CASE fails = "select"
  <2>1. (IF s >= 0 THEN Signed(s, 16) ELSE -1) \in Int
    BY <1>2
  <2> QED
    BY <1>7, <2>1, ReturnedOf, Zenon
<1>8. CASE fails = "sockopt"
  <2>1. (IF s >= 0 THEN 0 ELSE Signed(s, 16)) \in Int
    BY <1>2
  <2> QED
    BY <1>8, <2>1, ReturnedOf, Zenon
<1> QED
  BY <1>4, <1>5, <1>6, <1>7, <1>8 DEF Fails

\* An error is returned as one.
LEMMA ReturnedError ==
    ASSUME NEW fails \in Fails \ {"void"}, NEW s \in Int, -128 <= s, s < 0
    PROVE  IF fails = "UINT8" THEN Returned(fails, s) # 0 ELSE Returned(fails, s) < 0
<1>1. Signed(s, 8) = s /\ Signed(s, 16) = s
  BY SignedByte, SignedWord
<1>2. CASE fails = "UINT8"
  <2>1. s % 256 # 0
    OBVIOUS
  <2> QED
    BY <1>2, <2>1, ReturnedOf
<1>3. CASE fails = "select"
  <2>1. ~(s >= 0) /\ -1 < 0
    OBVIOUS
  <2>2. Returned(fails, s) = -1
    BY <1>3, <2>1, ReturnedOf, Zenon
  <2> QED
    BY <1>3, <2>1, <2>2
<1>4. CASE fails \in {"INT8", "INT16", "bytes", "INT32", "sockopt"}
  <2>1. ~(s >= 0) /\ s < 0
    OBVIOUS
  <2>2. Returned(fails, s) = s
    BY <1>1, <1>4, <2>1, ReturnedOf, Zenon
  <2> QED
    BY <1>4, <2>1, <2>2
<1> QED
  BY <1>2, <1>3, <1>4 DEF Fails

-----------------------------------------------------------------------------
\* Packets.

\* The first of two packets, and what it leaves.
LEMMA TwoPackets ==
    ASSUME NEW a, NEW b
    PROVE  /\ <<a>> \o <<b>> # <<>>
           /\ Head(<<a>> \o <<b>>) = a /\ Tail(<<a>> \o <<b>>) = <<b>>
<1> DEFINE U == {a, b}
           s == <<a>> \o <<b>>
<1>1. s \in Seq(U) /\ Len(s) = 2 /\ s[1] = a /\ s[2] = b
  OBVIOUS
<1>2. <<b>> \in Seq(U) /\ Len(<<b>>) = 1 /\ <<b>>[1] = b
  OBVIOUS
<1> HIDE DEF s
<1>3. s # <<>> /\ Head(s) = a
  BY <1>1
<1> DEFINE t == Tail(s)
<1>4. t \in Seq(U) /\ Len(t) = 1 /\ t[1] = b
  BY <1>1, <1>3, HeadTailProperties
<1> HIDE DEF t
<1>5. \A i \in 1..Len(t) : t[i] = <<b>>[i]
  BY <1>2, <1>4
<1>6. t = <<b>>
  BY <1>2, <1>4, <1>5, SeqEqual
<1> QED
  BY <1>3, <1>6 DEF s, t

\* The answer of a device is the event, then perhaps data.
LEMMA AnswerParts ==
    ASSUME NEW c, NEW s, c.ev = AnswerTo(c.op)
    PROVE  /\ Answer(c, s) # <<>>
           /\ Head(Answer(c, s)) = Event(c.ev, s)
           /\ Tail(Answer(c, s)) = DataOf(c, s)
<1> DEFINE e == Event(c.ev, s)
<1>1. Answer(c, s) = <<e>> \o DataOf(c, s)
  BY DEF Answer, DataOf
<1> HIDE DEF e
<1>2. CASE DataOf(c, s) = <<>>
  BY <1>1, <1>2 DEF e
<1>3. CASE DataOf(c, s) = <<Data>>
  BY <1>1, <1>3, TwoPackets DEF e
<1> QED
  BY <1>2, <1>3 DEF DataOf

LEMMA DataParts ==
    ASSUME NEW c, NEW s, DataOf(c, s) # <<>>
    PROVE  /\ DeviceSendsData(c, s)
           /\ Head(DataOf(c, s)) = Data /\ Tail(DataOf(c, s)) = <<>>
BY DEF DataOf, Data

\* The event that is awaited is not handled as unsolicited, nor the completion of a
\* send before it is awaited.
LEMMA AnswerNotHandled ==
    ASSUME NEW ev, NEW s, AnswerKept(ev), ev \in SendEvents => s # ERROR_SOCKET_INACTIVE,
           usRxEventOpcode = ev \/ ev \in SendEvents
    PROVE  ~Handled(Event(ev, s)) /\ Kept(Event(ev, s)) = Event(ev, s)
BY DEF AnswerKept, Handled, Kept, Event

\* What is left of an event that came unasked for: nothing is decoded of those the
\* handler leaves, which are events of the WLAN and the requests for patches.
LEMMA UnsolicitedKept ==
    ASSUME NEW op \in Unsolicited, op \in SendEvents \/ op # usRxEventOpcode
    PROVE  LET p == Event(op, IF op \in SendEvents THEN ERROR_SOCKET_INACTIVE ELSE 0)
           IN \/ Kept(p) = NoPacket
              \/ op \notin SendEvents /\ Kept(p) = Event(op, 0) /\ Decoded(op) = <<>>
<1>1. CASE op \in SendEvents
  BY <1>1 DEF Kept, Event, Handled
<1>2. CASE op \notin SendEvents /\ HasBit(op, HCI_EVNT_WLAN_UNSOL_BASE)
  <2>1. op \in Nat /\ op >= 32768
    BY <1>2, NoWlanBit, HciApiAssumption
  <2>2. Decoded(op) = <<>>
    BY <2>1, Table
  <2> QED
    BY <1>2, <2>2 DEF Kept
<1>3. CASE op \notin SendEvents /\ op = HCI_EVNT_PATCHES_REQ
  <2>1. Decoded(op) = <<>>
    BY <1>3, Table DEF HCI_EVNT_PATCHES_REQ
  <2> QED
    BY <1>3, <2>1 DEF Kept
<1>4. CASE op \notin SendEvents /\ ~HasBit(op, HCI_EVNT_WLAN_UNSOL_BASE)
           /\ op # HCI_EVNT_PATCHES_REQ
  BY <1>4 DEF Kept, Event, Handled
<1> QED
  BY <1>1, <1>2, <1>3, <1>4

\* An event of which nothing is decoded leaves the object as it was.
LEMMA NothingDecoded ==
    ASSUME NEW op, NEW obj, obj = [i \in DOMAIN obj |-> obj[i]], Decoded(op) = <<>>
    PROVE  Decode(op, obj) = obj
<1>1. \A i : Over(op, i) = {}
  BY DEF Over
<1> QED
  BY <1>1 DEF Decode

\* No event that is kept unasked for is the one awaited.
LEMMA NotAwaited ==
    ASSUME Inv, NEW op \in Unsolicited \ SendEvents
    PROVE  op # usRxEventOpcode
<1>1. CASE pc = "event"
  <2>1. usRxEventOpcode = call.ev /\ call.ev \in EventsAwaited
    BY <1>1 DEF Inv, CallInv, WaitInv, EventsAwaited
  <2> QED
    BY <2>1, DeviceAssumption
<1>2. CASE pc # "event"
  BY <1>2, DeviceAssumption DEF Inv, WaitInv
<1> QED
  BY <1>1, <1>2

-----------------------------------------------------------------------------
\* The invariant is inductive.

LEMMA InvInit == Init => Inv
<1> SUFFICES ASSUME Init PROVE Inv
  OBVIOUS
<1>1. CallInv /\ WaitInv
  BY DEF Init, CallInv, WaitInv
<1>3. StatusInv
  <2>1. paused \in BOOLEAN
    BY DEF Init
  <2> QED
    BY <2>1 DEF Init, StatusInv
<1>2. OwedInv /\ ObjectInv
  BY DEF Init, OwedInv, NotOurs, ObjectInv
<1> QED
  BY <1>1, <1>2, <1>3 DEF Inv

LEMMA RefuseStep ==
    ASSUME Inv, NEW c \in Calls, Refuse(c)
    PROVE  Inv'
<1>1. CallInv' /\ WaitInv' /\ StatusInv'
  BY DEF Inv, CallInv, WaitInv, StatusInv, Refuse
<1>2. OwedInv' /\ ObjectInv'
  BY DEF Inv, OwedInv, NotOurs, ObjectInv, Refuse
<1> QED
  BY <1>1, <1>2 DEF Inv

\* The command is sent: whatever is in the receive buffer is none of its answer.
LEMMA IssueStep ==
    ASSUME Calls \subseteq Api, Inv, NEW c \in Calls, NEW s \in Statuses, Issue(c, s)
    PROVE  Inv'
<1>1. CallInv' /\ WaitInv'
  BY DEF Inv, CallInv, WaitInv, Issue
<1>6. StatusInv'
  <2>1. paused' \in BOOLEAN
    BY DEF Issue
  <2> QED
    BY <2>1 DEF Inv, StatusInv, Issue
<1>2. c.ev = AnswerTo(c.op)
  BY ApiAnswered DEF WellAnswered
<1>3. NotOurs'
  BY DEF Inv, OwedInv, NotOurs, Issue
<1>4. EventOwed'
  BY <1>2, <1>3 DEF Issue, EventOwed
<1>5. OwedInv' /\ ObjectInv'
  BY <1>4 DEF Inv, OwedInv, ObjectInv, Issue
<1> QED
  BY <1>1, <1>5, <1>6 DEF Inv

LEMMA ArmEventStep ==
    ASSUME Inv, ArmEvent
    PROVE  Inv'
<1>1. CallInv' /\ WaitInv' /\ StatusInv'
  BY DEF Inv, CallInv, WaitInv, StatusInv, ArmEvent
<1>2. EventOwed'
  BY DEF Inv, OwedInv, EventOwed, NotOurs, ArmEvent
<1>3. OwedInv' /\ ObjectInv'
  BY <1>2 DEF OwedInv, ObjectInv, ArmEvent
<1> QED
  BY <1>1, <1>3 DEF Inv

LEMMA ArmDataStep ==
    ASSUME Inv, ArmData
    PROVE  Inv'
<1>1. CallInv' /\ WaitInv' /\ StatusInv'
  BY DEF Inv, CallInv, WaitInv, StatusInv, ArmData
<1>2. DataOwed'
  BY DEF Inv, OwedInv, DataOwed, NotOurs, ArmData
<1>3. OwedInv' /\ ObjectInv'
  BY <1>2 DEF Inv, OwedInv, ObjectInv, ArmData
<1> QED
  BY <1>1, <1>3 DEF Inv

\* The device owes nothing when the function returns: where it sends data, the
\* function waits for them.
LEMMA ReturnStep ==
    ASSUME Calls \subseteq Api, Inv, Return
    PROVE  Inv'
<1>1. call \in Calls /\ WellAnswered(call)
  BY ApiAnswered DEF Inv, CallInv, Return
<1>2. Returned(call.fails, answered) \in Int
  <2>1. answered \in Int
    BY HciApiAssumption DEF Inv, StatusInv, Return
  <2> QED
    BY <1>1, <2>1, ReturnedInt DEF WellAnswered
<1>3. CallInv' /\ WaitInv' /\ StatusInv'
  BY <1>2 DEF Inv, CallInv, WaitInv, StatusInv, Return
<1>4. wire = <<>> /\ NotOurs
  <2>1. CASE pc = "filled"
    BY <2>1 DEF Inv, OwedInv
  <2>2. CASE pc = "answered" /\ ~WaitsForData(call, answered)
    <3>1. ~DeviceSendsData(call, answered)
      BY <2>2 DEF WaitsForData, DeviceSendsData
    <3> QED
      BY <2>2, <3>1 DEF Inv, OwedInv, DataOwed, DataOf
  <2> QED
    BY <2>1, <2>2 DEF Return
<1>5. OwedInv' /\ ObjectInv'
  BY <1>4 DEF OwedInv, NotOurs, ObjectInv, Return
<1> QED
  BY <1>3, <1>5 DEF Inv

\* What the interrupt changes.
LEMMA ReceiveKeeps ==
    ASSUME Inv, NEW p, Receive(p)
    PROVE  CallInv' /\ WaitInv' /\ StatusInv' /\ ObjectInv'
<1>1. paused' \in BOOLEAN
  BY DEF Receive
<1>2. CallInv' /\ WaitInv'
  BY DEF Inv, CallInv, WaitInv, Receive
<1>3. StatusInv'
  BY <1>1 DEF Inv, StatusInv, Receive
<1>4. ObjectInv'
  BY DEF Inv, ObjectInv, Receive
<1> QED
  BY <1>2, <1>3, <1>4

\* An event unasked for never takes the place of an answer, which keeps the interrupt
\* off until it is taken.
LEMMA DevEventStep ==
    ASSUME Inv, NEW op \in Unsolicited, DevEvent(op)
    PROVE  Inv'
<1> DEFINE p == Event(op, IF op \in SendEvents THEN ERROR_SOCKET_INACTIVE ELSE 0)
<1>1. Receive(p) /\ wire' = wire
  BY DEF DevEvent
<1>2. NotOurs'
  <2>1. rx' = Kept(p)
    BY <1>1 DEF Receive
  <2>2. \/ Kept(p) = NoPacket
        \/ op \notin SendEvents /\ Kept(p) = Event(op, 0) /\ Decoded(op) = <<>>
    BY NotAwaited, UnsolicitedKept
  <2> HIDE DEF p
  <2> QED
    BY <2>1, <2>2 DEF NotOurs
<1> HIDE DEF p
<1>3. ~paused /\ UNCHANGED <<pc, call, answered, wire>>
  BY <1>1 DEF Receive
<1>4. EventOwed => EventOwed'
  BY <1>2, <1>3 DEF EventOwed
<1>5. DataOwed => DataOwed'
  BY <1>2, <1>3 DEF DataOwed
<1>6. OwedInv'
  BY <1>2, <1>3, <1>4, <1>5 DEF Inv, OwedInv
<1> QED
  BY <1>1, <1>6, ReceiveKeeps DEF Inv

\* The answer is kept, and the data are after it.
LEMMA DevAnswerStep ==
    ASSUME Calls \subseteq Api, Inv, DevAnswer
    PROVE  Inv'
<1> DEFINE p == Head(wire)
<1>1. Receive(p) /\ wire # <<>> /\ wire' = Tail(wire)
  BY DEF DevAnswer
<1>2. rx' = Kept(p) /\ ~paused /\ UNCHANGED <<pc, call, answered, usRxEventOpcode>>
  BY <1>1 DEF Receive
<1>3. paused' = (rx' # NoPacket)
  BY <1>1 DEF Receive
<1>4. pc \notin {"idle", "filled"}
  BY <1>1 DEF Inv, OwedInv
<1>5. call \in Calls /\ WellAnswered(call)
  BY <1>4, ApiAnswered DEF Inv, CallInv
<1>6. CASE pc \in {"sent", "event"}
  <2>1. PICK s \in Statuses :
            /\ call.ev \in SendEvents => s # ERROR_SOCKET_INACTIVE
            /\ wire = Answer(call, s)
    BY <1>1, <1>2, <1>6 DEF Inv, OwedInv, EventOwed
  <2>2. p = Event(call.ev, s) /\ wire' = DataOf(call, s)
    BY <1>1, <1>5, <2>1, AnswerParts DEF WellAnswered
  <2>3. usRxEventOpcode = call.ev \/ call.ev \in SendEvents
    <3>1. CASE pc = "event"
      BY <3>1 DEF Inv, WaitInv
    <3>2. CASE pc = "sent"
      <4>1. call.ev \in EarlyAnswers
        BY <2>2, <3>2 DEF DevAnswer, Event
      <4>2. call.ev \in EventsAwaited
        BY <1>5 DEF EventsAwaited
      <4> QED
        BY <4>1, <4>2, DeviceAssumption
    <3> QED
      BY <1>6, <3>1, <3>2
  <2>4. rx' = Event(call.ev, s)
    BY <1>2, <1>5, <2>1, <2>2, <2>3, AnswerNotHandled DEF WellAnswered
  <2>5. paused'
    BY <1>3, <2>4 DEF Event, NoPacket
  <2>6. EventOwed'
    BY <1>2, <2>1, <2>2, <2>4, <2>5 DEF EventOwed, DataOf, DeviceSendsData
  <2>7. OwedInv'
    BY <1>2, <1>6, <2>6 DEF OwedInv
  <2> QED
    BY <1>1, <2>7, ReceiveKeeps DEF Inv
<1>7. CASE pc \in {"answered", "data"}
  <2>1. wire = DataOf(call, answered)
    BY <1>1, <1>7 DEF Inv, OwedInv, DataOwed
  <2>2. DeviceSendsData(call, answered) /\ p = Data /\ wire' = <<>>
    BY <1>1, <2>1, DataParts
  <2>3. rx' = Data
    BY <1>2, <2>2 DEF Kept, Data
  <2>4. paused'
    BY <1>3, <2>3 DEF Data, NoPacket
  <2>5. DataOwed'
    BY <1>2, <2>2, <2>3, <2>4 DEF DataOwed, DeviceSendsData
  <2>6. OwedInv'
    BY <1>2, <1>7, <2>5 DEF OwedInv
  <2> QED
    BY <1>1, <2>6, ReceiveKeeps DEF Inv
<1> QED
  BY <1>4, <1>6, <1>7 DEF Inv, CallInv

\* The loop takes what is held. An event that is not the one awaited leaves the wait
\* as it was.
LEMMA TakeOther ==
    ASSUME Calls \subseteq Api, Inv, Take, NEW op \in Unsolicited \ SendEvents,
           rx = Event(op, 0), Decoded(op) = <<>>
    PROVE  /\ pc' = pc /\ UNCHANGED <<usRxEventOpcode, usRxDataPending, answered, call, wire>>
           /\ object' = object
<1>1. rx.kind = "event" /\ rx.op = op
  BY DEF Event
<1>2. op # usRxEventOpcode
  BY NotAwaited
<1>3. usRxEventOpcode' = usRxEventOpcode /\ answered' = answered
  BY <1>1, <1>2 DEF Take
<1>4. usRxDataPending' = usRxDataPending
  BY <1>1 DEF Take, Inv, WaitInv
<1>5. usRxEventOpcode # 0 \/ usRxDataPending
  <2>1. CASE pc = "event"
    BY <2>1, ApiAnswered DEF Inv, CallInv, WaitInv, WellAnswered, AnswerKept
  <2>2. CASE pc = "data"
    BY <2>2 DEF Inv, WaitInv
  <2> QED
    BY <2>1, <2>2 DEF Take
<1>6. pc' = pc
  BY <1>3, <1>4, <1>5 DEF Take
<1>7. Decode(op, object) = object
  <2>1. object = Blank \/ object = Decode(call.ev, Blank)
    BY DEF Inv, ObjectInv, Take
  <2> QED
    BY <2>1, NothingDecoded DEF Blank, Decode
<1>8. object' = object
  BY <1>1, <1>7 DEF Take
<1> QED
  BY <1>3, <1>4, <1>6, <1>8 DEF Take

LEMMA TakeStep ==
    ASSUME Calls \subseteq Api, Inv, Take
    PROVE  Inv'
<1>1. pc \in {"event", "data"} /\ rx # NoPacket /\ call \in Calls
  BY DEF Take, Inv, CallInv
<1>2. paused' = FALSE /\ rx' = NoPacket /\ result' = result /\ call' = call /\ wire' = wire
  BY DEF Take
<1>3. NotOurs'
  BY <1>2 DEF NotOurs
<1>4. CASE NotOurs
  <2>1. PICK op \in Unsolicited \ SendEvents : rx = Event(op, 0) /\ Decoded(op) = <<>>
    BY <1>1, <1>4 DEF NotOurs
  <2>2. /\ pc' = pc /\ object' = object
        /\ UNCHANGED <<usRxEventOpcode, usRxDataPending, answered, call, wire>>
    BY <2>1, TakeOther
  <2>3. CallInv' /\ WaitInv'
    BY <2>2 DEF Inv, CallInv, WaitInv
  <2>4. StatusInv'
    BY <1>2, <2>2 DEF Inv, StatusInv
  <2>5. rx # Data /\ \A s : rx = Event(call.ev, s) => FALSE
    <3>1. CASE call.ev \in EventsAwaited
      BY <2>1, <3>1, DeviceAssumption DEF Event, Data
    <3> QED
      BY <1>1, <3>1 DEF EventsAwaited
  <2>6. EventOwed => EventOwed'
    BY <1>3, <2>2, <2>5 DEF EventOwed, Answer, DeviceSendsData
  <2>7. DataOwed => DataOwed'
    BY <1>3, <2>2, <2>5 DEF DataOwed, DataOf, DeviceSendsData
  <2>8. OwedInv'
    BY <1>1, <2>2, <2>6, <2>7 DEF Inv, OwedInv
  <2>9. ObjectInv'
    BY <2>2 DEF Inv, ObjectInv
  <2> QED
    BY <2>3, <2>4, <2>8, <2>9 DEF Inv
<1>5. CASE pc = "event" /\ ~NotOurs
  <2>1. PICK s \in Statuses : /\ call.ev \in SendEvents => s # ERROR_SOCKET_INACTIVE
                              /\ wire = DataOf(call, s)
                              /\ rx = Event(call.ev, s)
    BY <1>5 DEF Inv, OwedInv, EventOwed
  <2>2. rx.kind = "event" /\ rx.op = usRxEventOpcode /\ rx.status = s
    BY <1>5, <2>1 DEF Event, Inv, WaitInv
  <2>3. usRxEventOpcode' = 0 /\ answered' = s
    BY <2>2 DEF Take
  <2>4. usRxDataPending' = FALSE
    BY <1>5 DEF Take, Inv, WaitInv
  <2>5. pc' = "answered"
    BY <1>5, <2>3, <2>4 DEF Take
  <2>6. CallInv' /\ WaitInv'
    BY <1>1, <1>2, <2>3, <2>4, <2>5 DEF CallInv, WaitInv
  <2>7. StatusInv'
    BY <1>2, <2>3 DEF Inv, StatusInv
  <2>8. DataOwed'
    BY <1>2, <1>3, <2>1, <2>3 DEF DataOwed, DataOf, DeviceSendsData
  <2>9. OwedInv'
    BY <2>5, <2>8 DEF OwedInv
  <2>10. ~Handled(rx)
    <3>1. WellAnswered(call) /\ usRxEventOpcode = call.ev
      BY <1>1, <1>5, ApiAnswered DEF Inv, WaitInv
    <3> QED
      BY <2>1, <3>1, AnswerNotHandled DEF WellAnswered
  <2>11. ObjectInv'
    <3>1. object' = Decode(call.ev, Blank)
      BY <1>5, <2>1, <2>2, <2>10 DEF Inv, ObjectInv, Take, Event
    <3> QED
      BY <1>2, <2>5, <3>1 DEF ObjectInv
  <2> QED
    BY <2>6, <2>7, <2>9, <2>11 DEF Inv
<1>6. CASE pc = "data" /\ ~NotOurs
  <2>1. rx = Data /\ wire = <<>> /\ answered \in Statuses
    BY <1>6 DEF Inv, OwedInv, DataOwed, StatusInv
  <2>2. rx.kind # "event"
    BY <2>1 DEF Data
  <2>3. usRxEventOpcode' = 0 /\ answered' = answered
    BY <1>6, <2>2 DEF Take, Inv, WaitInv
  <2>4. usRxDataPending' = FALSE
    BY <2>2 DEF Take
  <2>5. pc' = "filled"
    BY <1>6, <2>3, <2>4 DEF Take
  <2>6. CallInv' /\ WaitInv'
    BY <1>1, <1>2, <2>3, <2>4, <2>5 DEF CallInv, WaitInv
  <2>7. StatusInv'
    BY <1>2, <2>1, <2>3 DEF Inv, StatusInv
  <2>8. OwedInv'
    BY <1>2, <1>3, <2>1, <2>5 DEF OwedInv
  <2>9. ObjectInv'
    BY <1>2, <1>6, <2>2, <2>5 DEF Inv, ObjectInv, Take
  <2> QED
    BY <2>6, <2>7, <2>8, <2>9 DEF Inv
<1> QED
  BY <1>1, <1>4, <1>5, <1>6

LEMMA InvStep == ASSUME Calls \subseteq Api PROVE Inv /\ [Next]_vars => Inv'
<1> SUFFICES ASSUME Inv, [Next]_vars PROVE Inv'
  OBVIOUS
<1>1. ASSUME NEW c \in Calls, Refuse(c) PROVE Inv'
  BY <1>1, RefuseStep
<1>2. ASSUME NEW c \in Calls, NEW s \in Statuses, Issue(c, s) PROVE Inv'
  BY <1>2, IssueStep
<1>3. CASE ArmEvent
  BY <1>3, ArmEventStep
<1>4. CASE ArmData
  BY <1>4, ArmDataStep
<1>5. CASE Take
  BY <1>5, TakeStep
<1>6. CASE Return
  BY <1>6, ReturnStep
<1>7. ASSUME NEW op \in Unsolicited, DevEvent(op) PROVE Inv'
  BY <1>7, DevEventStep
<1>8. CASE DevAnswer
  BY <1>8, DevAnswerStep
<1>9. CASE UNCHANGED vars
  <2>1. CallInv' /\ WaitInv' /\ StatusInv'
    BY <1>9 DEF vars, Inv, CallInv, WaitInv, StatusInv
  <2>2. OwedInv'
    BY <1>9 DEF vars, Inv, OwedInv, EventOwed, DataOwed, NotOurs
  <2>3. ObjectInv'
    BY <1>9 DEF vars, Inv, ObjectInv
  <2> QED
    BY <2>1, <2>2, <2>3 DEF Inv
<1> QED
  BY <1>1, <1>2, <1>3, <1>4, <1>5, <1>6, <1>7, <1>8, <1>9 DEF Next

LEMMA InvHolds == ASSUME Calls \subseteq Api PROVE Spec => []Inv
<1>1. Init => Inv
  BY InvInit
<1>2. Inv /\ [Next]_vars => Inv'
  BY InvStep
<1> QED
  BY <1>1, <1>2, PTL DEF Spec

-----------------------------------------------------------------------------
\* Type correctness: each variable has its type; in particular nothing but the event
\* of the call is ever awaited, and the device owes no more than an event and data.
THEOREM TypeCorrect == ASSUME Calls \subseteq Api PROVE Spec => []TypeOK
<1>1. Inv => TypeOK
  <2> SUFFICES ASSUME Inv PROVE TypeOK
    OBVIOUS
  <2>1. call \in Calls \cup {NoCall} /\ usRxDataPending \in BOOLEAN
    BY DEF Inv, CallInv, WaitInv
  <2>2. usRxEventOpcode \in {0, call.ev}
    BY DEF Inv, WaitInv
  <2>3. Len(wire) <= 2
    <3>1. \A c, s : Len(DataOf(c, s)) <= 1
      BY DEF DataOf
    <3>2. \A c, s : Len(Answer(c, s)) <= 2
      <4> TAKE c, s
      <4>1. \A e, d : Len(<<e>>) = 1 /\ Len(<<e>> \o <<d>>) = 2
        OBVIOUS
      <4>2. \A e : <<e>> \o <<>> = <<e>>
        OBVIOUS
      <4>3. \/ Answer(c, s) = <<Event(AnswerTo(c.op), s)>> \o <<Data>>
            \/ Answer(c, s) = <<Event(AnswerTo(c.op), s)>> \o <<>>
        BY DEF Answer
      <4> QED
        BY <4>1, <4>2, <4>3
    <3>3. CASE pc \in {"sent", "event"}
      BY <3>1, <3>2, <3>3 DEF Inv, OwedInv, EventOwed
    <3>4. CASE pc \in {"answered", "data"}
      BY <3>1, <3>4 DEF Inv, OwedInv, DataOwed
    <3>5. CASE pc \in {"idle", "filled"}
      BY <3>5 DEF Inv, OwedInv
    <3> QED
      BY <3>3, <3>4, <3>5 DEF Inv, CallInv
  <2> QED
    BY <2>1, <2>2, <2>3 DEF TypeOK, Inv, CallInv, StatusInv
<1> QED
  BY <1>1, InvHolds, PTL

\* When a function of the API has returned, whichever functions were called before and
\* whatever came in between, the device owes it neither an event nor data, and the
\* receive buffer holds nothing that the next call would take for its answer.
THEOREM Clean == ASSUME Calls \subseteq Api PROVE Spec => []NothingLeft
<1>1. Inv => NothingLeft
  BY DEF Inv, OwedInv, NotOurs, NothingLeft, NoPacket, Event
<1> QED
  BY <1>1, InvHolds, PTL

\* What a function takes out of its object is what its answer put there, and no event
\* writes past the object's end, whichever events come before the answer.
THEOREM Decodes == ASSUME Calls \subseteq Api PROVE Spec => []AnswerDecoded
<1>1. ASSUME Inv PROVE DecodeWithin
  <2>1. CASE pc \in {"idle", "sent"}
    <3>1. DOMAIN object = {}
      BY <1>1, <2>1 DEF Inv, ObjectInv
    <3> QED
      BY <3>1 DEF DecodeWithin
  <2>2. CASE pc = "event"
    BY <1>1, <2>2 DEF Inv, ObjectInv, DecodeWithin, Blank
  <2>3. CASE pc \in {"answered", "data", "filled"}
    <3>1. object = Decode(call.ev, Blank) /\ call \in Calls
      BY <1>1, <2>3 DEF Inv, CallInv, ObjectInv
    <3>2. WellDecoded(call)
      BY <3>1, ApiDecoded
    <3>3. \A i \in 0..(ObjectSize - 1) : i >= call.obj => object[i] = Untouched
      BY <3>1, <3>2, DecodedWithin DEF WellDecoded, Fits
    <3> QED
      BY <3>1, <3>3 DEF DecodeWithin, Decode, Blank
  <2> QED
    BY <1>1, <2>1, <2>2, <2>3 DEF Inv, CallInv
<1>2. ASSUME Inv PROVE ResultDecoded
  <2> SUFFICES ASSUME pc = "answered", NEW t \in call.takes, NEW i \in 0..(t[2] - 1)
               PROVE  object[t[1] + i] = From(call.ev, t[3] + i)
    BY DEF ResultDecoded
  <2>1. object = Decode(call.ev, Blank) /\ call \in Calls
    BY <1>2 DEF Inv, CallInv, ObjectInv
  <2>2. PICK k \in DOMAIN Decoded(call.ev) : Stays(Decoded(call.ev), k, t)
    BY <2>1, ApiDecoded DEF WellDecoded, Fits
  <2>3. Within(Decoded(call.ev), call.obj)
    BY <2>1, ApiDecoded DEF WellDecoded, Fits
  <2> QED
    BY <2>1, <2>2, <2>3, DecodedThere
<1>3. Inv => AnswerDecoded
  BY <1>1, <1>2 DEF AnswerDecoded
<1> QED
  BY <1>3, InvHolds, PTL

\* No error of the device is returned as a success, by any function that returns
\* the answer: hci_event_handler's result is cut to the width of the function's.
THEOREM Reported ==
    ASSUME Calls \subseteq Api, ErrorsInByte
    PROVE  Spec => ErrorReported
<1> DEFINE Report == Return /\ answered < 0 /\ call.fails # "void"
                         => IF call.fails = "UINT8" THEN result' # 0 ELSE result' < 0
<1>1. Inv => Report
  <2> SUFFICES ASSUME Inv, Return, answered < 0, call.fails # "void"
               PROVE  IF call.fails = "UINT8" THEN result' # 0 ELSE result' < 0
    OBVIOUS
  <2>1. call \in Calls /\ answered \in Statuses
    BY DEF Inv, CallInv, StatusInv, Return
  <2>2. answered \in Int /\ -128 <= answered
    BY <2>1, HciApiAssumption DEF ErrorsInByte
  <2>3. call.fails \in Fails \ {"void"}
    BY <2>1, ApiAnswered DEF WellAnswered
  <2>4. result' = Returned(call.fails, answered)
    BY DEF Return
  <2> QED
    BY <2>2, <2>3, <2>4, ReturnedError
<1>2. Inv /\ [Next]_vars => [Report]_vars
  BY <1>1
<1> QED
  BY <1>2, InvHolds, PTL DEF Spec, ErrorReported

-----------------------------------------------------------------------------
\* Sets of numbers, by the least that is missing: what the library's induction theorems
\* say of a property is said of a set here.
LEMMA NatSets ==
    ASSUME NEW S \in SUBSET Nat, 0 \in S, \A n \in S : n + 1 \in S
    PROVE  S = Nat
<1> DEFINE R == OpToRel(<, Nat)
           T == Nat \ S
<1>1. IsWellFoundedOn(R, Nat)
  BY NatLessThanWellFounded
<1>2. \A m, n \in Nat : m < n => <<m, n>> \in R
  BY DEF OpToRel
<1> SUFFICES ASSUME T # {} PROVE FALSE
  OBVIOUS
<1> HIDE DEF R
<1>3. PICK x \in T : \A y \in T : ~(<<y, x>> \in R)
  <2>1. T \subseteq Nat
    OBVIOUS
  <2> HIDE DEF T
  <2> QED
    BY <1>1, <2>1, WFMin
<1>4. x \in Nat /\ x # 0 /\ x - 1 \in Nat
  OBVIOUS
<1>5. x - 1 \in S
  <2>1. <<x - 1, x>> \in R
    <3>1. x - 1 < x
      BY <1>4
    <3> QED
      BY <1>2, <1>4, <3>1
  <2> HIDE DEF T
  <2>2. x - 1 \notin T
    BY <1>3, <2>1
  <2> QED
    BY <1>4, <2>2 DEF T
<1> QED
  BY <1>3, <1>4, <1>5

\* The places are those that the definition gives, argument by argument.
LEMMA BeforeIs ==
    ASSUME NEW args, Len(args) \in Nat, \A i \in 1..Len(args) : args[i].size \in Nat
    PROVE  /\ Before(args)[0] = 0
           /\ \A n \in 1..Len(args) : Before(args)[n] = Before(args)[n - 1] + args[n].size
<1> DEFINE N == Len(args)
           Sum(f, k) == f = [n \in 0..k |-> IF n = 0 THEN 0 ELSE f[n - 1] + args[n].size]
           S == {k \in Nat : k <= N => \E f : Sum(f, k)}
<1>1. 0 \in S
  <2> DEFINE f == [n \in 0..0 |-> 0]
  <2>1. Sum(f, 0)
    OBVIOUS
  <2> QED
    BY <2>1
<1>2. ASSUME NEW k \in S PROVE k + 1 \in S
  <2>0. k \in Nat /\ k + 1 \in Nat /\ (k <= N => \E f : Sum(f, k))
    BY <1>2
  <2> SUFFICES ASSUME k + 1 <= N PROVE \E f : Sum(f, k + 1)
    <3> HIDE DEF Sum
    <3> QED
      BY <2>0
  <2>1. PICK f : Sum(f, k)
    BY <2>0
  <2> DEFINE g == [n \in 0..(k + 1) |-> IF n <= k THEN f[n] ELSE f[k] + args[k + 1].size]
  <2>2. ASSUME NEW n \in 0..(k + 1)
        PROVE  g[n] = IF n = 0 THEN 0 ELSE g[n - 1] + args[n].size
    <3>1. CASE n <= k
      <4>1. n \in 0..k /\ (n # 0 => n - 1 \in 0..(k + 1) /\ n - 1 <= k)
        BY <2>0, <3>1
      <4>2. f[n] = IF n = 0 THEN 0 ELSE f[n - 1] + args[n].size
        BY <2>1, <4>1
      <4> QED
        BY <4>1, <4>2
    <3>2. CASE ~(n <= k)
      <4>1. n = k + 1 /\ n # 0 /\ n - 1 = k /\ n - 1 \in 0..(k + 1)
        BY <2>0, <3>2
      <4> QED
        BY <4>1
    <3> QED
      BY <3>1, <3>2
  <2>3. Sum(g, k + 1)
    <3>1. g = [n \in 0..(k + 1) |-> g[n]]
      OBVIOUS
    <3> HIDE DEF g
    <3> QED
      BY <2>2, <3>1
  <2> QED
    BY <2>3
<1>3. S = Nat
  <2>1. S \in SUBSET Nat
    OBVIOUS
  <2> HIDE DEF S
  <2> QED
    BY <1>1, <1>2, <2>1, NatSets
<1>4. \E f : Sum(f, N)
  <2>1. N \in S
    BY <1>3
  <2> QED
    BY <2>1
<1> DEFINE b == Before(args)
<1>5. b = [n \in 0..N |-> IF n = 0 THEN 0 ELSE b[n - 1] + args[n].size]
  <2>1. b = CHOOSE f : Sum(f, N)
    BY DEF Before
  <2> HIDE DEF b, Sum
  <2>2. Sum(b, N)
    BY <1>4, <2>1
  <2> QED
    BY <2>2 DEF Sum
<1> HIDE DEF b
<1>6. b[0] = 0
  BY <1>5
<1>7. \A n \in 1..N : b[n] = b[n - 1] + args[n].size
  BY <1>5
<1> QED
  BY <1>6, <1>7 DEF b

\* A command's length is what is written, and its pointers reach.
LaidOut(c) ==
    /\ c.op # HCI_NETAPP_SET_TIMERS => c.len + c.payload = Width(c.args)
    /\ \A i \in DOMAIN c.args :
          c.args[i].to # 0 => Place(c.args, i) + c.args[i].off = Place(c.args, c.args[i].to)

\* What the stream functions write.
LEMMA Sizes ==
    /\ UINT32_TO_STREAM.size = 4 /\ UINT32_TO_STREAM.to = 0
    /\ UINT16_TO_STREAM.size = 2 /\ UINT16_TO_STREAM.to = 0
    /\ \A n : ARRAY_TO_STREAM(n).size = n /\ ARRAY_TO_STREAM(n).to = 0
    /\ \A off, to : PointsTo(off, to).size = 4 /\ PointsTo(off, to).off = off
                    /\ PointsTo(off, to).to = to
BY DEF UINT32_TO_STREAM, UINT16_TO_STREAM, ARRAY_TO_STREAM, PointsTo, Bytes

Argument == [size : Nat, off : Int, to : Int]

\* The kinds of arguments are arguments.
LEMMA ArgumentTypes ==
    /\ UINT32_TO_STREAM \in Argument /\ UINT16_TO_STREAM \in Argument
    /\ \A n \in Nat : ARRAY_TO_STREAM(n) \in Argument
    /\ \A off, to \in Int : PointsTo(off, to) \in Argument
BY DEF UINT32_TO_STREAM, UINT16_TO_STREAM, ARRAY_TO_STREAM, PointsTo, Bytes, Argument

\* A sequence of words
LEMMA WordsAre ==
    ASSUME NEW n \in Nat
    PROVE  Words(n) \in Seq(Argument) /\ Len(Words(n)) = n
           /\ \A i \in 1..n : Words(n)[i] = UINT32_TO_STREAM
<1> DEFINE w == Words(n)
<1>1. w \in [1..n -> Argument]
  BY ArgumentTypes DEF Words
<1>2. w \in Seq(Argument)
  BY <1>1, SeqDef
<1>3. 1..Len(w) = 1..n /\ Len(w) \in Nat
  BY <1>1, <1>2, LenProperties
<1>4. Len(w) = n
  BY <1>3
<1> QED
  BY <1>2, <1>4 DEF Words

\* Arguments behind arguments
LEMMA Spliced ==
    ASSUME NEW s \in Seq(Argument), NEW t \in Seq(Argument)
    PROVE  /\ s \o t \in Seq(Argument) /\ Len(s \o t) = Len(s) + Len(t)
           /\ DOMAIN (s \o t) = 1..(Len(s) + Len(t))
           /\ \A i \in 1..(Len(s) + Len(t)) :
                 (s \o t)[i] = IF i <= Len(s) THEN s[i] ELSE t[i - Len(s)]
BY ConcatProperties, LenProperties

\* The places of a command, given one by one
LEMMA PlacesAre ==
    ASSUME NEW args \in Seq(Argument), NEW p, p[0] = 0,
           \A i \in 1..Len(args) : p[i] = p[i - 1] + args[i].size
    PROVE  \A i \in 0..Len(args) : Before(args)[i] = p[i]
<1> DEFINE N == Len(args)
<1>0. N \in Nat
  BY LenProperties
<1> HIDE DEF N
<1>1. \A i \in 1..N : args[i].size \in Nat
  <2>1. \A i \in 1..N : args[i] \in Argument
    BY ElementOfSeq DEF N
  <2> QED
    BY <2>1 DEF Argument
<1>2. /\ Before(args)[0] = 0
      /\ \A i \in 1..N : Before(args)[i] = Before(args)[i - 1] + args[i].size
  BY <1>0, <1>1, BeforeIs DEF N
<1> DEFINE S == {i \in Nat : i <= N => Before(args)[i] = p[i]}
<1>3. 0 \in S
  BY <1>2
<1>4. ASSUME NEW i \in S PROVE i + 1 \in S
  <2>1. i \in Nat /\ (i <= N => Before(args)[i] = p[i]) /\ i + 1 \in Nat /\ i + 1 - 1 = i
    BY <1>4
  <2>2. CASE i + 1 <= N
    <3>1. i <= N /\ i + 1 \in 1..N
      BY <1>0, <2>1, <2>2
    <3>2. Before(args)[i + 1] = p[i + 1]
      <4>1. p[i + 1] = p[i + 1 - 1] + args[i + 1].size
        BY <3>1 DEF N
      <4> QED
        BY <1>2, <2>1, <3>1, <4>1
    <3> QED
      BY <2>1, <3>2
  <2> QED
    BY <2>1, <2>2
<1>5. S = Nat
  <2>1. S \in SUBSET Nat
    OBVIOUS
  <2> HIDE DEF S
  <2> QED
    BY <1>3, <1>4, <2>1, NatSets
<1> QED
  BY <1>0, <1>5 DEF N

\* bind, and connect, which writes the same
LEMMA BindLaidOut == LaidOut(Bind)
<1> DEFINE c == Bind
           a == c.args
           B == Before(a)
<1>1. /\ a = <<UINT32_TO_STREAM, PointsTo(8, 4), UINT32_TO_STREAM, ARRAY_TO_STREAM(8)>>
      /\ c.len = 20 /\ c.payload = 0
  BY DEF Bind, Addressed, Result32, Command
<1>2. /\ a[1] = UINT32_TO_STREAM /\ a[2] = PointsTo(8, 4) /\ a[3] = UINT32_TO_STREAM
      /\ a[4] = ARRAY_TO_STREAM(8) /\ Len(a) = 4 /\ DOMAIN a = 1..4
  BY <1>1
<1> HIDE DEF c, a
<1>3. B[0] = 0 /\ \A k \in 1..4 : B[k] = B[k - 1] + a[k].size
  <2>1. \A i \in 1..4 : a[i].size \in Nat
    BY <1>2, Sizes
  <2>2. Len(a) \in Nat /\ \A i \in 1..Len(a) : a[i].size \in Nat
    BY <1>2, <2>1
  <2>3. B[0] = 0 /\ \A k \in 1..Len(a) : B[k] = B[k - 1] + a[k].size
    BY <2>2, BeforeIs
  <2> QED
    BY <1>2, <2>3
<1> HIDE DEF B
<1>4. /\ B[1] = 4 /\ B[2] = 8 /\ B[3] = 12 /\ B[4] = 20
  BY <1>2, <1>3, Sizes
<1>5. c.len + c.payload = Width(a)
  BY <1>1, <1>2, <1>4 DEF Width, B
<1>6. ASSUME NEW i \in 1..4, a[i].to # 0
      PROVE  Place(a, i) + a[i].off = Place(a, a[i].to)
  <2>1. i \in {2}
    BY <1>2, <1>6, Sizes
  <2> QED
    BY <1>2, <1>3, <1>4, <2>1, Sizes DEF Place, B
<1> QED
  BY <1>2, <1>5, <1>6 DEF LaidOut, a, c

\* gethostbyname: the name behind the two words
LEMMA HostLaidOut ==
    ASSUME NEW n \in Nat
    PROVE  LaidOut(GetHostByName(n))
<1> DEFINE c == GetHostByName(n)
           a == c.args
           B == Before(a)
<1>1. /\ a = <<PointsTo(8, 3), UINT32_TO_STREAM, ARRAY_TO_STREAM(n)>>
      /\ c.len = 9 + n - 1 /\ c.payload = 0
  BY DEF GetHostByName, Command
<1>2. /\ a[1] = PointsTo(8, 3) /\ a[2] = UINT32_TO_STREAM /\ a[3] = ARRAY_TO_STREAM(n)
      /\ Len(a) = 3 /\ DOMAIN a = 1..3
  BY <1>1
<1> HIDE DEF c, a
<1>3. B[0] = 0 /\ \A k \in 1..3 : B[k] = B[k - 1] + a[k].size
  <2>1. \A i \in 1..3 : a[i].size \in Nat
    BY <1>2, Sizes
  <2>2. Len(a) \in Nat /\ \A i \in 1..Len(a) : a[i].size \in Nat
    BY <1>2, <2>1
  <2>3. B[0] = 0 /\ \A k \in 1..Len(a) : B[k] = B[k - 1] + a[k].size
    BY <2>2, BeforeIs
  <2> QED
    BY <1>2, <2>3
<1> HIDE DEF B
<1>4. /\ B[1] = 4 /\ B[2] = 8 /\ B[3] = 8 + n
  BY <1>2, <1>3, Sizes
<1>5. c.len + c.payload = Width(a)
  BY <1>1, <1>2, <1>4 DEF Width, B
<1>6. ASSUME NEW i \in 1..3, a[i].to # 0
      PROVE  Place(a, i) + a[i].off = Place(a, a[i].to)
  <2>1. i \in {1}
    BY <1>2, <1>6, Sizes
  <2> QED
    BY <1>2, <1>3, <1>4, <2>1, Sizes DEF Place, B
<1> QED
  BY <1>2, <1>5, <1>6 DEF LaidOut, a, c

\* setsockopt: the option behind its length
LEMMA OptionLaidOut ==
    ASSUME NEW n \in Nat
    PROVE  LaidOut(SetSockOpt(n))
<1> DEFINE c == SetSockOpt(n)
           a == c.args
           B == Before(a)
<1>1. /\ a = <<UINT32_TO_STREAM, UINT32_TO_STREAM, UINT32_TO_STREAM, PointsTo(8, 6),
               UINT32_TO_STREAM, ARRAY_TO_STREAM(n)>>
      /\ c.len = 20 + n /\ c.payload = 0
  BY DEF SetSockOpt, Command
<1>2. /\ a[1] = UINT32_TO_STREAM /\ a[2] = UINT32_TO_STREAM /\ a[3] = UINT32_TO_STREAM
      /\ a[4] = PointsTo(8, 6) /\ a[5] = UINT32_TO_STREAM /\ a[6] = ARRAY_TO_STREAM(n)
      /\ Len(a) = 6 /\ DOMAIN a = 1..6
  BY <1>1
<1> HIDE DEF c, a
<1>3. B[0] = 0 /\ \A k \in 1..6 : B[k] = B[k - 1] + a[k].size
  <2>1. \A i \in 1..6 : a[i].size \in Nat
    BY <1>2, Sizes
  <2>2. Len(a) \in Nat /\ \A i \in 1..Len(a) : a[i].size \in Nat
    BY <1>2, <2>1
  <2>3. B[0] = 0 /\ \A k \in 1..Len(a) : B[k] = B[k - 1] + a[k].size
    BY <2>2, BeforeIs
  <2> QED
    BY <1>2, <2>3
<1> HIDE DEF B
<1>4. /\ B[1] = 4 /\ B[2] = 8 /\ B[3] = 12 /\ B[4] = 16 /\ B[5] = 20 /\ B[6] = 20 + n
  BY <1>2, <1>3, Sizes
<1>5. c.len + c.payload = Width(a)
  BY <1>1, <1>2, <1>4 DEF Width, B
<1>6. ASSUME NEW i \in 1..6, a[i].to # 0
      PROVE  Place(a, i) + a[i].off = Place(a, a[i].to)
  <2>1. i \in {4}
    BY <1>2, <1>6, Sizes
  <2> QED
    BY <1>2, <1>3, <1>4, <2>1, Sizes DEF Place, B
<1> QED
  BY <1>2, <1>5, <1>6 DEF LaidOut, a, c

\* send: the payload, whose pointer skips what follows it in the arguments
LEMMA SendLaidOut ==
    ASSUME NEW n \in Nat
    PROVE  LaidOut(Send(n))
<1> DEFINE c == Send(n)
           a == c.args
           B == Before(a)
<1>1. /\ a = <<UINT32_TO_STREAM, PointsTo(16 - 4, 5), UINT32_TO_STREAM, UINT32_TO_STREAM,
               ARRAY_TO_STREAM(n)>>
      /\ c.len = 16 /\ c.payload = n
  BY DEF Send, Command
<1>2. /\ a[1] = UINT32_TO_STREAM /\ a[2] = PointsTo(16 - 4, 5) /\ a[3] = UINT32_TO_STREAM
      /\ a[4] = UINT32_TO_STREAM /\ a[5] = ARRAY_TO_STREAM(n) /\ Len(a) = 5
      /\ DOMAIN a = 1..5
  BY <1>1
<1> HIDE DEF c, a
<1>3. B[0] = 0 /\ \A k \in 1..5 : B[k] = B[k - 1] + a[k].size
  <2>1. \A i \in 1..5 : a[i].size \in Nat
    BY <1>2, Sizes
  <2>2. Len(a) \in Nat /\ \A i \in 1..Len(a) : a[i].size \in Nat
    BY <1>2, <2>1
  <2>3. B[0] = 0 /\ \A k \in 1..Len(a) : B[k] = B[k - 1] + a[k].size
    BY <2>2, BeforeIs
  <2> QED
    BY <1>2, <2>3
<1> HIDE DEF B
<1>4. /\ B[1] = 4 /\ B[2] = 8 /\ B[3] = 12 /\ B[4] = 16 /\ B[5] = 16 + n
  BY <1>2, <1>3, Sizes
<1>5. c.len + c.payload = Width(a)
  BY <1>1, <1>2, <1>4 DEF Width, B
<1>6. ASSUME NEW i \in 1..5, a[i].to # 0
      PROVE  Place(a, i) + a[i].off = Place(a, a[i].to)
  <2>1. i \in {2}
    BY <1>2, <1>6, Sizes
  <2> QED
    BY <1>2, <1>3, <1>4, <2>1, Sizes DEF Place, B
<1> QED
  BY <1>2, <1>5, <1>6 DEF LaidOut, a, c

\* sendto: the address behind a payload of any length
LEMMA SendToLaidOut ==
    ASSUME NEW n \in Nat
    PROVE  LaidOut(SendTo(n))
<1> DEFINE c == SendTo(n)
           a == c.args
           B == Before(a)
<1>1. /\ a = <<UINT32_TO_STREAM, PointsTo(24 - 4, 7), UINT32_TO_STREAM, UINT32_TO_STREAM,
               PointsTo(n + 4 + 4, 8), UINT32_TO_STREAM, ARRAY_TO_STREAM(n),
               ARRAY_TO_STREAM(8)>>
      /\ c.len = 24 /\ c.payload = n + 8
  BY DEF SendTo, Command
<1>2. /\ a[1] = UINT32_TO_STREAM /\ a[2] = PointsTo(24 - 4, 7) /\ a[3] = UINT32_TO_STREAM
      /\ a[4] = UINT32_TO_STREAM /\ a[5] = PointsTo(n + 4 + 4, 8)
      /\ a[6] = UINT32_TO_STREAM /\ a[7] = ARRAY_TO_STREAM(n)
      /\ a[8] = ARRAY_TO_STREAM(8) /\ Len(a) = 8 /\ DOMAIN a = 1..8
  BY <1>1
<1> HIDE DEF c, a
<1>3. B[0] = 0 /\ \A k \in 1..8 : B[k] = B[k - 1] + a[k].size
  <2>1. \A i \in 1..8 : a[i].size \in Nat
    BY <1>2, Sizes
  <2>2. Len(a) \in Nat /\ \A i \in 1..Len(a) : a[i].size \in Nat
    BY <1>2, <2>1
  <2>3. B[0] = 0 /\ \A k \in 1..Len(a) : B[k] = B[k - 1] + a[k].size
    BY <2>2, BeforeIs
  <2> QED
    BY <1>2, <2>3
<1> HIDE DEF B
<1>4. /\ B[1] = 4 /\ B[2] = 8 /\ B[3] = 12 /\ B[4] = 16 /\ B[5] = 20 /\ B[6] = 24
      /\ B[7] = 24 + n /\ B[8] = 32 + n
  BY <1>2, <1>3, Sizes
<1>5. c.len + c.payload = Width(a)
  BY <1>1, <1>2, <1>4 DEF Width, B
<1>6. ASSUME NEW i \in 1..8, a[i].to # 0
      PROVE  Place(a, i) + a[i].off = Place(a, a[i].to)
  <2>1. i \in {2, 5}
    BY <1>2, <1>6, Sizes
  <2> QED
    BY <1>2, <1>3, <1>4, <2>1, Sizes DEF Place, B
<1> QED
  BY <1>2, <1>5, <1>6 DEF LaidOut, a, c

\* mdnsAdvertiser: the name of the service
LEMMA MdnsLaidOut ==
    ASSUME NEW n \in Nat
    PROVE  LaidOut(MdnsAdvertiser(n))
<1> DEFINE c == MdnsAdvertiser(n)
           a == c.args
           B == Before(a)
<1>1. /\ a = <<UINT32_TO_STREAM, PointsTo(8, 4), UINT32_TO_STREAM, ARRAY_TO_STREAM(n)>>
      /\ c.len = 12 + n /\ c.payload = 0
  BY DEF MdnsAdvertiser, Result8, Command
<1>2. /\ a[1] = UINT32_TO_STREAM /\ a[2] = PointsTo(8, 4) /\ a[3] = UINT32_TO_STREAM
      /\ a[4] = ARRAY_TO_STREAM(n) /\ Len(a) = 4 /\ DOMAIN a = 1..4
  BY <1>1
<1> HIDE DEF c, a
<1>3. B[0] = 0 /\ \A k \in 1..4 : B[k] = B[k - 1] + a[k].size
  <2>1. \A i \in 1..4 : a[i].size \in Nat
    BY <1>2, Sizes
  <2>2. Len(a) \in Nat /\ \A i \in 1..Len(a) : a[i].size \in Nat
    BY <1>2, <2>1
  <2>3. B[0] = 0 /\ \A k \in 1..Len(a) : B[k] = B[k - 1] + a[k].size
    BY <2>2, BeforeIs
  <2> QED
    BY <1>2, <2>3
<1> HIDE DEF B
<1>4. /\ B[1] = 4 /\ B[2] = 8 /\ B[3] = 12 /\ B[4] = 12 + n
  BY <1>2, <1>3, Sizes
<1>5. c.len + c.payload = Width(a)
  BY <1>1, <1>2, <1>4 DEF Width, B
<1>6. ASSUME NEW i \in 1..4, a[i].to # 0
      PROVE  Place(a, i) + a[i].off = Place(a, a[i].to)
  <2>1. i \in {2}
    BY <1>2, <1>6, Sizes
  <2> QED
    BY <1>2, <1>3, <1>4, <2>1, Sizes DEF Place, B
<1> QED
  BY <1>2, <1>5, <1>6 DEF LaidOut, a, c

\* wlan_connect: the key behind a name of any length
LEMMA ConnectLaidOut ==
    ASSUME NEW ssid \in Nat, NEW key \in Nat
    PROVE  LaidOut(WlanConnect(ssid, key))
<1> DEFINE c == WlanConnect(ssid, key)
           a == c.args
           B == Before(a)
<1>1. /\ a = <<PointsTo(28, 8), UINT32_TO_STREAM, UINT32_TO_STREAM, PointsTo(16 + ssid, 9),
               UINT32_TO_STREAM, UINT16_TO_STREAM, ARRAY_TO_STREAM(6),
               ARRAY_TO_STREAM(ssid), ARRAY_TO_STREAM(key)>>
      /\ c.len = 29 + ssid + key - 1 /\ c.payload = 0
  BY DEF WlanConnect, Result32, Command
<1>2. /\ a[1] = PointsTo(28, 8) /\ a[2] = UINT32_TO_STREAM /\ a[3] = UINT32_TO_STREAM
      /\ a[4] = PointsTo(16 + ssid, 9) /\ a[5] = UINT32_TO_STREAM
      /\ a[6] = UINT16_TO_STREAM /\ a[7] = ARRAY_TO_STREAM(6)
      /\ a[8] = ARRAY_TO_STREAM(ssid) /\ a[9] = ARRAY_TO_STREAM(key) /\ Len(a) = 9
      /\ DOMAIN a = 1..9
  BY <1>1
<1> HIDE DEF c, a
<1>3. B[0] = 0 /\ \A k \in 1..9 : B[k] = B[k - 1] + a[k].size
  <2>1. \A i \in 1..9 : a[i].size \in Nat
    BY <1>2, Sizes
  <2>2. Len(a) \in Nat /\ \A i \in 1..Len(a) : a[i].size \in Nat
    BY <1>2, <2>1
  <2>3. B[0] = 0 /\ \A k \in 1..Len(a) : B[k] = B[k - 1] + a[k].size
    BY <2>2, BeforeIs
  <2> QED
    BY <1>2, <2>3
<1> HIDE DEF B
<1>4. /\ B[1] = 4 /\ B[2] = 8 /\ B[3] = 12 /\ B[4] = 16 /\ B[5] = 20 /\ B[6] = 22
      /\ B[7] = 28 /\ B[8] = 28 + ssid /\ B[9] = 28 + ssid + key
  BY <1>2, <1>3, Sizes
<1>5. c.len + c.payload = Width(a)
  BY <1>1, <1>2, <1>4 DEF Width, B
<1>6. ASSUME NEW i \in 1..9, a[i].to # 0
      PROVE  Place(a, i) + a[i].off = Place(a, a[i].to)
  <2>1. i \in {1, 4}
    BY <1>2, <1>6, Sizes
  <2> QED
    BY <1>2, <1>3, <1>4, <2>1, Sizes DEF Place, B
<1> QED
  BY <1>2, <1>5, <1>6 DEF LaidOut, a, c

\* nvmem_write: the data
LEMMA WriteLaidOut ==
    ASSUME NEW n \in Nat
    PROVE  LaidOut(NvmemWrite(n))
<1> DEFINE c == NvmemWrite(n)
           a == c.args
           B == Before(a)
<1>1. /\ a = <<UINT32_TO_STREAM, PointsTo(12, 5), UINT32_TO_STREAM, UINT32_TO_STREAM,
               ARRAY_TO_STREAM(n)>>
      /\ c.len = 16 /\ c.payload = n
  BY DEF NvmemWrite, Result32, Command
<1>2. /\ a[1] = UINT32_TO_STREAM /\ a[2] = PointsTo(12, 5) /\ a[3] = UINT32_TO_STREAM
      /\ a[4] = UINT32_TO_STREAM /\ a[5] = ARRAY_TO_STREAM(n) /\ Len(a) = 5
      /\ DOMAIN a = 1..5
  BY <1>1
<1> HIDE DEF c, a
<1>3. B[0] = 0 /\ \A k \in 1..5 : B[k] = B[k - 1] + a[k].size
  <2>1. \A i \in 1..5 : a[i].size \in Nat
    BY <1>2, Sizes
  <2>2. Len(a) \in Nat /\ \A i \in 1..Len(a) : a[i].size \in Nat
    BY <1>2, <2>1
  <2>3. B[0] = 0 /\ \A k \in 1..Len(a) : B[k] = B[k - 1] + a[k].size
    BY <2>2, BeforeIs
  <2> QED
    BY <1>2, <2>3
<1> HIDE DEF B
<1>4. /\ B[1] = 4 /\ B[2] = 8 /\ B[3] = 12 /\ B[4] = 16 /\ B[5] = 16 + n
  BY <1>2, <1>3, Sizes
<1>5. c.len + c.payload = Width(a)
  BY <1>1, <1>2, <1>4 DEF Width, B
<1>6. ASSUME NEW i \in 1..5, a[i].to # 0
      PROVE  Place(a, i) + a[i].off = Place(a, a[i].to)
  <2>1. i \in {2}
    BY <1>2, <1>6, Sizes
  <2> QED
    BY <1>2, <1>3, <1>4, <2>1, Sizes DEF Place, B
<1> QED
  BY <1>2, <1>5, <1>6 DEF LaidOut, a, c

\* wlan_add_profile: the name; with WEP the four keys, with WPA the key behind it
LEMMA UnsecLaidOut ==
    ASSUME NEW ssid \in Nat
    PROVE  LaidOut(AddProfileUnsec(ssid))
<1> DEFINE c == AddProfileUnsec(ssid)
           a == c.args
           B == Before(a)
<1> DEFINE s == <<UINT32_TO_STREAM, PointsTo(20, 7), UINT32_TO_STREAM, UINT16_TO_STREAM,
                 ARRAY_TO_STREAM(6), UINT32_TO_STREAM>>
           r == <<ARRAY_TO_STREAM(ssid)>>
<1>1. a = s \o r /\ c.len = 24 + ssid /\ c.payload = 0
  BY DEF AddProfileUnsec, Profile, Result32, Command
<1>2. /\ a[1] = UINT32_TO_STREAM /\ a[2] = PointsTo(20, 7) /\ a[3] = UINT32_TO_STREAM
      /\ a[4] = UINT16_TO_STREAM /\ a[5] = ARRAY_TO_STREAM(6) /\ a[6] = UINT32_TO_STREAM
      /\ a[7] = ARRAY_TO_STREAM(ssid) /\ Len(a) = 7 /\ DOMAIN a = 1..7
  <2>1. s \in Seq(Argument) /\ Len(s) = 6 /\ r \in Seq(Argument) /\ Len(r) = 1
    BY ArgumentTypes
  <2>2. /\ s[1] = UINT32_TO_STREAM /\ s[2] = PointsTo(20, 7) /\ s[3] = UINT32_TO_STREAM
        /\ s[4] = UINT16_TO_STREAM /\ s[5] = ARRAY_TO_STREAM(6)
        /\ s[6] = UINT32_TO_STREAM /\ r[1] = ARRAY_TO_STREAM(ssid)
    OBVIOUS
  <2> HIDE DEF a, s, r
  <2>3. /\ Len(a) = Len(s) + Len(r) /\ DOMAIN a = 1..(Len(s) + Len(r))
        /\ \A i \in 1..(Len(s) + Len(r)) : a[i] = IF i <= Len(s) THEN s[i] ELSE r[i - Len(s)]
    BY <1>1, <2>1, Spliced
  <2>4. /\ Len(a) = 7 /\ DOMAIN a = 1..7
        /\ \A i \in 1..7 : a[i] = IF i <= 6 THEN s[i] ELSE r[i - 6]
    BY <2>1, <2>3
  <2> QED
    BY <2>2, <2>4
<1> HIDE DEF c, a
<1>3. B[0] = 0 /\ \A k \in 1..7 : B[k] = B[k - 1] + a[k].size
  <2>1. \A i \in 1..7 : a[i].size \in Nat
    BY <1>2, Sizes
  <2>2. Len(a) \in Nat /\ \A i \in 1..Len(a) : a[i].size \in Nat
    BY <1>2, <2>1
  <2>3. B[0] = 0 /\ \A k \in 1..Len(a) : B[k] = B[k - 1] + a[k].size
    BY <2>2, BeforeIs
  <2> QED
    BY <1>2, <2>3
<1> HIDE DEF B
<1>4. /\ B[1] = 4 /\ B[2] = 8 /\ B[3] = 12 /\ B[4] = 14 /\ B[5] = 20 /\ B[6] = 24
      /\ B[7] = 24 + ssid
  BY <1>2, <1>3, Sizes
<1>5. c.len + c.payload = Width(a)
  BY <1>1, <1>2, <1>4 DEF Width, B
<1>6. ASSUME NEW i \in 1..7, a[i].to # 0
      PROVE  Place(a, i) + a[i].off = Place(a, a[i].to)
  <2>1. i \in {2}
    BY <1>2, <1>6, Sizes
  <2> QED
    BY <1>2, <1>3, <1>4, <2>1, Sizes DEF Place, B
<1> QED
  BY <1>2, <1>5, <1>6 DEF LaidOut, a, c

LEMMA WepLaidOut ==
    ASSUME NEW ssid \in Nat, NEW key \in Nat
    PROVE  LaidOut(AddProfileWep(ssid, key))
<1> DEFINE c == AddProfileWep(ssid, key)
           a == c.args
           B == Before(a)
<1> DEFINE s == <<UINT32_TO_STREAM, PointsTo(32, 10), UINT32_TO_STREAM, UINT16_TO_STREAM,
                 ARRAY_TO_STREAM(6), UINT32_TO_STREAM>>
           r == <<PointsTo(12 + ssid, 11), UINT32_TO_STREAM, UINT32_TO_STREAM,
                 ARRAY_TO_STREAM(ssid), ARRAY_TO_STREAM(key), ARRAY_TO_STREAM(key),
                 ARRAY_TO_STREAM(key), ARRAY_TO_STREAM(key)>>
<1>1. a = s \o r /\ c.len = 36 + ssid + 4 * key /\ c.payload = 0
  BY DEF AddProfileWep, Profile, Result32, Command
<1>2. /\ a[1] = UINT32_TO_STREAM /\ a[2] = PointsTo(32, 10) /\ a[3] = UINT32_TO_STREAM
      /\ a[4] = UINT16_TO_STREAM /\ a[5] = ARRAY_TO_STREAM(6) /\ a[6] = UINT32_TO_STREAM
      /\ a[7] = PointsTo(12 + ssid, 11) /\ a[8] = UINT32_TO_STREAM
      /\ a[9] = UINT32_TO_STREAM /\ a[10] = ARRAY_TO_STREAM(ssid)
      /\ a[11] = ARRAY_TO_STREAM(key) /\ a[12] = ARRAY_TO_STREAM(key)
      /\ a[13] = ARRAY_TO_STREAM(key) /\ a[14] = ARRAY_TO_STREAM(key) /\ Len(a) = 14
      /\ DOMAIN a = 1..14
  <2>1. s \in Seq(Argument) /\ Len(s) = 6 /\ r \in Seq(Argument) /\ Len(r) = 8
    BY ArgumentTypes
  <2>2. /\ s[1] = UINT32_TO_STREAM /\ s[2] = PointsTo(32, 10) /\ s[3] = UINT32_TO_STREAM
        /\ s[4] = UINT16_TO_STREAM /\ s[5] = ARRAY_TO_STREAM(6)
        /\ s[6] = UINT32_TO_STREAM /\ r[1] = PointsTo(12 + ssid, 11)
        /\ r[2] = UINT32_TO_STREAM /\ r[3] = UINT32_TO_STREAM
        /\ r[4] = ARRAY_TO_STREAM(ssid) /\ r[5] = ARRAY_TO_STREAM(key)
        /\ r[6] = ARRAY_TO_STREAM(key) /\ r[7] = ARRAY_TO_STREAM(key)
        /\ r[8] = ARRAY_TO_STREAM(key)
    OBVIOUS
  <2> HIDE DEF a, s, r
  <2>3. /\ Len(a) = Len(s) + Len(r) /\ DOMAIN a = 1..(Len(s) + Len(r))
        /\ \A i \in 1..(Len(s) + Len(r)) : a[i] = IF i <= Len(s) THEN s[i] ELSE r[i - Len(s)]
    BY <1>1, <2>1, Spliced
  <2>4. /\ Len(a) = 14 /\ DOMAIN a = 1..14
        /\ \A i \in 1..14 : a[i] = IF i <= 6 THEN s[i] ELSE r[i - 6]
    BY <2>1, <2>3
  <2> QED
    BY <2>2, <2>4
<1> HIDE DEF c, a
<1>3. B[0] = 0 /\ \A k \in 1..14 : B[k] = B[k - 1] + a[k].size
  <2>1. \A i \in 1..14 : a[i].size \in Nat
    BY <1>2, Sizes
  <2>2. Len(a) \in Nat /\ \A i \in 1..Len(a) : a[i].size \in Nat
    BY <1>2, <2>1
  <2>3. B[0] = 0 /\ \A k \in 1..Len(a) : B[k] = B[k - 1] + a[k].size
    BY <2>2, BeforeIs
  <2> QED
    BY <1>2, <2>3
<1> HIDE DEF B
<1>4. /\ B[1] = 4 /\ B[2] = 8 /\ B[3] = 12 /\ B[4] = 14 /\ B[5] = 20 /\ B[6] = 24
      /\ B[7] = 28 /\ B[8] = 32 /\ B[9] = 36 /\ B[10] = 36 + ssid
      /\ B[11] = 36 + ssid + key /\ B[12] = 36 + ssid + key + key
      /\ B[13] = 36 + ssid + key + key + key /\ B[14] = 36 + ssid + key + key + key + key
  <2>1. /\ B[1] = 4 /\ B[2] = 8 /\ B[3] = 12 /\ B[4] = 14 /\ B[5] = 20 /\ B[6] = 24
        /\ B[7] = 28
    BY <1>2, <1>3, Sizes
  <2> QED
    BY <1>2, <1>3, <2>1, Sizes
<1>5. c.len + c.payload = Width(a)
  BY <1>1, <1>2, <1>4 DEF Width, B
<1>6. ASSUME NEW i \in 1..14, a[i].to # 0
      PROVE  Place(a, i) + a[i].off = Place(a, a[i].to)
  <2>1. i \in {2, 7}
    BY <1>2, <1>6, Sizes
  <2> QED
    BY <1>2, <1>3, <1>4, <2>1, Sizes DEF Place, B
<1> QED
  BY <1>2, <1>5, <1>6 DEF LaidOut, a, c

LEMMA WpaLaidOut ==
    ASSUME NEW ssid \in Nat, NEW key \in Nat
    PROVE  LaidOut(AddProfileWpa(ssid, key))
<1> DEFINE c == AddProfileWpa(ssid, key)
           a == c.args
           B == Before(a)
<1> DEFINE s == <<UINT32_TO_STREAM, PointsTo(40, 12), UINT32_TO_STREAM, UINT16_TO_STREAM,
                 ARRAY_TO_STREAM(6), UINT32_TO_STREAM>>
           r == <<UINT32_TO_STREAM, UINT32_TO_STREAM, UINT32_TO_STREAM,
                 PointsTo(8 + ssid, 13), UINT32_TO_STREAM, ARRAY_TO_STREAM(ssid),
                 ARRAY_TO_STREAM(key)>>
<1>1. a = s \o r /\ c.len = 44 + ssid + key /\ c.payload = 0
  BY DEF AddProfileWpa, Profile, Result32, Command
<1>2. /\ a[1] = UINT32_TO_STREAM /\ a[2] = PointsTo(40, 12) /\ a[3] = UINT32_TO_STREAM
      /\ a[4] = UINT16_TO_STREAM /\ a[5] = ARRAY_TO_STREAM(6) /\ a[6] = UINT32_TO_STREAM
      /\ a[7] = UINT32_TO_STREAM /\ a[8] = UINT32_TO_STREAM /\ a[9] = UINT32_TO_STREAM
      /\ a[10] = PointsTo(8 + ssid, 13) /\ a[11] = UINT32_TO_STREAM
      /\ a[12] = ARRAY_TO_STREAM(ssid) /\ a[13] = ARRAY_TO_STREAM(key) /\ Len(a) = 13
      /\ DOMAIN a = 1..13
  <2>1. s \in Seq(Argument) /\ Len(s) = 6 /\ r \in Seq(Argument) /\ Len(r) = 7
    BY ArgumentTypes
  <2>2. /\ s[1] = UINT32_TO_STREAM /\ s[2] = PointsTo(40, 12) /\ s[3] = UINT32_TO_STREAM
        /\ s[4] = UINT16_TO_STREAM /\ s[5] = ARRAY_TO_STREAM(6)
        /\ s[6] = UINT32_TO_STREAM /\ r[1] = UINT32_TO_STREAM /\ r[2] = UINT32_TO_STREAM
        /\ r[3] = UINT32_TO_STREAM /\ r[4] = PointsTo(8 + ssid, 13)
        /\ r[5] = UINT32_TO_STREAM /\ r[6] = ARRAY_TO_STREAM(ssid)
        /\ r[7] = ARRAY_TO_STREAM(key)
    OBVIOUS
  <2> HIDE DEF a, s, r
  <2>3. /\ Len(a) = Len(s) + Len(r) /\ DOMAIN a = 1..(Len(s) + Len(r))
        /\ \A i \in 1..(Len(s) + Len(r)) : a[i] = IF i <= Len(s) THEN s[i] ELSE r[i - Len(s)]
    BY <1>1, <2>1, Spliced
  <2>4. /\ Len(a) = 13 /\ DOMAIN a = 1..13
        /\ \A i \in 1..13 : a[i] = IF i <= 6 THEN s[i] ELSE r[i - 6]
    BY <2>1, <2>3
  <2> QED
    BY <2>2, <2>4
<1> HIDE DEF c, a
<1>3. B[0] = 0 /\ \A k \in 1..13 : B[k] = B[k - 1] + a[k].size
  <2>1. \A i \in 1..13 : a[i].size \in Nat
    BY <1>2, Sizes
  <2>2. Len(a) \in Nat /\ \A i \in 1..Len(a) : a[i].size \in Nat
    BY <1>2, <2>1
  <2>3. B[0] = 0 /\ \A k \in 1..Len(a) : B[k] = B[k - 1] + a[k].size
    BY <2>2, BeforeIs
  <2> QED
    BY <1>2, <2>3
<1> HIDE DEF B
<1>4. /\ B[1] = 4 /\ B[2] = 8 /\ B[3] = 12 /\ B[4] = 14 /\ B[5] = 20 /\ B[6] = 24
      /\ B[7] = 28 /\ B[8] = 32 /\ B[9] = 36 /\ B[10] = 40 /\ B[11] = 44
      /\ B[12] = 44 + ssid /\ B[13] = 44 + ssid + key
  <2>1. /\ B[1] = 4 /\ B[2] = 8 /\ B[3] = 12 /\ B[4] = 14 /\ B[5] = 20 /\ B[6] = 24
    BY <1>2, <1>3, Sizes
  <2> QED
    BY <1>2, <1>3, <2>1, Sizes
<1>5. c.len + c.payload = Width(a)
  BY <1>1, <1>2, <1>4 DEF Width, B
<1>6. ASSUME NEW i \in 1..13, a[i].to # 0
      PROVE  Place(a, i) + a[i].off = Place(a, a[i].to)
  <2>1. i \in {2, 10}
    BY <1>2, <1>6, Sizes
  <2> QED
    BY <1>2, <1>3, <1>4, <2>1, Sizes DEF Place, B
<1> QED
  BY <1>2, <1>5, <1>6 DEF LaidOut, a, c

\* select: the three sets and the timeout, each as far behind its pointer
LEMMA SelectLaidOut == LaidOut(Select)
<1> DEFINE s == <<UINT32_TO_STREAM, PointsTo(20, 7), PointsTo(20, 8), PointsTo(20, 9),
                  PointsTo(20, 10)>>
           w == Words(6)
           a == s \o w
           p == [i \in 0..11 |-> 4 * i]
<1>1. Select.args = a /\ Select.len = 44 /\ Select.payload = 0
  BY DEF Select, Command
<1>2. /\ s \in Seq(Argument) /\ Len(s) = 5
      /\ w \in Seq(Argument) /\ Len(w) = 6 /\ \A i \in 1..6 : w[i] = UINT32_TO_STREAM
  <2>1. s \in Seq(Argument) /\ Len(s) = 5
    BY ArgumentTypes
  <2>2. w \in Seq(Argument) /\ Len(w) = 6 /\ \A i \in 1..6 : w[i] = UINT32_TO_STREAM
    BY WordsAre
  <2> QED
    BY <2>1, <2>2
<1>3. /\ s[1] = UINT32_TO_STREAM /\ s[2] = PointsTo(20, 7) /\ s[3] = PointsTo(20, 8)
      /\ s[4] = PointsTo(20, 9) /\ s[5] = PointsTo(20, 10)
  OBVIOUS
<1> HIDE DEF s, w, a
<1>4. /\ a \in Seq(Argument) /\ Len(a) = 11 /\ DOMAIN a = 1..11
      /\ \A i \in 1..11 : a[i] = IF i <= 5 THEN s[i] ELSE w[i - 5]
  <2>1. /\ a \in Seq(Argument) /\ Len(a) = Len(s) + Len(w)
        /\ DOMAIN a = 1..(Len(s) + Len(w))
        /\ \A i \in 1..(Len(s) + Len(w)) : a[i] = IF i <= Len(s) THEN s[i] ELSE w[i - Len(s)]
    BY <1>2, Spliced DEF a
  <2> QED
    BY <1>2, <2>1
<1>5. \A i \in 6..11 : a[i] = UINT32_TO_STREAM
  <2>1. \A i \in 6..11 : i \in 1..11 /\ ~(i <= 5) /\ i - 5 \in 1..6
    OBVIOUS
  <2> QED
    BY <1>2, <1>4, <2>1
<1>6. \A i \in 0..11 : Before(a)[i] = p[i]
  <2>1. \A i \in 1..11 : a[i].size = 4
    BY <1>3, <1>4, <1>5, Sizes
  <2>2. p[0] = 0 /\ \A i \in 1..11 : p[i] = p[i - 1] + a[i].size
    BY <2>1
  <2> HIDE DEF p
  <2>3. \A i \in 1..Len(a) : p[i] = p[i - 1] + a[i].size
    BY <1>4, <2>2
  <2>4. \A i \in 0..Len(a) : Before(a)[i] = p[i]
    BY <1>4, <2>2, <2>3, PlacesAre
  <2> QED
    BY <1>4, <2>4
<1>7. Width(a) = 44
  BY <1>4, <1>6 DEF Width
<1>8. ASSUME NEW i \in 1..11, a[i].to # 0 PROVE Place(a, i) + a[i].off = Place(a, a[i].to)
  <2>1. /\ a[1] = UINT32_TO_STREAM /\ a[2] = PointsTo(20, 7) /\ a[3] = PointsTo(20, 8)
        /\ a[4] = PointsTo(20, 9) /\ a[5] = PointsTo(20, 10)
    BY <1>3, <1>4
  <2>2. i \in {2, 3, 4, 5}
    BY <1>5, <1>8, <2>1, Sizes
  <2>3. /\ a[i].off = 20 /\ a[i].to = i + 5
    BY <2>1, <2>2, Sizes
  <2>4. /\ i - 1 \in 0..11 /\ i + 5 - 1 \in 0..11
        /\ 4 * (i - 1) + 20 = 4 * (i + 5 - 1)
    BY <2>2
  <2> QED
    BY <1>6, <2>3, <2>4 DEF Place
<1> QED
  BY <1>1, <1>4, <1>7, <1>8 DEF LaidOut

\* wlan_ioctl_set_scan_params: the list of intervals
LEMMA ScanParamsLaidOut == LaidOut(SetScanParams)
<1> DEFINE s == <<PointsTo(36, 10)>>
           w == Words(8)
           r == <<ARRAY_TO_STREAM(4 * 16)>>
           b == s \o w
           a == b \o r
           p == [i \in 0..10 |-> IF i < 10 THEN 4 * i ELSE 100]
<1>1. SetScanParams.args = a /\ SetScanParams.len = 100 /\ SetScanParams.payload = 0
  BY DEF SetScanParams, Result32, Command
<1>2. /\ s \in Seq(Argument) /\ Len(s) = 1 /\ s[1] = PointsTo(36, 10)
      /\ w \in Seq(Argument) /\ Len(w) = 8 /\ \A i \in 1..8 : w[i] = UINT32_TO_STREAM
      /\ r \in Seq(Argument) /\ Len(r) = 1 /\ r[1] = ARRAY_TO_STREAM(64)
  <2>1. s \in Seq(Argument) /\ Len(s) = 1 /\ s[1] = PointsTo(36, 10)
    BY ArgumentTypes
  <2>2. w \in Seq(Argument) /\ Len(w) = 8 /\ \A i \in 1..8 : w[i] = UINT32_TO_STREAM
    BY WordsAre
  <2>3. 4 * 16 = 64 /\ 64 \in Nat
    OBVIOUS
  <2>4. r \in Seq(Argument) /\ Len(r) = 1 /\ r[1] = ARRAY_TO_STREAM(64)
    BY <2>3, ArgumentTypes
  <2> QED
    BY <2>1, <2>2, <2>4
<1> HIDE DEF s, w, r, b, a
<1>3. /\ b \in Seq(Argument) /\ Len(b) = 9
      /\ \A i \in 1..9 : b[i] = IF i <= 1 THEN s[i] ELSE w[i - 1]
  <2>1. /\ b \in Seq(Argument) /\ Len(b) = Len(s) + Len(w)
        /\ \A i \in 1..(Len(s) + Len(w)) : b[i] = IF i <= Len(s) THEN s[i] ELSE w[i - Len(s)]
    BY <1>2, Spliced DEF b
  <2> QED
    BY <1>2, <2>1
<1>4. /\ a \in Seq(Argument) /\ Len(a) = 10 /\ DOMAIN a = 1..10
      /\ \A i \in 1..10 : a[i] = IF i <= 9 THEN b[i] ELSE r[i - 9]
  <2>1. /\ a \in Seq(Argument) /\ Len(a) = Len(b) + Len(r)
        /\ DOMAIN a = 1..(Len(b) + Len(r))
        /\ \A i \in 1..(Len(b) + Len(r)) : a[i] = IF i <= Len(b) THEN b[i] ELSE r[i - Len(b)]
    BY <1>2, <1>3, Spliced DEF a
  <2> QED
    BY <1>2, <1>3, <2>1
<1>5. /\ a[1] = PointsTo(36, 10) /\ a[10] = ARRAY_TO_STREAM(64)
      /\ \A i \in 2..9 : a[i] = UINT32_TO_STREAM
  <2>1. \A i \in 2..9 : i \in 1..10 /\ i \in 1..9 /\ ~(i <= 1) /\ i - 1 \in 1..8
    OBVIOUS
  <2> QED
    BY <1>2, <1>3, <1>4, <2>1
<1>6. \A i \in 0..10 : Before(a)[i] = p[i]
  <2>1. a[10].size = 64 /\ \A i \in 1..9 : a[i].size = 4
    BY <1>5, Sizes
  <2>2. p[0] = 0 /\ \A i \in 1..10 : p[i] = p[i - 1] + a[i].size
    BY <2>1
  <2> HIDE DEF p
  <2>3. \A i \in 1..Len(a) : p[i] = p[i - 1] + a[i].size
    BY <1>4, <2>2
  <2>4. \A i \in 0..Len(a) : Before(a)[i] = p[i]
    BY <1>4, <2>2, <2>3, PlacesAre
  <2> QED
    BY <1>4, <2>4
<1>7. Width(a) = 100
  BY <1>4, <1>6 DEF Width
<1>8. \A i \in 1..10 : a[i].to # 0 => Place(a, i) + a[i].off = Place(a, a[i].to)
  BY <1>4, <1>5, <1>6, Sizes DEF Place
<1> QED
  BY <1>1, <1>4, <1>7, <1>8 DEF LaidOut

\* A command whose arguments are words, or one array, or none
LEMMA WordsLaidOut ==
    ASSUME NEW c, NEW n \in Nat, c.args = Words(n),
           c.op # HCI_NETAPP_SET_TIMERS => c.len + c.payload = 4 * n
    PROVE  LaidOut(c)
<1> DEFINE a == Words(n)
           p == [i \in 0..n |-> 4 * i]
<1>1. /\ a \in Seq(Argument) /\ Len(a) = n /\ DOMAIN a = 1..n
      /\ \A i \in 1..n : a[i].size = 4 /\ a[i].to = 0
  BY WordsAre, LenProperties, Sizes
<1> HIDE DEF a
<1>2. Before(a)[n] = 4 * n
  <2>1. p[0] = 0 /\ \A i \in 1..n : p[i] = p[i - 1] + 4
    OBVIOUS
  <2>2. p[n] = 4 * n
    OBVIOUS
  <2> HIDE DEF p
  <2>3. \A i \in 1..Len(a) : p[i] = p[i - 1] + a[i].size
    BY <1>1, <2>1
  <2>4. \A i \in 0..Len(a) : Before(a)[i] = p[i]
    BY <1>1, <2>1, <2>3, PlacesAre
  <2> QED
    BY <1>1, <2>2, <2>4
<1> QED
  BY <1>1, <1>2 DEF LaidOut, Width, a

LEMMA ArrayLaidOut ==
    ASSUME NEW c, NEW n \in Nat, c.args = <<Bytes(n)>>, c.len + c.payload = n
    PROVE  LaidOut(c)
<1> DEFINE a == <<Bytes(n)>>
<1>1. Len(a) = 1 /\ DOMAIN a = {1} /\ a[1].size = n /\ a[1].to = 0
  BY DEF Bytes
<1> HIDE DEF a
<1>2. Before(a)[0] = 0 /\ Before(a)[1] = Before(a)[0] + a[1].size
  <2>1. Len(a) \in Nat /\ 1 \in 1..Len(a) /\ \A i \in 1..Len(a) : a[i].size \in Nat
    BY <1>1
  <2>2. Before(a)[1] = Before(a)[1 - 1] + a[1].size /\ Before(a)[0] = 0
    BY <2>1, BeforeIs
  <2> QED
    BY <2>2
<1> QED
  BY <1>1, <1>2 DEF LaidOut, Width, a

LEMMA NoneLaidOut ==
    ASSUME NEW c, c.args = <<>>, c.len + c.payload = 0
    PROVE  LaidOut(c)
<1>1. Before(<<>>)[0] = 0
  <2>1. Len(<<>>) \in Nat /\ \A i \in 1..Len(<<>>) : <<>>[i].size \in Nat
    OBVIOUS
  <2> QED
    BY <2>1, BeforeIs
<1> QED
  BY <1>1 DEF LaidOut, Width

\* The fields of the functions that have words for arguments, one array, or none
LEMMA WordCommands ==
    /\ \A c \in {CloseSocket, Accept, GetMss, DelProfile, GetScanResults, SetEventMask,
                 SmartConfigStart, SetDebugLevel} :
          c.args = Words(1) /\ c.len = 4 /\ c.payload = 0
    /\ \A c \in {Listen, NvmemCreateEntry} : c.args = Words(2) /\ c.len = 8 /\ c.payload = 0
    /\ \A c \in {Socket, GetSockOpt, Recv, RecvFrom, SetConnectionPolicy, NvmemRead} :
          c.args = Words(3) /\ c.len = 12 /\ c.payload = 0
    /\ PingSend.args = Words(4) /\ PingSend.len = 16 /\ PingSend.payload = 0
    /\ TimeoutValues.args = Words(4) /\ TimeoutValues.len = 20 /\ TimeoutValues.payload = 0
    /\ TimeoutValues.op = HCI_NETAPP_SET_TIMERS
    /\ Dhcp.args = Words(5) /\ Dhcp.len = 20 /\ Dhcp.payload = 0
<1> USE DEF Result32, Result8, ResultU8, Command
<1>1. \A c \in {CloseSocket, Accept, GetMss} : c.args = Words(1) /\ c.len = 4 /\ c.payload = 0
  BY DEF CloseSocket, Accept, GetMss
<1>2. \A c \in {DelProfile, GetScanResults, SetEventMask} :
          c.args = Words(1) /\ c.len = 4 /\ c.payload = 0
  BY DEF DelProfile, GetScanResults, SetEventMask
<1>3. \A c \in {SmartConfigStart, SetDebugLevel} :
          c.args = Words(1) /\ c.len = 4 /\ c.payload = 0
  BY DEF SmartConfigStart, SetDebugLevel
<1>4. \A c \in {Listen, NvmemCreateEntry} : c.args = Words(2) /\ c.len = 8 /\ c.payload = 0
  BY DEF Listen, NvmemCreateEntry
<1>5. \A c \in {Socket, GetSockOpt, SetConnectionPolicy, NvmemRead} :
          c.args = Words(3) /\ c.len = 12 /\ c.payload = 0
  BY DEF Socket, GetSockOpt, SetConnectionPolicy, NvmemRead
<1>6. \A c \in {Recv, RecvFrom} : c.args = Words(3) /\ c.len = 12 /\ c.payload = 0
  BY DEF Recv, RecvFrom, Received
<1>7. PingSend.args = Words(4) /\ PingSend.len = 16 /\ PingSend.payload = 0
  BY DEF PingSend
<1>8. /\ TimeoutValues.args = Words(4) /\ TimeoutValues.len = 20 /\ TimeoutValues.payload = 0
      /\ TimeoutValues.op = HCI_NETAPP_SET_TIMERS
  BY DEF TimeoutValues
<1>9. Dhcp.args = Words(5) /\ Dhcp.len = 20 /\ Dhcp.payload = 0
  BY DEF Dhcp
<1> HIDE DEF Result32, Result8, ResultU8, Command
<1>10. \A c \in {CloseSocket, Accept, GetMss, DelProfile, GetScanResults, SetEventMask,
                 SmartConfigStart, SetDebugLevel} :
          c.args = Words(1) /\ c.len = 4 /\ c.payload = 0
  BY <1>1, <1>2, <1>3
<1>11. \A c \in {Socket, GetSockOpt, Recv, RecvFrom, SetConnectionPolicy, NvmemRead} :
          c.args = Words(3) /\ c.len = 12 /\ c.payload = 0
  BY <1>5, <1>6
<1> QED
  BY <1>4, <1>7, <1>8, <1>9, <1>10, <1>11

\* The functions without arguments
LEMMA EmptyCommands ==
    \A c \in {ReadBufferSize, WlanDisconnect, StatusGet, SmartConfigStop, PingReport, PingStop,
              ArpFlush, IpConfig, ReadSpVersion} :
        c.args = <<>> /\ c.len = 0 /\ c.payload = 0
<1> USE DEF Result32, Result8, ResultU8, Command
<1>1. \A c \in {ReadBufferSize, WlanDisconnect, StatusGet} :
          c.args = <<>> /\ c.len = 0 /\ c.payload = 0
  BY DEF ReadBufferSize, WlanDisconnect, StatusGet
<1>2. \A c \in {SmartConfigStop, PingReport, PingStop} :
          c.args = <<>> /\ c.len = 0 /\ c.payload = 0
  BY DEF SmartConfigStop, PingReport, PingStop
<1>3. \A c \in {ArpFlush, IpConfig, ReadSpVersion} : c.args = <<>> /\ c.len = 0 /\ c.payload = 0
  BY DEF ArpFlush, IpConfig, ReadSpVersion
<1> HIDE DEF Result32, Result8, ResultU8, Command
<1> QED
  BY <1>1, <1>2, <1>3

\* The two that have bytes
LEMMA ArrayCommands ==
    /\ SimpleLinkStart.args = <<Bytes(1)>> /\ SimpleLinkStart.len = 1
    /\ SimpleLinkStart.payload = 0
    /\ SmartConfigSetPrefix.args = <<Bytes(3)>> /\ SmartConfigSetPrefix.len = 3
    /\ SmartConfigSetPrefix.payload = 0
BY DEF SimpleLinkStart, SmartConfigSetPrefix, ARRAY_TO_STREAM, Result32, Command

\* Every function of the API, whatever its lengths, announces what it has written, the
\* timers apart, and every pointer among its arguments reaches what it points to.
THEOREM ApiLaidOut == \A c \in Api : LaidOut(c)
<1>1. ASSUME NEW c, NEW n \in Nat, c.args = Words(n), c.len = 4 * n, c.payload = 0
      PROVE  LaidOut(c)
  BY <1>1, WordsLaidOut
<1>2. \A c \in {CloseSocket, Accept, GetMss, DelProfile, GetScanResults, SetEventMask,
                SmartConfigStart, SetDebugLevel} : LaidOut(c)
  BY <1>1, WordCommands
<1>3. \A c \in {Listen, NvmemCreateEntry} : LaidOut(c)
  BY <1>1, WordCommands
<1>4. \A c \in {Socket, GetSockOpt, Recv, RecvFrom, SetConnectionPolicy, NvmemRead} : LaidOut(c)
  BY <1>1, WordCommands
<1>5. LaidOut(PingSend) /\ LaidOut(Dhcp)
  BY <1>1, WordCommands
<1>6. LaidOut(TimeoutValues)
  BY WordCommands, WordsLaidOut
<1>7. \A c \in {ReadBufferSize, WlanDisconnect, StatusGet, SmartConfigStop, PingReport, PingStop,
                ArpFlush, IpConfig, ReadSpVersion} : LaidOut(c)
  BY EmptyCommands, NoneLaidOut
<1>8. LaidOut(SimpleLinkStart) /\ LaidOut(SmartConfigSetPrefix)
  BY ArrayCommands, ArrayLaidOut
<1>9. LaidOut(Connect)
  BY BindLaidOut DEF LaidOut, Bind, Connect, Result32, Command, HCI_NETAPP_SET_TIMERS,
                     HCI_CMND_BIND, HCI_CMND_CONNECT
<1>10. \A c \in SocketApi : LaidOut(c)
  BY <1>2, <1>3, <1>4, <1>9, BindLaidOut, SelectLaidOut, OptionLaidOut, HostLaidOut, SendLaidOut,
     SendToLaidOut, MdnsLaidOut DEF SocketApi
<1>11. \A c \in WlanApi : LaidOut(c)
  BY <1>2, <1>4, <1>7, <1>8, ScanParamsLaidOut, ConnectLaidOut, UnsecLaidOut, WepLaidOut,
     WpaLaidOut DEF WlanApi
<1>12. \A c \in DeviceApi : LaidOut(c)
  BY <1>2, <1>3, <1>4, <1>5, <1>6, <1>7, WriteLaidOut DEF DeviceApi
<1> QED
  BY <1>10, <1>11, <1>12 DEF Api

\* A command has room that leaves the last byte of the transmit buffer alone.
DataCommands == {HCI_CMND_SEND, HCI_CMND_SENDTO, HCI_CMND_NVMEM_WRITE}
HasRoom(c) ==
    (IF c.op \in DataCommands THEN HEADERS_SIZE_DATA ELSE HEADERS_SIZE_CMD)
        + (c.len + c.payload) < CC3000_TX_BUFFER_SIZE

\* The calls that are refused or have room.
FittingApi == {c \in Api : TooLong(c) \/ HasRoom(c)}

\* The functions without a length.
Fixed ==
    {Socket, CloseSocket, Listen, Bind, Connect, Accept, Select, GetSockOpt, GetMss, Recv,
     RecvFrom, SimpleLinkStart, ReadBufferSize, WlanDisconnect, SetConnectionPolicy, DelProfile,
     GetScanResults, SetScanParams, SetEventMask, StatusGet, SmartConfigStart, SmartConfigStop,
     SmartConfigSetPrefix, Dhcp, TimeoutValues, PingSend, PingReport, PingStop, ArpFlush,
     SetDebugLevel, IpConfig, NvmemRead, ReadSpVersion, NvmemCreateEntry}
\* What is short has room behind either header.
LEMMA ShortHasRoom ==
    ASSUME NEW c, NEW n \in Nat, c.len + c.payload = n, n <= 200
    PROVE  HasRoom(c)
BY DEF HasRoom, HEADERS_SIZE_DATA, HEADERS_SIZE_CMD, SPI_HEADER_SIZE, CC3000_TX_BUFFER_SIZE

\* The functions without a length have room.
LEMMA FixedHasRoom == \A c \in Fixed : HasRoom(c)
<1>1. ASSUME NEW c, NEW n \in Nat, c.len = n, n <= 100, c.payload = 0 PROVE HasRoom(c)
  BY <1>1, ShortHasRoom
<1>2. \A c \in {CloseSocket, Accept, GetMss, DelProfile, GetScanResults, SetEventMask,
                SmartConfigStart, SetDebugLevel, Listen, NvmemCreateEntry} : HasRoom(c)
  BY <1>1, WordCommands
<1>3. \A c \in {Socket, GetSockOpt, Recv, RecvFrom, SetConnectionPolicy, NvmemRead, PingSend,
                TimeoutValues, Dhcp} : HasRoom(c)
  BY <1>1, WordCommands
<1>4. \A c \in {ReadBufferSize, WlanDisconnect, StatusGet, SmartConfigStop, PingReport, PingStop,
                ArpFlush, IpConfig, ReadSpVersion} : HasRoom(c)
  BY <1>1, EmptyCommands
<1>5. HasRoom(SimpleLinkStart) /\ HasRoom(SmartConfigSetPrefix)
  BY <1>1, ArrayCommands
<1>6. /\ Bind.len = 20 /\ Bind.payload = 0 /\ Connect.len = 20 /\ Connect.payload = 0
      /\ Select.len = 44 /\ Select.payload = 0
      /\ SetScanParams.len = 100 /\ SetScanParams.payload = 0
  BY DEF Bind, Connect, Select, SetScanParams, Result32, Command
<1>7. HasRoom(Bind) /\ HasRoom(Connect) /\ HasRoom(Select) /\ HasRoom(SetScanParams)
  BY <1>1, <1>6
<1> QED
  BY <1>2, <1>3, <1>4, <1>5, <1>7 DEF Fixed

\* What each of the functions with lengths has room for.
LEMMA RoomOfOne ==
    ASSUME NEW n \in Nat
    PROVE  /\ HasRoom(SetSockOpt(n)) <=> n <= 181
           /\ HasRoom(GetHostByName(n)) <=> n <= 193
           /\ HasRoom(Send(n)) <=> n <= 184
           /\ HasRoom(SendTo(n)) <=> n <= 168
           /\ n <= MDNS_DEVICE_SERVICE_MAX_LENGTH => HasRoom(MdnsAdvertiser(n))
           /\ HasRoom(AddProfileUnsec(n)) <=> n <= 177
           /\ HasRoom(NvmemWrite(n)) <=> n <= 184
<1> USE DEF HasRoom, HEADERS_SIZE_DATA, HEADERS_SIZE_CMD, SPI_HEADER_SIZE,
            CC3000_TX_BUFFER_SIZE, DataCommands, HCI_CMND_SEND, HCI_CMND_SENDTO,
            HCI_CMND_NVMEM_WRITE, Command, Result32, Result8
<1>1. HasRoom(SetSockOpt(n)) <=> n <= 181
  BY DEF SetSockOpt, HCI_CMND_SETSOCKOPT
<1>2. HasRoom(GetHostByName(n)) <=> n <= 193
  BY DEF GetHostByName, HCI_CMND_GETHOSTNAME
<1>3. HasRoom(Send(n)) <=> n <= 184
  BY DEF Send
<1>4. HasRoom(SendTo(n)) <=> n <= 168
  BY DEF SendTo
<1>5. n <= MDNS_DEVICE_SERVICE_MAX_LENGTH => HasRoom(MdnsAdvertiser(n))
  BY DEF MdnsAdvertiser, HCI_CMND_MDNS_ADVERTISE, MDNS_DEVICE_SERVICE_MAX_LENGTH
<1>6. HasRoom(AddProfileUnsec(n)) <=> n <= 177
  BY DEF AddProfileUnsec, Profile, HCI_CMND_WLAN_IOCTL_ADD_PROFILE
<1>7. HasRoom(NvmemWrite(n)) <=> n <= 184
  BY DEF NvmemWrite
<1> QED
  BY <1>1, <1>2, <1>3, <1>4, <1>5, <1>6, <1>7

LEMMA RoomOfTwo ==
    ASSUME NEW s \in Nat, NEW k \in Nat
    PROVE  /\ HasRoom(WlanConnect(s, k)) <=> s + k <= 173
           /\ HasRoom(AddProfileWep(s, k)) <=> s + 4 * k <= 165
           /\ HasRoom(AddProfileWpa(s, k)) <=> s + k <= 157
<1> USE DEF HasRoom, HEADERS_SIZE_DATA, HEADERS_SIZE_CMD, SPI_HEADER_SIZE,
            CC3000_TX_BUFFER_SIZE, DataCommands, HCI_CMND_SEND, HCI_CMND_SENDTO,
            HCI_CMND_NVMEM_WRITE, Command, Result32
<1>1. HasRoom(WlanConnect(s, k)) <=> s + k <= 173
  BY DEF WlanConnect, HCI_CMND_WLAN_CONNECT
<1>2. HasRoom(AddProfileWep(s, k)) <=> s + 4 * k <= 165
  BY DEF AddProfileWep, Profile, HCI_CMND_WLAN_IOCTL_ADD_PROFILE
<1>3. HasRoom(AddProfileWpa(s, k)) <=> s + k <= 157
  BY DEF AddProfileWpa, Profile, HCI_CMND_WLAN_IOCTL_ADD_PROFILE
<1> QED
  BY <1>1, <1>2, <1>3

\* What is refused.
LEMMA RefusedNames ==
    ASSUME NEW n \in Nat
    PROVE  /\ TooLong(GetHostByName(n)) <=> n > HOSTNAME_MAX_LENGTH
           /\ TooLong(MdnsAdvertiser(n)) <=> n > MDNS_DEVICE_SERVICE_MAX_LENGTH
<1>1. TooLong(GetHostByName(n)) <=> n > HOSTNAME_MAX_LENGTH
  <2> DEFINE a == <<PointsTo(8, 3), UINT32_TO_STREAM, ARRAY_TO_STREAM(n)>>
  <2>1. GetHostByName(n).args = a /\ GetHostByName(n).op = HCI_CMND_GETHOSTNAME
    BY DEF GetHostByName, Command
  <2>2. Last(a) = ARRAY_TO_STREAM(n)
    BY DEF Last
  <2> HIDE DEF a
  <2>3. Last(a).size = n
    BY <2>2, Sizes
  <2>4. HCI_CMND_GETHOSTNAME # HCI_CMND_MDNS_ADVERTISE
    BY DEF HCI_CMND_GETHOSTNAME, HCI_CMND_MDNS_ADVERTISE
  <2> QED
    BY <2>1, <2>3, <2>4 DEF TooLong, TooLongHost
<1>2. TooLong(MdnsAdvertiser(n)) <=> n > MDNS_DEVICE_SERVICE_MAX_LENGTH
  <2> DEFINE a == <<UINT32_TO_STREAM, PointsTo(8, 4), UINT32_TO_STREAM, ARRAY_TO_STREAM(n)>>
  <2>1. MdnsAdvertiser(n).args = a /\ MdnsAdvertiser(n).op = HCI_CMND_MDNS_ADVERTISE
    BY DEF MdnsAdvertiser, Result8, Command
  <2>2. Last(a) = ARRAY_TO_STREAM(n)
    BY DEF Last
  <2> HIDE DEF a
  <2>3. Last(a).size = n
    BY <2>2, Sizes
  <2>4. HCI_CMND_GETHOSTNAME # HCI_CMND_MDNS_ADVERTISE
    BY DEF HCI_CMND_GETHOSTNAME, HCI_CMND_MDNS_ADVERTISE
  <2> QED
    BY <2>1, <2>3, <2>4 DEF TooLong, TooLongHost
<1> QED
  BY <1>1, <1>2

LEMMA NotRefused ==
    ASSUME NEW n, NEW k
    PROVE  /\ ~TooLong(SetSockOpt(n)) /\ ~TooLong(Send(n)) /\ ~TooLong(SendTo(n))
           /\ ~TooLong(AddProfileUnsec(n)) /\ ~TooLong(NvmemWrite(n))
           /\ ~TooLong(WlanConnect(n, k)) /\ ~TooLong(AddProfileWep(n, k)) /\ ~TooLong(AddProfileWpa(n, k))
<1>1. ASSUME NEW c, c.op # HCI_CMND_GETHOSTNAME, c.op # HCI_CMND_MDNS_ADVERTISE PROVE ~TooLong(c)
  BY <1>1 DEF TooLong, TooLongHost
<1>2. /\ SetSockOpt(n).op = HCI_CMND_SETSOCKOPT /\ Send(n).op = HCI_CMND_SEND
      /\ SendTo(n).op = HCI_CMND_SENDTO /\ NvmemWrite(n).op = HCI_CMND_NVMEM_WRITE
  BY DEF SetSockOpt, Send, SendTo, NvmemWrite, Result32, Command
<1>3. /\ AddProfileUnsec(n).op = HCI_CMND_WLAN_IOCTL_ADD_PROFILE
      /\ AddProfileWep(n, k).op = HCI_CMND_WLAN_IOCTL_ADD_PROFILE
      /\ AddProfileWpa(n, k).op = HCI_CMND_WLAN_IOCTL_ADD_PROFILE
      /\ WlanConnect(n, k).op = HCI_CMND_WLAN_CONNECT
  BY DEF AddProfileUnsec, AddProfileWep, AddProfileWpa, WlanConnect, Profile, Result32, Command
<1>4. \A op \in {HCI_CMND_SETSOCKOPT, HCI_CMND_SEND, HCI_CMND_SENDTO, HCI_CMND_NVMEM_WRITE,
                 HCI_CMND_WLAN_IOCTL_ADD_PROFILE, HCI_CMND_WLAN_CONNECT} :
          op # HCI_CMND_GETHOSTNAME /\ op # HCI_CMND_MDNS_ADVERTISE
  BY DEF HCI_CMND_SETSOCKOPT, HCI_CMND_SEND, HCI_CMND_SENDTO, HCI_CMND_NVMEM_WRITE,
         HCI_CMND_WLAN_IOCTL_ADD_PROFILE, HCI_CMND_WLAN_CONNECT, HCI_CMND_GETHOSTNAME,
         HCI_CMND_MDNS_ADVERTISE
<1>5. ~TooLong(SetSockOpt(n)) /\ ~TooLong(Send(n)) /\ ~TooLong(SendTo(n)) /\ ~TooLong(NvmemWrite(n))
  BY <1>1, <1>2, <1>4
<1>6. /\ ~TooLong(AddProfileUnsec(n)) /\ ~TooLong(AddProfileWep(n, k)) /\ ~TooLong(AddProfileWpa(n, k))
      /\ ~TooLong(WlanConnect(n, k))
  BY <1>1, <1>3, <1>4
<1> QED
  BY <1>5, <1>6

\* The lengths that are refused or have room, for every function that takes one, and no others:
\* gethostbyname overruns the buffer from 194 bytes up to the 230 from which it refuses,
\* mdnsAdvertiser refuses in time, the others refuse nothing. Without a length all have room.
THEOREM RoomExactly ==
    /\ Fixed \subseteq FittingApi
    /\ \A n \in Nat : SetSockOpt(n) \in FittingApi <=> n <= 181
    /\ \A n \in Nat : GetHostByName(n) \in FittingApi <=> (n <= 193 \/ n > HOSTNAME_MAX_LENGTH)
    /\ \A n \in Nat : Send(n) \in FittingApi <=> n <= 184
    /\ \A n \in Nat : SendTo(n) \in FittingApi <=> n <= 168
    /\ \A n \in Nat : MdnsAdvertiser(n) \in FittingApi
    /\ \A n \in Nat : NvmemWrite(n) \in FittingApi <=> n <= 184
    /\ \A s, k \in Nat : WlanConnect(s, k) \in FittingApi <=> s + k <= 173
    /\ \A s \in Nat : AddProfileUnsec(s) \in FittingApi <=> s <= 177
    /\ \A s, k \in Nat : AddProfileWep(s, k) \in FittingApi <=> s + 4 * k <= 165
    /\ \A s, k \in Nat : AddProfileWpa(s, k) \in FittingApi <=> s + k <= 157
<1>1. Fixed \subseteq FittingApi
  <2>1. Fixed \subseteq Api
    BY DEF Fixed, Api, SocketApi, WlanApi, DeviceApi
  <2> QED
    BY <2>1, FixedHasRoom DEF FittingApi
<1>2. \A c \in Api : c \in FittingApi <=> TooLong(c) \/ HasRoom(c)
  BY DEF FittingApi
<1>3. ASSUME NEW n \in Nat
      PROVE  /\ SetSockOpt(n) \in Api /\ GetHostByName(n) \in Api /\ Send(n) \in Api
             /\ SendTo(n) \in Api /\ MdnsAdvertiser(n) \in Api
  BY DEF Api, SocketApi
<1>4. ASSUME NEW n \in Nat PROVE NvmemWrite(n) \in Api
  BY DEF Api, DeviceApi
<1>5. ASSUME NEW s \in Nat, NEW k \in Nat
      PROVE  /\ WlanConnect(s, k) \in Api /\ AddProfileUnsec(s) \in Api
             /\ AddProfileWep(s, k) \in Api /\ AddProfileWpa(s, k) \in Api
  BY DEF Api, WlanApi
<1>6. ASSUME NEW n \in Nat
      PROVE  /\ SetSockOpt(n) \in FittingApi <=> n <= 181
             /\ Send(n) \in FittingApi <=> n <= 184
             /\ SendTo(n) \in FittingApi <=> n <= 168
             /\ NvmemWrite(n) \in FittingApi <=> n <= 184
  BY <1>2, <1>3, <1>4, RoomOfOne, NotRefused
<1>7. ASSUME NEW n \in Nat
      PROVE  GetHostByName(n) \in FittingApi <=> (n <= 193 \/ n > HOSTNAME_MAX_LENGTH)
  BY <1>2, <1>3, RoomOfOne, RefusedNames
<1>8. ASSUME NEW n \in Nat PROVE MdnsAdvertiser(n) \in FittingApi
  <2>1. n <= MDNS_DEVICE_SERVICE_MAX_LENGTH \/ n > MDNS_DEVICE_SERVICE_MAX_LENGTH
    BY DEF MDNS_DEVICE_SERVICE_MAX_LENGTH
  <2> QED
    BY <1>2, <1>3, <2>1, RoomOfOne, RefusedNames
<1>9. ASSUME NEW s \in Nat, NEW k \in Nat
      PROVE  /\ WlanConnect(s, k) \in FittingApi <=> s + k <= 173
             /\ AddProfileUnsec(s) \in FittingApi <=> s <= 177
             /\ AddProfileWep(s, k) \in FittingApi <=> s + 4 * k <= 165
             /\ AddProfileWpa(s, k) \in FittingApi <=> s + k <= 157
  BY <1>2, <1>5, RoomOfOne, RoomOfTwo, NotRefused
<1>10. \A s \in Nat : AddProfileUnsec(s) \in FittingApi <=> s <= 177
  <2>1. 0 \in Nat
    OBVIOUS
  <2> QED
    BY <1>9, <2>1
<1> QED
  BY <1>1, <1>6, <1>7, <1>8, <1>9, <1>10

\* With lengths the transmit buffer has room for, every command that is sent announces
\* what it has written, reaches what it points to and leaves the byte that detects an
\* overrun alone; names that are too long are refused.
THEOREM WellFormed ==
    ASSUME Calls \subseteq FittingApi
    PROVE  Spec => []CommandWellFormed
<1> DEFINE Called == call = NoCall \/ (call \in Calls /\ ~TooLong(call))
<1>1. Init => Called
  BY DEF Init
<1>2. Called /\ [Next]_vars => Called'
  <2> SUFFICES ASSUME Called, [Next]_vars PROVE Called'
    OBVIOUS
  <2>1. CASE \E c \in Calls : Refuse(c)
    BY <2>1 DEF Refuse
  <2>2. CASE \E c \in Calls, s \in Statuses : Issue(c, s)
    BY <2>2 DEF Issue
  <2>3. CASE ArmEvent \/ ArmData \/ Take
    BY <2>3 DEF ArmEvent, ArmData, Take
  <2>4. CASE Return
    BY <2>4 DEF Return
  <2>5. CASE DevAnswer \/ \E op \in Unsolicited : DevEvent(op)
    BY <2>5 DEF DevAnswer, DevEvent, Receive
  <2>6. CASE UNCHANGED vars
    BY <2>6 DEF vars
  <2> QED
    BY <2>1, <2>2, <2>3, <2>4, <2>5, <2>6 DEF Next
<1>3. Called => CommandWellFormed
  <2> SUFFICES ASSUME Called PROVE CommandWellFormed
    OBVIOUS
  <2>1. CASE call = NoCall
    <3>1. LaidOut(NoCall) /\ HasRoom(NoCall)
      <4>1. NoCall.args = <<>> /\ NoCall.len = 0 /\ NoCall.payload = 0
        BY DEF NoCall, Command
      <4> QED
        BY <4>1, NoneLaidOut, ShortHasRoom
    <3> QED
      BY <2>1, <3>1 DEF LaidOut, HasRoom, DataCommands, CommandWellFormed, CommandFits, OffsetsReach
  <2>2. CASE call \in Calls /\ ~TooLong(call)
    <3>1. LaidOut(call) /\ HasRoom(call)
      BY <2>2, ApiLaidOut DEF FittingApi
    <3> QED
      BY <3>1 DEF LaidOut, HasRoom, DataCommands, CommandWellFormed, CommandFits, OffsetsReach
  <2> QED
    BY <2>1, <2>2
<1> QED
  BY <1>1, <1>2, <1>3, PTL DEF Spec

\* The condition of WellFormed is all that can be asked for: a call of the API outside it is
\* not refused, and the step that issues it writes over the byte that detects an overrun.
THEOREM OverrunsOutside ==
    ASSUME NEW c \in Api \ FittingApi, NEW s, Issue(c, s)
    PROVE  ~CommandWellFormed'
<1>1. ~HasRoom(c)
  BY DEF FittingApi
<1>2. call' = c
  BY DEF Issue
<1>3. ~HasRoom(call')
  BY <1>1, <1>2
<1> QED
  BY <1>3 DEF HasRoom, DataCommands, CommandWellFormed, CommandFits
=============================================================================
