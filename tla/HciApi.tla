------------------------------- MODULE HciApi -------------------------------
(***************************************************************************)
(* A call of the API: its command, the wait for the event and, for recv and   *)
(* nvmem_read, for the data after it, with events nobody asked for in         *)
(* between. The link below is SpiLink's: one packet in the receive buffer,    *)
(* which holds up the next until it is taken or handled as unsolicited.       *)
(*                                                                         *)
(* An object that an answer is decoded into is a function from its bytes to   *)
(* the event and the byte of it they were taken from.                        *)
(***************************************************************************)
EXTENDS SocketCommands, WlanCommands, FiniteSets

CONSTANTS
    Calls,         \* the commands called
    Unsolicited,   \* opcodes of the events that come unasked for
    Statuses,      \* what the device answers as a status
    EarlyAnswers,  \* events that may come before the wait for them has begun
    DataAfterError \* the device sends data after an error too

ASSUME HciApiAssumption ==
    /\ Statuses \subseteq Int /\ DataAfterError \in BOOLEAN
    /\ Unsolicited \subseteq Nat /\ EarlyAnswers \subseteq Nat

VARIABLES
    pc,               \* where the foreground is
    call,             \* the command called
    usRxEventOpcode,  \* tSLInformation: the event awaited, 0 for none
    usRxDataPending,  \* tSLInformation: data is awaited
    rx,               \* usEventOrDataReceived and the packet it tells of
    paused,           \* SpiPauseSpi: no packet is taken from the device
    object,           \* what the answer is decoded into
    answered,         \* the status in the answer
    result,           \* what the function returned
    wire              \* what the device has still to send for the call

vars == <<pc, call, usRxEventOpcode, usRxDataPending, rx, paused, object, answered, result, wire>>

-----------------------------------------------------------------------------
NoPacket == [kind |-> "none", op |-> 0, status |-> 0]
Event(op, status) == [kind |-> "event", op |-> op, status |-> status]
Data == [kind |-> "data", op |-> 0, status |-> 0]
NoCall == Command(0, 0, <<>>, 0, 0, {}, "void")

ERROR_SOCKET_INACTIVE == -57

\* A byte of the object nobody has written, one that was set to zero, and one that
\* came from byte i of the event.
Untouched == <<0, -1>>
Zero(op) == <<op, -2>>
From(op, i) == <<op, i>>
ObjectSize == 64           \* more than any object: a write past the end shows
Blank == [i \in 0..(ObjectSize - 1) |-> Untouched]

\* Bit b of a number
HasBit(n, b) == (n \div b) % 2 = 1

-----------------------------------------------------------------------------
\* hci_unsol_event_handler

\* Events of the device that the handler knows.
Callbacks == {HCI_EVNT_WLAN_KEEPALIVE, HCI_EVNT_WLAN_UNSOL_CONNECT,
              HCI_EVNT_WLAN_UNSOL_DISCONNECT, HCI_EVNT_WLAN_UNSOL_INIT,
              HCI_EVNT_WLAN_ASYNC_SIMPLE_CONFIG_DONE, HCI_EVNT_WLAN_UNSOL_DHCP,
              HCI_EVNT_WLAN_ASYNC_PING_REPORT, HCI_EVNT_BSD_TCP_CLOSE_WAIT,
              HCI_EVNT_ASYNC_ARP_DONE, HCI_EVNT_ASYNC_ARP_WAITING}
SendEvents == {HCI_EVNT_SEND, HCI_EVNT_SENDTO, HCI_EVNT_WRITE}

\* Of the events a function waits for, only the completion of a send also comes
\* unasked for, when it has failed, or before the wait for it has begun. No event
\* is 0, which is "none awaited".
EventsAwaited == {c.ev : c \in Calls}
ASSUME DeviceAssumption ==
    /\ Unsolicited \cap EventsAwaited \subseteq SendEvents /\ 0 \notin Unsolicited
    /\ EarlyAnswers \cap EventsAwaited \subseteq SendEvents

\* The event is handled here and the buffer released. A known event of the WLAN
\* is, an unknown one is not; the completion of a send only if it has failed; any
\* other event unless it is awaited or asks for patches.
\* Variant: the failure of a send is kept like its completion.
HandledButSends(p) ==
    \/ p.op = HCI_EVNT_DATA_UNSOL_FREE_BUFF
    \/ HasBit(p.op, HCI_EVNT_WLAN_UNSOL_BASE) /\ p.op \in Callbacks
    \/ /\ ~HasBit(p.op, HCI_EVNT_WLAN_UNSOL_BASE) /\ p.op \notin SendEvents
       /\ p.op # usRxEventOpcode /\ p.op # HCI_EVNT_PATCHES_REQ
Handled(p) ==
    \/ p.op = HCI_EVNT_DATA_UNSOL_FREE_BUFF
    \/ HasBit(p.op, HCI_EVNT_WLAN_UNSOL_BASE) /\ p.op \in Callbacks
    \/ p.op \in SendEvents /\ p.status = ERROR_SOCKET_INACTIVE
    \/ /\ ~HasBit(p.op, HCI_EVNT_WLAN_UNSOL_BASE) /\ p.op \notin SendEvents
       /\ p.op # usRxEventOpcode /\ p.op # HCI_EVNT_PATCHES_REQ

\* SpiReceiveHandler: what stays in the receive buffer of a packet just received.
Kept(p) == IF p.kind = "event" /\ Handled(p) THEN NoPacket ELSE p

-----------------------------------------------------------------------------
\* hci_event_handler: the parameters of each event, as the writes it makes into the
\* object, in their order: <<place in the object, bytes, place in the event>>.

ResultInStatus ==
    {HCI_NETAPP_DHCP, HCI_NETAPP_PING_SEND, HCI_NETAPP_PING_STOP, HCI_NETAPP_ARP_FLUSH,
     HCI_NETAPP_SET_DEBUG_LEVEL, HCI_NETAPP_SET_TIMERS, HCI_EVNT_NVMEM_READ,
     HCI_CMND_NVMEM_CREATE_ENTRY, HCI_NETAPP_PING_REPORT, HCI_EVNT_MDNS_ADVERTISE}
ResultInParameters ==
    {HCI_CMND_SETSOCKOPT, HCI_CMND_WLAN_CONNECT, HCI_CMND_WLAN_IOCTL_STATUSGET,
     HCI_CMND_WLAN_IOCTL_ADD_PROFILE, HCI_CMND_WLAN_IOCTL_DEL_PROFILE,
     HCI_CMND_WLAN_IOCTL_SET_CONNECTION_POLICY, HCI_CMND_WLAN_IOCTL_SET_SCANPARAM,
     HCI_CMND_WLAN_IOCTL_SIMPLE_CONFIG_START, HCI_CMND_WLAN_IOCTL_SIMPLE_CONFIG_STOP,
     HCI_CMND_WLAN_IOCTL_SIMPLE_CONFIG_SET_PREFIX, HCI_CMND_EVENT_MASK,
     HCI_CMND_WLAN_DISCONNECT, HCI_CMND_SOCKET, HCI_CMND_BIND, HCI_CMND_LISTEN,
     HCI_CMND_CLOSE_SOCKET, HCI_CMND_CONNECT, HCI_EVNT_NVMEM_WRITE}

ToZero == -2

\* A field that has the same place among the parameters.
Field(at, width) == <<at, width, Param(at)>>

\* A receive is looked at once more for ERROR_SOCKET_INACTIVE, behind the object,
\* which changes nothing of it. The two 16-bit fields of a scan are stored as 32 bits.
Decoded(op) ==
    CASE op \in ResultInStatus     -> << <<0, 1, Status>> >>
      [] op \in ResultInParameters -> <<Field(0, 4)>>
      [] op = HCI_CMND_READ_SP_VERSION -> << <<0, 1, Status>>, <<1, 4, Param(0)>> >>
      [] op = HCI_EVNT_BSD_GETHOSTBYNAME -> <<Field(0, 4), Field(4, 4)>>
      [] op = HCI_EVNT_GETMSSVALUE -> <<Field(0, 2)>>
      [] op = HCI_CMND_ACCEPT -> <<Field(0, 4), Field(4, 4), Field(8, 16)>>
      [] op \in {HCI_CMND_RECV, HCI_CMND_RECVFROM} -> <<Field(0, 4), Field(4, 4), Field(8, 4)>>
      [] op \in {HCI_EVNT_SEND, HCI_EVNT_SENDTO} -> <<Field(0, 4), Field(4, 4)>>
      [] op = HCI_EVNT_SELECT -> <<Field(0, 4), Field(4, 4), Field(8, 4), Field(12, 4)>>
      [] op = HCI_CMND_GETSOCKOPT -> << <<4, 1, Status>>, Field(0, 4)>>
      [] op = HCI_CMND_WLAN_IOCTL_GET_SCAN_RESULTS ->
            <<Field(0, 4), Field(4, 4), Field(8, 2), <<10, 2, ToZero>>, Field(10, 2),
              <<12, 2, ToZero>>, Field(12, 38)>>
      [] op = HCI_NETAPP_IPCONFIG ->
            <<Field(0, 4), Field(4, 4), Field(8, 4), Field(12, 4), Field(16, 4), Field(20, 6),
              Field(26, 32)>>
      [] OTHER -> <<>>

\* The writes over byte i, of which the last stays, and what one puts there.
Over(op, i) == {k \in DOMAIN Decoded(op) : Decoded(op)[k][1] <= i
                                            /\ i < Decoded(op)[k][1] + Decoded(op)[k][2]}
Write(op, w, i) == IF w[3] = ToZero THEN Zero(op) ELSE From(op, w[3] + i - w[1])
Decode(op, obj) ==
    [i \in DOMAIN obj |->
        IF Over(op, i) = {} THEN obj[i] ELSE Write(op, Decoded(op)[Max(Over(op, i))], i)]

-----------------------------------------------------------------------------
\* What a function makes of the status the device answers.

Signed(n, w) == ((n + 2^(w - 1)) % 2^w) - 2^(w - 1)

\* Variant: the byte is returned as it is.
ReturnedByte(fails, status) == status % 256
Returned(fails, status) ==
    CASE fails = "INT8"    -> Signed(status, 8)
      [] fails = "UINT8"   -> status % 256
      [] fails \in {"INT16", "bytes"} -> Signed(status, 16)
      [] fails = "INT32"   -> status
      [] fails = "select"  -> IF status >= 0 THEN Signed(status, 16) ELSE -1
      [] fails = "sockopt" -> IF status >= 0 THEN 0 ELSE Signed(status, 16)
      [] OTHER             -> 0

\* recv waits for data if the answer counts some, nvmem_read in any case.
\* Variants: nvmem_read waits if the answer is no error; recv waits in any case.
WaitsIfSuccess(c, status) == c.data /\ (IF c.fails = "bytes" THEN status > 0 ELSE status = 0)
WaitsAlways(c, status) == c.data
WaitsForData(c, status) == c.data /\ (c.fails = "bytes" => status > 0)

-----------------------------------------------------------------------------
\* The device: what it answers to a command, and what comes unasked for.

AnswerTo(op) ==
    CASE op = HCI_CMND_SEND   -> HCI_EVNT_SEND
      [] op = HCI_CMND_SENDTO -> HCI_EVNT_SENDTO
      [] op = HCI_CMND_NVMEM_WRITE -> HCI_EVNT_NVMEM_WRITE
      [] OTHER -> op
DeviceSendsData(c, status) ==
    c.data /\ (IF c.fails = "bytes" THEN status > 0 ELSE status = 0 \/ DataAfterError)
Answer(c, status) ==
    <<Event(AnswerTo(c.op), status)>>
        \o (IF DeviceSendsData(c, status) THEN <<Data>> ELSE <<>>)

\* SpiReceiveHandler, in the interrupt. The packet takes the place of one that
\* SpiWrite has let in behind; the buffer is released again if it is handled.
Receive(p) ==
    /\ ~paused
    /\ rx' = Kept(p)
    /\ paused' = (rx' # NoPacket)
    /\ UNCHANGED <<pc, call, usRxEventOpcode, usRxDataPending, object, answered, result>>

\* A send completed unasked for has failed: the peer has gone.
DevEvent(op) ==
    /\ Receive(Event(op, IF op \in SendEvents THEN ERROR_SOCKET_INACTIVE ELSE 0))
    /\ UNCHANGED wire

DevAnswer ==
    /\ wire # <<>>
    /\ pc = "sent" => Head(wire).op \in EarlyAnswers
    /\ Receive(Head(wire))
    /\ wire' = Tail(wire)

-----------------------------------------------------------------------------
\* The foreground

\* gethostbyname and mdnsAdvertiser refuse a name that is too long.
\* Variant: only gethostbyname does.
TooLongHost(c) == c.op = HCI_CMND_GETHOSTNAME /\ Last(c.args).size > HOSTNAME_MAX_LENGTH
TooLong(c) ==
    \/ TooLongHost(c)
    \/ /\ c.op = HCI_CMND_MDNS_ADVERTISE
       /\ Last(c.args).size > MDNS_DEVICE_SERVICE_MAX_LENGTH

Refuse(c) ==
    /\ pc = "idle" /\ TooLong(c)
    /\ result' = -1
    /\ UNCHANGED <<pc, call, usRxEventOpcode, usRxDataPending, rx, paused, object, answered, wire>>

\* The arguments and hci_command_send. SpiWrite enables the interrupt, also while a
\* packet is held. A send that is answered with ERROR_SOCKET_INACTIVE does not
\* return: FlowControl.
Issue(c, status) ==
    /\ pc = "idle" /\ ~TooLong(c)
    /\ AnswerTo(c.op) \in SendEvents => status # ERROR_SOCKET_INACTIVE
    /\ pc' = "sent"
    /\ call' = c
    /\ wire' = Answer(c, status)
    /\ paused' = FALSE
    /\ result' = 0
    /\ UNCHANGED <<usRxEventOpcode, usRxDataPending, rx, object, answered>>

\* SimpleLinkWaitEvent, SimpleLinkWaitData. Variant: the opcode of the command.
ArmCommand ==
    /\ pc = "sent"
    /\ pc' = "event"
    /\ usRxEventOpcode' = call.op
    /\ object' = Blank
    /\ UNCHANGED <<call, usRxDataPending, rx, paused, answered, result, wire>>
ArmEvent ==
    /\ pc = "sent"
    /\ pc' = "event"
    /\ usRxEventOpcode' = call.ev
    /\ object' = Blank
    /\ UNCHANGED <<call, usRxDataPending, rx, paused, answered, result, wire>>
ArmData ==
    /\ pc = "answered" /\ WaitsForData(call, answered)
    /\ pc' = "data"
    /\ usRxDataPending' = TRUE
    /\ UNCHANGED <<call, usRxEventOpcode, rx, paused, object, answered, result, wire>>

\* One turn of the loop in hci_event_handler; it ends when nothing is awaited.
Take ==
    /\ pc \in {"event", "data"} /\ rx # NoPacket
    /\ LET event == rx.kind = "event"
           awaited == event /\ rx.op = usRxEventOpcode
       IN /\ object' = IF event /\ ~Handled(rx) THEN Decode(rx.op, object) ELSE object
          /\ usRxEventOpcode' = IF awaited THEN 0 ELSE usRxEventOpcode
          /\ usRxDataPending' = (usRxDataPending /\ event)
          /\ answered' = IF awaited THEN rx.status ELSE answered
    /\ rx' = NoPacket
    /\ paused' = FALSE
    /\ pc' = IF usRxEventOpcode' = 0 /\ ~usRxDataPending'
             THEN IF pc = "event" THEN "answered" ELSE "filled"
             ELSE pc
    /\ UNCHANGED <<call, result, wire>>

Return ==
    /\ pc = "filled" \/ (pc = "answered" /\ ~WaitsForData(call, answered))
    /\ pc' = "idle"
    /\ result' = Returned(call.fails, answered)
    /\ call' = NoCall
    /\ answered' = 0
    /\ object' = <<>>
    /\ UNCHANGED <<usRxEventOpcode, usRxDataPending, rx, paused, wire>>

-----------------------------------------------------------------------------
Init ==
    /\ pc = "idle" /\ call = NoCall
    /\ usRxEventOpcode = 0 /\ usRxDataPending = FALSE
    /\ rx = NoPacket /\ paused = FALSE
    /\ object = <<>> /\ answered = 0 /\ result = 0
    /\ wire = <<>>

Next ==
    \/ \E c \in Calls : Refuse(c)
    \/ \E c \in Calls, s \in Statuses : Issue(c, s)
    \/ ArmEvent \/ ArmData \/ Take \/ Return
    \/ \E op \in Unsolicited : DevEvent(op)
    \/ DevAnswer

Spec == Init /\ [][Next]_vars

\* The processor runs; unsolicited events do not keep an answer back for ever.
FairSpec ==
    Spec /\ WF_vars(ArmEvent \/ ArmData \/ Take \/ Return) /\ SF_vars(DevAnswer)

-----------------------------------------------------------------------------
TypeOK ==
    /\ pc \in {"idle", "sent", "event", "answered", "data", "filled"}
    /\ call \in Calls \cup {NoCall}
    /\ usRxEventOpcode \in {0, call.ev} /\ usRxDataPending \in BOOLEAN
    /\ paused \in BOOLEAN /\ answered \in Statuses \cup {0} /\ result \in Int
    /\ Len(wire) <= 2

\* The length a function announces is what it has written (NETAPP_SET_TIMER_PARAMS_LEN
\* apart, which is one word more), and it fits the transmit buffer in front of the
\* byte that detects an overrun, at which SpiWrite stops for ever.
CommandFits ==
    LET sent == call.len + call.payload
        header == IF call.op \in {HCI_CMND_SEND, HCI_CMND_SENDTO, HCI_CMND_NVMEM_WRITE}
                  THEN HEADERS_SIZE_DATA ELSE HEADERS_SIZE_CMD
    IN /\ call.op # HCI_NETAPP_SET_TIMERS => sent = Width(call.args)
       /\ header + sent < CC3000_TX_BUFFER_SIZE

\* An argument that points to another one reaches it: names, keys, addresses and sets
\* are where the device looks for them, whatever the lengths in front of them.
OffsetsReach ==
    \A i \in DOMAIN call.args :
        LET a == call.args[i]
        IN a.to # 0 => Place(call.args, i) + a.off = Place(call.args, a.to)

\* What the device is told of a command is so.
CommandWellFormed == CommandFits /\ OffsetsReach

\* Nothing is written past the end of the object that the caller of the wait has on
\* its stack, also when other events come before the answer.
DecodeWithin ==
    \A i \in DOMAIN object : i >= call.obj => object[i] = Untouched

\* What a function uses of the answer was taken from there in the answer, and from
\* no other event that came in between.
ResultDecoded ==
    pc = "answered" =>
        \A t \in call.takes : \A i \in 0..(t[2] - 1) :
            object[t[1] + i] = From(call.ev, t[3] + i)

\* The caller's object holds the answer and nothing else, and only the object does.
AnswerDecoded == DecodeWithin /\ ResultDecoded

\* When a function has returned, the device owes it nothing and the receive buffer
\* holds nothing of it that the next call would take for its own.
NothingLeft ==
    pc = "idle" => /\ wire = <<>>
                   /\ rx.kind # "data"
                   /\ rx.kind = "event" => rx.op \in Unsolicited

\* An error of the device is one for the caller of a function that returns the answer.
ErrorReported ==
    [][Return /\ answered < 0 /\ call.fails # "void"
         => IF call.fails = "UINT8" THEN result' # 0 ELSE result' < 0]_vars

\* Every call returns: no unsolicited event, known or not, held when the call is made
\* or coming before its answer, keeps it waiting.
CallReturns == pc # "idle" ~> pc = "idle"
=============================================================================
