---------------------------- MODULE FlowControl ----------------------------
(***************************************************************************)
(* Sending data: the credits of simple_link_send (usNumberOfFreeBuffers),    *)
(* the packet counters behind HCI_EVENT_CC3000_CAN_SHUT_DOWN, the failure    *)
(* kept in slTransmitDataError and the sockets marked in                     *)
(* socket_active_status.                                                     *)
(*                                                                         *)
(* The foreground runs one labelled step at a time. The device's events are  *)
(* handled in the interrupt, between any two steps: usNumberOfFreeBuffers--  *)
(* and the two assignments of set_socket_active_status are a load and a      *)
(* store of a variable wider than the processor's byte. NumberOfSentPackets++ *)
(* is one step: the interrupt only reads that counter, and a half-written    *)
(* value cannot equal NumberOfReleasedPackets.                               *)
(***************************************************************************)
EXTENDS Integers, FiniteSets

CONSTANTS
    Sockets,      \* socket descriptors
    Pool,         \* buffers the device reports for READ_BUFFER_SIZE
    MaxSends,     \* bound: calls of send
    MaxBoots,     \* bound: restarts of the device
    NonBlocking,  \* SEND_NON_BLOCKING is defined
    FailsAtOnce,  \* the device may answer a send with its failure only
    Masked        \* labels at which no interrupt is taken

ASSUME FlowControlAssumption ==
    /\ Pool \in 1..255 /\ MaxSends \in Nat /\ MaxBoots \in Nat
    /\ NonBlocking \in BOOLEAN /\ FailsAtOnce \in BOOLEAN
    /\ "none" \notin Sockets

VARIABLES
    pc, op, sock, result,      \* foreground: label, call, its socket, value returned
    credit, status,            \* the registers of the two read-modify-writes
    usNumberOfFreeBuffers, NumberOfSentPackets, NumberOfReleasedPackets,
    slTransmitDataError,       \* the status byte of the last failed transmission
    usRxEventOpcode,           \* the completion of the send is awaited
    kept,                      \* it is in the receive buffer, which holds up other events
    InformHostOnTxComplete, SpiderCanShutDown,
    inactive,                  \* sockets whose bit is set in socket_active_status
    held, freed,               \* device: buffers in use, freed but not yet reported
    todo, queued,              \* device: send to complete, sockets with data to transmit
    open, alive,               \* device: sockets allocated, with their peer still there
    boots

call    == <<op, sock, result>>
regs    == <<credit, status>>
answer  == <<usRxEventOpcode, kept>>
counter == <<NumberOfSentPackets, NumberOfReleasedPackets>>
report  == <<InformHostOnTxComplete, SpiderCanShutDown>>
buffers == <<held, freed>>
peers   == <<todo, queued, open, alive>>
vars == <<pc, call, regs, usNumberOfFreeBuffers, counter, slTransmitDataError,
          answer, report, inactive, buffers, peers, boots>>

-----------------------------------------------------------------------------
Labels == {"app", "err", "clr", "act", "free", "dec", "dec_w", "count", "xmit", "arm",
           "wait", "set", "set_w"}
Ops == {"none", "send", "socket", "closesocket", "accept"}

\* The status byte of a failed completion; the driver takes 0 for no failure.
StatusBytes == {0, 199}
Sent == 1                  \* the length simple_link_send returns

Goto(l)    == pc' = l /\ UNCHANGED call
Finish(r)  == pc' = "app" /\ op' = "none" /\ sock' = "none" /\ result' = r
Enter(o, s, l) == pc = "app" /\ pc' = l /\ op' = o /\ sock' = s /\ result' = 0

-----------------------------------------------------------------------------
\* simple_link_send and HostFlowControlConsumeBuff

SendCall(s) ==
    /\ NumberOfSentPackets < MaxSends
    /\ Enter("send", s, "err")
    /\ UNCHANGED <<regs, usNumberOfFreeBuffers, counter, slTransmitDataError, answer,
                   report, inactive, buffers, peers, boots>>

\* The last failure is returned, and cleared in the step after.
ConsumeError ==
    /\ pc = "err"
    /\ IF slTransmitDataError # 0
       THEN pc' = "clr" /\ result' = slTransmitDataError /\ UNCHANGED <<op, sock>>
       ELSE Goto("act")
    /\ UNCHANGED <<regs, usNumberOfFreeBuffers, counter, slTransmitDataError, answer,
                   report, inactive, buffers, peers, boots>>

ClearError ==
    /\ pc = "clr"
    /\ slTransmitDataError' = 0
    /\ Finish(result)
    /\ UNCHANGED <<regs, usNumberOfFreeBuffers, counter, answer, report, inactive,
                   buffers, peers, boots>>

CheckActive ==
    /\ pc = "act"
    /\ IF sock \in inactive THEN Finish(-1) ELSE Goto("free")
    /\ UNCHANGED <<regs, usNumberOfFreeBuffers, counter, slTransmitDataError, answer,
                   report, inactive, buffers, peers, boots>>

CheckFree ==
    /\ pc = "free"
    /\ \/ usNumberOfFreeBuffers # 0 /\ Goto("dec")
       \/ usNumberOfFreeBuffers = 0 /\ NonBlocking /\ Finish(-2)
       \/ usNumberOfFreeBuffers = 0 /\ ~NonBlocking /\ Goto("err")
    /\ UNCHANGED <<regs, usNumberOfFreeBuffers, counter, slTransmitDataError, answer,
                   report, inactive, buffers, peers, boots>>

TakeLoad ==
    /\ pc = "dec"
    /\ credit' = usNumberOfFreeBuffers
    /\ Goto("dec_w")
    /\ UNCHANGED <<status, usNumberOfFreeBuffers, counter, slTransmitDataError,
                   answer, report, inactive, buffers, peers, boots>>

\* Variants: the buffer is not taken; it is taken twice.
TakeNothing == credit
TakeTwice   == credit - 2
Taken       == (credit - 1) % 65536

TakeStore ==
    /\ pc = "dec_w"
    /\ usNumberOfFreeBuffers' = Taken /\ credit' = 0
    /\ Goto("count")
    /\ UNCHANGED <<status, counter, slTransmitDataError, answer, report, inactive,
                   buffers, peers, boots>>

Count == NumberOfSentPackets' = NumberOfSentPackets + 1

CountSent ==
    /\ pc = "count"
    /\ Count
    /\ Goto("xmit")
    /\ UNCHANGED <<regs, usNumberOfFreeBuffers, NumberOfReleasedPackets, slTransmitDataError,
                   answer, report, inactive, buffers, peers, boots>>

\* hci_data_send: the packet is in a buffer of the device.
Transmit ==
    /\ pc = "xmit"
    /\ held' = held + 1 /\ todo' = sock /\ queued' = queued \cup {sock}
    /\ Goto("arm")
    /\ UNCHANGED <<regs, usNumberOfFreeBuffers, counter, slTransmitDataError, answer,
                   report, inactive, freed, open, alive, boots>>

Arm ==
    /\ pc = "arm"
    /\ usRxEventOpcode' = TRUE
    /\ Goto("wait")
    /\ UNCHANGED <<kept, regs, usNumberOfFreeBuffers, counter, slTransmitDataError, report, inactive,
                   buffers, peers, boots>>

\* hci_event_handler takes the completion out of the receive buffer.
Complete == usRxEventOpcode' = FALSE

TakeCompletion ==
    /\ pc = "wait" /\ kept
    /\ kept' = FALSE
    /\ Complete
    /\ UNCHANGED <<pc, call, regs, usNumberOfFreeBuffers, counter, slTransmitDataError, report,
                   inactive, buffers, peers, boots>>

\* Whatever the completion says, the length is returned.
SendReturn ==
    /\ pc = "wait" /\ ~usRxEventOpcode
    /\ Finish(Sent)
    /\ UNCHANGED <<regs, usNumberOfFreeBuffers, counter, slTransmitDataError, answer,
                   report, inactive, buffers, peers, boots>>

Send == (\E s \in Sockets : SendCall(s)) \/ ConsumeError \/ ClearError \/ CheckActive
        \/ CheckFree \/ TakeLoad \/ TakeStore \/ CountSent \/ Transmit \/ Arm
        \/ TakeCompletion \/ SendReturn

-----------------------------------------------------------------------------
\* socket, closesocket and accept, after the answer of the device. It has allocated a
\* descriptor, for socket or for an accept with a connection, which is marked active;
\* or freed one, or not: an accept without a connection and a closesocket that the
\* device refuses mark it inactive and leave it open there.

Socket(s) ==
    /\ s \notin open
    /\ Enter("socket", s, "set")
    /\ open' = open \cup {s} /\ alive' = alive \cup {s} /\ queued' = queued \ {s}
    /\ UNCHANGED <<regs, usNumberOfFreeBuffers, counter, slTransmitDataError, answer,
                   report, inactive, buffers, todo, boots>>

CloseSocket(s) ==
    /\ s \in open
    /\ Enter("closesocket", s, "set")
    /\ open' = open \ {s} /\ alive' = alive \ {s} /\ queued' = queued \ {s}
    /\ UNCHANGED <<regs, usNumberOfFreeBuffers, counter, slTransmitDataError, answer,
                   report, inactive, buffers, todo, boots>>

NotDone(s) ==
    /\ s \in open
    /\ Enter("accept", s, "set")
    /\ UNCHANGED <<regs, usNumberOfFreeBuffers, counter, slTransmitDataError, answer,
                   report, inactive, buffers, peers, boots>>

\* set_socket_active_status
SetLoad ==
    /\ pc = "set"
    /\ status' = inactive
    /\ Goto("set_w")
    /\ UNCHANGED <<credit, usNumberOfFreeBuffers, counter, slTransmitDataError,
                   answer, report, inactive, buffers, peers, boots>>

\* Variant: the bits of the other sockets are lost.
StatusSwapped == IF op = "socket" THEN Sockets \ {sock} ELSE {sock}
StatusSet     == IF op = "socket" THEN status \ {sock} ELSE status \cup {sock}

SetStore ==
    /\ pc = "set_w"
    /\ inactive' = StatusSet /\ status' = {}
    /\ Finish(0)
    /\ UNCHANGED <<credit, usNumberOfFreeBuffers, counter, slTransmitDataError, answer,
                   report, buffers, peers, boots>>

\* wlan_set_event_mask with or without HCI_EVNT_WLAN_TX_COMPLETE
SetEventMask ==
    /\ pc = "app"
    /\ InformHostOnTxComplete' = ~InformHostOnTxComplete
    /\ UNCHANGED <<pc, call, regs, usNumberOfFreeBuffers, counter, slTransmitDataError,
                   answer, SpiderCanShutDown, inactive, buffers, peers, boots>>

\* Spider_close, Spider_begin: the device loses everything, wlan_start resets
\* the counters and asks for the buffers; socket_active_status is left as it is.
Restart ==
    /\ pc = "app" /\ boots < MaxBoots
    /\ boots' = boots + 1
    /\ usNumberOfFreeBuffers' = Pool
    /\ NumberOfSentPackets' = 0 /\ NumberOfReleasedPackets' = 0
    /\ slTransmitDataError' = 0 /\ usRxEventOpcode' = FALSE /\ kept' = FALSE
    /\ InformHostOnTxComplete' = TRUE /\ SpiderCanShutDown' = FALSE
    /\ held' = 0 /\ freed' = 0
    /\ todo' = "none" /\ queued' = {} /\ open' = {} /\ alive' = {}
    /\ UNCHANGED <<pc, call, regs, inactive>>

Foreground ==
    \/ Send
    \/ \E s \in Sockets : Socket(s) \/ CloseSocket(s) \/ NotDone(s)
    \/ SetLoad \/ SetStore \/ SetEventMask \/ Restart

-----------------------------------------------------------------------------
\* hci_unsol_event_handler in the interrupt: a kept event holds up the next.

Irq == pc \notin Masked /\ ~kept

\* Variant: only the credits are counted.
ReleaseNothing(n) == UNCHANGED NumberOfReleasedPackets
Release(n)        == NumberOfReleasedPackets' = NumberOfReleasedPackets + n

\* Variant: the counters are not compared.
AlwaysComplete == TRUE
TxComplete     == NumberOfReleasedPackets' = NumberOfSentPackets

\* HCI_EVNT_DATA_UNSOL_FREE_BUFF for n buffers
FreeBuff(n) ==
    /\ Irq
    /\ freed' = freed - n
    /\ usNumberOfFreeBuffers' = (usNumberOfFreeBuffers + n) % 65536
    /\ Release(n)
    /\ IF TxComplete /\ InformHostOnTxComplete
       THEN SpiderCanShutDown' = TRUE ELSE UNCHANGED SpiderCanShutDown
    /\ UNCHANGED <<pc, call, regs, NumberOfSentPackets, slTransmitDataError, answer,
                   InformHostOnTxComplete, inactive, held, peers, boots>>

\* HCI_EVNT_SEND: the one event that is kept whether it is awaited or not.
\* Variant: it is dropped like any other answer nobody waits for.
KeepAwaited == kept' = usRxEventOpcode
Keep        == kept' = TRUE

SendOk ==
    /\ Irq
    /\ todo # "none"
    /\ todo' = "none"
    /\ Keep
    /\ UNCHANGED <<pc, call, regs, usNumberOfFreeBuffers, counter, slTransmitDataError,
                   usRxEventOpcode, report, inactive, buffers, queued, open, alive, boots>>

\* HCI_EVNT_SEND with ERROR_SOCKET_INACTIVE: taken for unsolicited, also when
\* it is the one the foreground waits for.
SendFail(s) ==
    /\ Irq
    /\ s \in queued \ alive
    /\ \/ todo = s /\ FailsAtOnce /\ todo' = "none"
       \/ todo # s /\ UNCHANGED todo
    /\ slTransmitDataError' \in StatusBytes
    /\ inactive' = inactive \cup {s}
    /\ queued' = queued \ {s}
    /\ UNCHANGED <<pc, call, regs, usNumberOfFreeBuffers, counter, answer, report,
                   buffers, open, alive, boots>>

\* The device transmits a packet, or gives it up, and frees its buffer.
DevFree ==
    /\ held > 0
    /\ held' = held - 1 /\ freed' = freed + 1
    /\ UNCHANGED <<pc, call, regs, usNumberOfFreeBuffers, counter, slTransmitDataError,
                   answer, report, inactive, peers, boots>>

DevPeerGone(s) ==
    /\ s \in alive
    /\ alive' = alive \ {s}
    /\ UNCHANGED <<pc, call, regs, usNumberOfFreeBuffers, counter, slTransmitDataError,
                   answer, report, inactive, buffers, todo, queued, open, boots>>

FreeSome == \E n \in 1..freed : FreeBuff(n)

Device ==
    \/ FreeSome \/ SendOk \/ DevFree
    \/ \E s \in Sockets : SendFail(s) \/ DevPeerGone(s)

-----------------------------------------------------------------------------
Init ==
    /\ pc = "app" /\ op = "none" /\ sock = "none" /\ result = 0
    /\ credit = 0 /\ status = {}
    /\ usNumberOfFreeBuffers = Pool
    /\ NumberOfSentPackets = 0 /\ NumberOfReleasedPackets = 0
    /\ slTransmitDataError = 0 /\ usRxEventOpcode = FALSE /\ kept = FALSE
    /\ InformHostOnTxComplete = TRUE /\ SpiderCanShutDown = FALSE
    /\ inactive = Sockets
    /\ held = 0 /\ freed = 0
    /\ todo = "none" /\ queued = {} /\ open = {} /\ alive = {}
    /\ boots = 0

Next == Foreground \/ Device

Spec == Init /\ [][Next]_vars

\* The processor finishes a call it has begun; the device completes every send
\* and reports every buffer. Strong fairness, as an interrupt that comes at a
\* masked label stays pending until the next one. No peer has to leave.
Fairness ==
    /\ WF_vars(Foreground /\ pc # "app")
    /\ SF_vars(FreeSome) /\ SF_vars(SendOk) /\ WF_vars(DevFree)

FairSpec == Spec /\ Fairness

-----------------------------------------------------------------------------
\* Labels, calls and sockets; a call under way is about a socket.
PlaceTypes ==
    /\ pc \in Labels /\ op \in Ops /\ sock \in Sockets \cup {"none"}
    /\ pc # "app" => sock \in Sockets
    /\ status \subseteq Sockets /\ inactive \subseteq Sockets
    /\ todo \in Sockets \cup {"none"} /\ queued \subseteq Sockets
    /\ open \subseteq Sockets /\ alive \subseteq open

NumberTypes ==
    /\ credit \in Nat /\ usNumberOfFreeBuffers \in Nat
    /\ NumberOfSentPackets \in Nat /\ NumberOfReleasedPackets \in Nat
    /\ held \in Nat /\ freed \in Nat /\ boots \in Nat
    /\ slTransmitDataError \in StatusBytes
    /\ result \in StatusBytes \cup {Sent, -1, -2}

FlagTypes ==
    /\ usRxEventOpcode \in BOOLEAN /\ kept \in BOOLEAN
    /\ InformHostOnTxComplete \in BOOLEAN /\ SpiderCanShutDown \in BOOLEAN

\* The types of the variables of the send path.
TypeOK == PlaceTypes /\ NumberTypes /\ FlagTypes

\* Buffers taken by a send that has not reached the device yet.
InFlight == IF pc \in {"count", "xmit"} THEN 1 ELSE 0

\* The device is never sent more packets than it has buffers, whatever the
\* interrupt does between the load and the store of usNumberOfFreeBuffers--.
NoOverrun == usNumberOfFreeBuffers + InFlight + held + freed <= Pool

\* usNumberOfFreeBuffers keeps track of every buffer of the device: none is
\* lost between usNumberOfFreeBuffers-- in HostFlowControlConsumeBuff and
\* usNumberOfFreeBuffers += in hci_event_unsol_flowcontrol_handler.
BuffersConserved == usNumberOfFreeBuffers + InFlight + held + freed = Pool

\* HCI_EVENT_CC3000_CAN_SHUT_DOWN is reported only when the device holds no
\* packet and none is on its way.
ShutDownWhenIdle ==
    [][~SpiderCanShutDown /\ SpiderCanShutDown' =>
        held' = 0 /\ freed' = 0 /\ pc # "xmit"]_vars

\* A socket the device has given up stays inactive until socket returns it
\* again: no other update of socket_active_status loses its bit.
InactiveKept ==
    [][\A s \in inactive \ inactive' : pc = "set_w" /\ op = "socket" /\ s = sock]_vars

\* send always returns: it waits neither for a buffer nor for a completion
\* that does not come.
SendReturns == pc = "err" ~> pc = "app"

\* Once the device has transmitted everything the application is told so.
ShutDownReported ==
    held > 0 /\ InformHostOnTxComplete
        ~> SpiderCanShutDown \/ ~InformHostOnTxComplete \/ NumberOfSentPackets = 0

-----------------------------------------------------------------------------
\* Inductive invariants.

\* The credit loaded is one the counter still has: the interrupt only adds.
CreditInv ==
    /\ NoOverrun
    /\ pc = "dec" => usNumberOfFreeBuffers > 0
    /\ pc = "dec_w" => credit \in 1..usNumberOfFreeBuffers

\* Without an interrupt inside the decrement it is all of them.
ExactInv == BuffersConserved /\ (pc = "dec_w" => credit = usNumberOfFreeBuffers)

\* A packet counted as sent and not as released is with the device, on its
\* way to it, or freed there and not reported yet.
CountInv ==
    NumberOfSentPackets = NumberOfReleasedPackets + held + freed
                          + (IF pc = "xmit" THEN 1 ELSE 0)

\* Without an interrupt inside set_socket_active_status its copy is the mask.
MarkInv == pc = "set_w" => status = inactive
=============================================================================
