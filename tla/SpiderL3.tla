------------------------------ MODULE SpiderL3 ------------------------------
(***************************************************************************)
(* Spider_L3.c: the life of the connection. The foreground runs the functions *)
(* a sketch calls; Spider_AsyncCallback sets the flags in the interrupt       *)
(* between any two of its steps. A command is one step here (HciApi): its     *)
(* answer comes behind every event the device has reported before it.         *)
(*                                                                         *)
(* StopSmartConfig and SpiderCanShutDown are set and cleared beside the flags  *)
(* here and read by nobody.                                                  *)
(***************************************************************************)
EXTENDS Naturals, Sequences

CONSTANTS
    MaxEvents,      \* bound: events the device has not delivered yet
    ConnectsUnasked \* the device takes up the auto connect policy before the restart,
                    \* and goes on with a connection it was told to leave

ASSUME SpiderL3Assumption == MaxEvents \in Nat \ {0} /\ ConnectsUnasked \in BOOLEAN

VARIABLES
    pc, ret,             \* the function that runs, and what the last one returned
    HW_Initialed, SmartConfigFinished, SpiderConnected, SpiderDHCP,
    running,             \* the device: powered and started
    station,             \* what it is connected to
    joining, leaving,    \* it is about to connect, to disconnect
    auto, profile,       \* its connection policy, and whether it has a profile
    config,              \* it listens for the phone
    events,              \* not yet delivered
    configured           \* history: the phone was heard since SmartConfig was called

flags == <<SmartConfigFinished, SpiderConnected, SpiderDHCP>>
device == <<running, station, joining, leaving, auto, profile, config, events, configured>>
vars == <<pc, ret, HW_Initialed, flags, device>>

-----------------------------------------------------------------------------
\* Variant: a disconnect leaves the address.
CallbackKeepsDHCP(event) ==
    /\ SpiderConnected' = (event = "CONNECT" \/ (SpiderConnected /\ event # "DISCONNECT"))
    /\ SpiderDHCP' = (event = "DHCP" \/ SpiderDHCP)
    /\ SmartConfigFinished' = (event = "SIMPLE_CONFIG_DONE" \/ SmartConfigFinished)

\* Spider_AsyncCallback
Callback(event) ==
    /\ SpiderConnected' = (event = "CONNECT" \/ (SpiderConnected /\ event # "DISCONNECT"))
    /\ SpiderDHCP' = (event = "DHCP" \/ (SpiderDHCP /\ event # "DISCONNECT"))
    /\ SmartConfigFinished' = (event = "SIMPLE_CONFIG_DONE" \/ SmartConfigFinished)

Deliver ==
    /\ running /\ events # <<>>
    /\ Callback(Head(events))
    /\ events' = Tail(events)
    /\ UNCHANGED <<pc, ret, HW_Initialed, running, station, joining, leaving, auto, profile,
                   config, configured>>

-----------------------------------------------------------------------------
\* The device on its own.

Report(event) == Len(events) < MaxEvents /\ events' = Append(events, event)

Associate ==
    /\ running /\ joining /\ ~leaving /\ ~config /\ station = "down"
    /\ station' = "associated" /\ joining' = FALSE
    /\ Report("CONNECT")
    /\ UNCHANGED <<pc, ret, HW_Initialed, flags, running, leaving, auto, profile, config,
                   configured>>

Lease ==
    /\ running /\ station = "associated"
    /\ station' = "addressed"
    /\ Report("DHCP")
    /\ UNCHANGED <<pc, ret, HW_Initialed, flags, running, joining, leaving, auto, profile,
                   config, configured>>

\* The access point goes, or the device was told to leave. With the auto connect
\* policy it tries again after the former.
Drop ==
    /\ running /\ station # "down"
    /\ station' = "down" /\ leaving' = FALSE
    /\ joining' = (joining \/ (auto /\ profile /\ (~leaving \/ ConnectsUnasked)))
    /\ Report("DISCONNECT")
    /\ UNCHANGED <<pc, ret, HW_Initialed, flags, running, auto, profile, config, configured>>

Phone ==
    /\ running /\ config
    /\ config' = FALSE /\ profile' = TRUE /\ configured' = TRUE
    /\ Report("SIMPLE_CONFIG_DONE")
    /\ UNCHANGED <<pc, ret, HW_Initialed, flags, running, station, joining, leaving, auto>>

\* The pin WLAN_EN low: whatever was not delivered is lost.
PowerOff ==
    /\ running' = FALSE /\ station' = "down" /\ events' = <<>>
    /\ joining' = FALSE /\ leaving' = FALSE /\ config' = FALSE
    /\ UNCHANGED <<auto, profile, configured>>

\* wlan_start
PowerOn ==
    /\ running' = TRUE /\ joining' = (auto /\ profile)
    /\ UNCHANGED <<station, leaving, auto, profile, config, events, configured>>

-----------------------------------------------------------------------------
\* The foreground

Goto(l) == pc' = l /\ UNCHANGED ret
Done(n) == pc' = "idle" /\ ret' = n
\* The answer to a command, behind the events reported before it.
AtCommand(l) == pc = l /\ running /\ events = <<>>

\* One store each; no two events fit between them, and one comes before or after.
\* Variant: SmartConfigFinished keeps what an earlier call has left.
ClearLess == SpiderConnected' = FALSE /\ SpiderDHCP' = FALSE /\ UNCHANGED SmartConfigFinished
ClearFlags == SpiderConnected' = FALSE /\ SpiderDHCP' = FALSE /\ SmartConfigFinished' = FALSE

Begin ==
    /\ pc = "idle" /\ ~running
    /\ HW_Initialed' = FALSE
    /\ ClearFlags
    /\ PowerOn
    /\ Goto("be_mask")
BeginMask ==
    /\ AtCommand("be_mask")
    /\ HW_Initialed' = TRUE
    /\ Done(0)
    /\ UNCHANGED <<flags, device>>

\* Nothing is delivered once the pin is low.
Close ==
    /\ pc = "idle"
    /\ PowerOff
    /\ HW_Initialed' = FALSE
    /\ ClearFlags
    /\ Done(0)

Enter(l) ==
    /\ pc = "idle"
    /\ IF HW_Initialed THEN Goto(l) ELSE Done(1)    \* -1
    /\ UNCHANGED <<HW_Initialed, flags, device>>
Connect == Enter("co_policy")
AutoConnect == Enter("au_wait")
Disconnect == Enter("di_cmd")

ConnectPolicy ==
    /\ AtCommand("co_policy")
    /\ auto' = FALSE
    /\ Goto("co_cmd")
    /\ UNCHANGED <<HW_Initialed, flags, running, station, joining, leaving, profile, config,
                   events, configured>>
ConnectCommand(ok) ==
    /\ AtCommand("co_cmd")
    /\ joining' = (joining \/ (ok /\ station = "down"))
    /\ Done(IF ok THEN 0 ELSE 2)                 \* -2
    /\ UNCHANGED <<HW_Initialed, flags, running, station, leaving, auto, profile, config,
                   events, configured>>

AutoWait ==
    /\ pc = "au_wait" /\ ~SpiderConnected
    /\ Goto("au_policy")
    /\ UNCHANGED <<HW_Initialed, flags, device>>
TakesUp == ConnectsUnasked /\ profile /\ station = "down"
AutoPolicy(ok) ==
    /\ AtCommand("au_policy")
    /\ auto' = (auto \/ ok)
    /\ joining' = (joining \/ (ok /\ TakesUp))
    /\ Done(IF ok THEN 0 ELSE 2)
    /\ UNCHANGED <<HW_Initialed, flags, running, station, leaving, profile, config, events,
                   configured>>

\* Variant: the wait begins whatever wlan_disconnect returns.
DisconnectAnyway(ok) ==
    /\ AtCommand("di_cmd")
    /\ leaving' = (leaving \/ (ok /\ station # "down"))
    /\ joining' = (joining /\ (~ok \/ ConnectsUnasked))
    /\ Goto("di_wait")
    /\ UNCHANGED <<HW_Initialed, flags, running, station, auto, profile, config, events,
                   configured>>
DisconnectCommand(ok) ==
    /\ AtCommand("di_cmd")
    /\ leaving' = (leaving \/ (ok /\ station # "down"))
    /\ joining' = (joining /\ (~ok \/ ConnectsUnasked))
    /\ IF ok THEN Goto("di_wait") ELSE Done(2)
    /\ UNCHANGED <<HW_Initialed, flags, running, station, auto, profile, config, events,
                   configured>>
DisconnectWait ==
    /\ pc = "di_wait" /\ ~(SpiderDHCP /\ SpiderConnected)
    /\ Goto("di_clr")
    /\ UNCHANGED <<HW_Initialed, flags, device>>
DisconnectClear ==
    /\ pc = "di_clr"
    /\ ClearFlags
    /\ Done(0)
    /\ UNCHANGED <<HW_Initialed, device>>

-----------------------------------------------------------------------------
\* Spider_SmartConfig looks at no HW_Initialed: the sketch calls it after Spider_begin.
SmartConfig ==
    /\ pc = "idle" /\ HW_Initialed
    /\ ClearFlags
    /\ configured' = FALSE
    /\ Goto("sc_policy")
    /\ UNCHANGED <<HW_Initialed, running, station, joining, leaving, auto, profile, config,
                   events>>
ConfigPolicy ==
    /\ AtCommand("sc_policy")
    /\ auto' = FALSE
    /\ Goto("sc_del")
    /\ UNCHANGED <<HW_Initialed, flags, running, station, joining, leaving, profile, config,
                   events, configured>>

\* Without a profile the device leaves; its status is not looked at.
ConfigDelProfile ==
    /\ AtCommand("sc_del")
    /\ profile' = FALSE /\ joining' = FALSE
    /\ leaving' = (station # "down")
    /\ Goto("sc_wait")
    /\ UNCHANGED <<HW_Initialed, flags, running, station, auto, config, events, configured>>

\* The loop's hci_unsolicited_event_handler finds nothing the interrupt has left.
ConfigWait ==
    /\ pc = "sc_wait" /\ ~SpiderConnected
    /\ Goto("sc_key")
    /\ UNCHANGED <<HW_Initialed, flags, device>>

\* nvmem_create_entry, aes_write_key and wlan_smart_config_set_prefix
ConfigKey ==
    /\ AtCommand("sc_key")
    /\ Goto("sc_start")
    /\ UNCHANGED <<HW_Initialed, flags, device>>

\* Listening for the phone ends a connection.
ConfigStart(ok) ==
    /\ AtCommand("sc_start")
    /\ IF ok
       THEN /\ config' = TRUE /\ station' = "down" /\ leaving' = FALSE
            /\ events' = IF station = "down" THEN <<>> ELSE <<"DISCONNECT">>
            /\ Goto("sc_finish")
       ELSE Done(1) /\ UNCHANGED <<config, station, leaving, events>>
    /\ UNCHANGED <<HW_Initialed, flags, running, joining, auto, profile, configured>>
ConfigFinish ==
    /\ pc = "sc_finish" /\ SmartConfigFinished
    /\ Goto("sc_auto")
    /\ UNCHANGED <<HW_Initialed, flags, device>>
ConfigAuto ==
    /\ AtCommand("sc_auto")
    /\ auto' = TRUE /\ joining' = TakesUp
    /\ Goto("sc_stop")
    /\ UNCHANGED <<HW_Initialed, flags, running, station, leaving, profile, config, events,
                   configured>>
ConfigStop ==
    /\ pc = "sc_stop"
    /\ PowerOff
    /\ Goto("sc_restart")
    /\ UNCHANGED <<HW_Initialed, flags>>
ConfigRestart ==
    /\ pc = "sc_restart"
    /\ PowerOn
    /\ Goto("sc_mask")
    /\ UNCHANGED <<HW_Initialed, flags>>
ConfigMask ==
    /\ AtCommand("sc_mask")
    /\ Done(0)
    /\ UNCHANGED <<HW_Initialed, flags, device>>

\* Spider_SmartConfig_AckFinish: mdnsAdvertiser three times, until it fails.
AckFinish ==
    /\ pc = "idle" /\ HW_Initialed
    /\ Goto("ack1")
    /\ UNCHANGED <<HW_Initialed, flags, device>>
Ack(ok) ==
    /\ \E i \in 1..3 :
         /\ AtCommand(<<"ack1", "ack2", "ack3">>[i])
         /\ IF ~ok THEN Done(1)
            ELSE IF i = 3 THEN Done(0) ELSE Goto(<<"ack2", "ack3">>[i])
    /\ UNCHANGED <<HW_Initialed, flags, device>>

-----------------------------------------------------------------------------
Init ==
    /\ pc = "idle" /\ ret = 0 /\ HW_Initialed = FALSE
    /\ SmartConfigFinished = FALSE /\ SpiderConnected = FALSE /\ SpiderDHCP = FALSE
    /\ running = FALSE /\ station = "down" /\ joining = FALSE /\ leaving = FALSE
    /\ auto \in BOOLEAN /\ profile \in BOOLEAN    \* kept by the device when it is off
    /\ config = FALSE /\ events = <<>> /\ configured = FALSE

Call == Begin \/ Close \/ Connect \/ AutoConnect \/ Disconnect \/ SmartConfig \/ AckFinish
Step ==
    \/ BeginMask
    \/ ConnectPolicy \/ \E ok \in BOOLEAN : ConnectCommand(ok)
    \/ AutoWait \/ \E ok \in BOOLEAN : AutoPolicy(ok)
    \/ \E ok \in BOOLEAN : DisconnectCommand(ok)
    \/ DisconnectWait \/ DisconnectClear
    \/ ConfigPolicy \/ ConfigDelProfile \/ ConfigWait \/ ConfigKey
    \/ \E ok \in BOOLEAN : ConfigStart(ok)
    \/ ConfigFinish \/ ConfigAuto \/ ConfigStop \/ ConfigRestart \/ ConfigMask
    \/ \E ok \in BOOLEAN : Ack(ok)

Next == Call \/ Step \/ Deliver \/ Associate \/ Lease \/ Drop \/ Phone
Spec == Init /\ [][Next]_vars

\* The processor runs and the interrupt is taken; a command is answered however many
\* events come before; the device leaves when it is told to; the phone is held to it.
FairSpec ==
    /\ Spec
    /\ SF_vars(Step) /\ WF_vars(Deliver) /\ WF_vars(leaving /\ Drop) /\ SF_vars(Phone)

-----------------------------------------------------------------------------
Commands ==
    {"be_mask", "co_policy", "co_cmd", "au_policy", "di_cmd", "sc_policy", "sc_del", "sc_key",
     "sc_start", "sc_auto", "sc_mask", "ack1", "ack2", "ack3"}
Labels ==
    Commands \cup {"idle", "au_wait", "di_wait", "di_clr", "sc_wait", "sc_finish",
                   "sc_stop", "sc_restart"}
PlaceTypes == pc \in Labels /\ ret \in 0..2
FlagTypes ==
    /\ HW_Initialed \in BOOLEAN /\ SmartConfigFinished \in BOOLEAN
    /\ SpiderConnected \in BOOLEAN /\ SpiderDHCP \in BOOLEAN
DeviceTypes ==
    /\ running \in BOOLEAN /\ joining \in BOOLEAN /\ leaving \in BOOLEAN /\ auto \in BOOLEAN
    /\ profile \in BOOLEAN /\ config \in BOOLEAN /\ configured \in BOOLEAN
    /\ station \in {"down", "associated", "addressed"}
Kinds == {"CONNECT", "DHCP", "DISCONNECT", "SIMPLE_CONFIG_DONE"}
QueueTypes == events \in Seq(Kinds) /\ Len(events) <= MaxEvents
TypeOK == PlaceTypes /\ FlagTypes /\ DeviceTypes /\ QueueTypes

\* No function waits for the answer of a device that is not powered: nothing would
\* ever end that wait.
CommandsReachDevice == pc \in Commands => running

\* Between calls, when every event was delivered and the device is not about to
\* leave, the flags that Spider_CheckConnected and Spider_CheckDHCP return tell the
\* truth: no clearing of them has lost an event, none has survived its connection.
FlagsTrue ==
    pc = "idle" /\ running /\ events = <<>> /\ ~leaving =>
        /\ SpiderConnected = (station # "down")
        /\ SpiderDHCP = (station = "addressed")

\* Spider_SmartConfig goes on because the phone was heard during this call, not
\* because of what an earlier one, or its flag, has left behind.
FinishedFresh == [][ConfigFinish => configured]_vars

\* Every function returns unless the device reports events without a pause for ever;
\* Spider_AutoConnect apart, which waits for the end of a connection that nobody has
\* asked to end.
CallsReturn ==
    []<>(events = <<>>) => (pc \notin {"idle", "au_wait"} ~> pc = "idle")

\* What the sketch is told moves as a connection does: see Connection.
View == IF ~SpiderConnected THEN "down" ELSE IF SpiderDHCP THEN "addressed" ELSE "associated"
Shown == INSTANCE Connection WITH link <- View
ViewFollows == Shown!Spec
=============================================================================
