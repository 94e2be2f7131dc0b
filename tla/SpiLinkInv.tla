----------------------------- MODULE SpiLinkInv -----------------------------
(***************************************************************************)
(* The inductive invariants of SpiLink: where each value of the driver's     *)
(* state, of CS and of the status byte can be met, in terms of the label of  *)
(* the foreground and of the labels on its stack; then where each state of   *)
(* the device, its queue and the call under way can be met (SafeInv).        *)
(***************************************************************************)
EXTENDS SpiLink

\* The labels at which no function of the driver is under way.
TopLabels == {"off", "stopped", "app", "ws", "ws_pin", "ws_high", "ws_low",
              "arm", "arm_d", "wt", "wt_parse", "wt_res", "wt_exit"}
EnLabels  == {"en", "en_w", "en_missed", "en_pin", "en_clr", "en_clr_w"}
IrqLabels == {"irq", "irq_miss", "irq_miss_w", "irq_proc", "irq_proc_w", "irq_disp",
              "irq_read", "irq_desel", "irq_idle", "irq_rx", "irq_write", "irq_wdesel",
              "irq_done", "irq_done_w"}
SwLabels  == {"sw", "sw_first", "sw_idle", "sw_cs", "sw_chk", "sw_xfer", "sw_desel", "sw_wait"}

\* The return labels a function may have been called from.
Below(l) ==
    CASE l \in TopLabels        -> {}
      [] l \in EnLabels         -> {"ws_pin", "sw_chk", "wt_res", "irq_done"}
      [] l \in IrqLabels        -> {"en_clr"}
      [] l \in SwLabels         -> {"arm", "wt_exit"}
      [] l \in {"dis", "dis_w"} -> {"sw_idle", "irq_desel", "stopped", "off"}
      [] OTHER                  -> {"stopped", "off"}

\* Every label on the stack was called from the one under it, down to a
\* label of the application.
StackOK ==
    /\ ret = <<>> <=> pc \in TopLabels
    /\ ret # <<>> => ret[1] \in Below(pc) /\ ret[Len(ret)] \in TopLabels
    /\ \A i \in 1..(Len(ret) - 1) : ret[i + 1] \in Below(ret[i])

OnStack(l) == \E i \in 1..Len(ret) : ret[i] = l

\* WLAN_IRQ_Handler has set PROCESS and not cleared it yet.
InHandler ==
    \/ pc \in {"irq_disp", "irq_read", "irq_desel", "irq_idle", "irq_rx", "irq_write",
               "irq_wdesel", "irq_done", "irq_done_w"}
    \/ OnStack("irq_done") \/ OnStack("irq_desel")

\* A write waits for its interrupt only inside SpiWrite; a read is under way
\* only inside WLAN_IRQ_Handler; the start-up states end with the first write.
StateRegion ==
    /\ ulSpiState = "WRITE_IRQ" =>
           pc \in {"sw_cs", "sw_chk", "sw_xfer", "sw_wait"} \/ OnStack("sw_chk")
    /\ ulSpiState = "READ_IRQ" <=> pc = "irq_read"
    /\ ulSpiState = "READ_EOT" <=>
           \/ pc \in {"irq_desel", "irq_idle"}
           \/ pc \in {"dis", "dis_w"} /\ ret[1] = "irq_desel"
    /\ ulSpiState \in {"POWERUP", "INITIALIZED"} =>
           \/ pc \in {"off", "ws", "ws_pin", "ws_high", "ws_low", "sw_first"}
           \/ pc = "sw" /\ ret[1] = "arm"
           \/ OnStack("ws_pin")

CsRegion ==
    cs => \/ ulSpiState = "WRITE_IRQ" /\ pc # "sw_cs"
          \/ pc \in {"irq_read", "irq_desel", "irq_wdesel", "sw_first", "sw_desel"}
          \/ pc \in {"dis", "dis_w"} /\ ret[1] = "irq_desel"

ProcessRegion ==
    /\ "PROCESS" \in intReg => InHandler
    /\ "PROCESS" \in tmp /\ pc \in RmwStores => InHandler

\* Between the disable and the enable in SpiWrite no interrupt is served, so
\* the write claimed there is still to be made when CS is asserted.
ClaimRegion ==
    /\ pc \in {"sw_idle", "sw_cs"} => "ENABLE" \notin intReg
    /\ pc = "sw_cs" => ulSpiState = "WRITE_IRQ"

ReleaseInv == StackOK /\ StateRegion /\ CsRegion /\ ProcessRegion /\ ClaimRegion

\* Without WLAN_EN no edge is pending, and the receive buffer is given up only
\* after WLAN_EN, until the next SpiOpen.
BufferRegion ==
    /\ edge => wlanEn
    /\ pc \in {"st_pin", "cl"} => ~wlanEn
    /\ ~pRxPacket => /\ ~wlanEn
                     /\ \/ pc \in {"off", "stopped", "ws"}
                        \/ pc \in {"dis", "dis_w"} /\ ret[1] \in {"off", "stopped"}

-----------------------------------------------------------------------------
\* The label of the function of the application that is running: the label the
\* bottom of the stack returns to.
Base == IF ret = <<>> THEN pc ELSE ret[Len(ret)]

\* A request of the device whose edge has been taken and that has had no transfer.
Request == irqLow /\ ~served /\ ~edge

\* The packets the device offers; an answer it owes or offers; nothing solicited.
Offered == {outq[i] : i \in DOMAIN outq}
Owed    == devTodo # "none" \/ \E p \in Offered : p \in {"reply", "replyData", "patch"}
Clear   == devTodo = "none" /\ Offered \subseteq {"async"}

Disabling(l) == pc \in {"dis", "dis_w"} /\ ret[1] = l
Starting     == ulSpiState \in {"POWERUP", "INITIALIZED"}
Powering     == pc \in {"ws_high", "ws_low"}
Writing      == Base \in {"arm", "wt_exit"}
Reading      == pc \in {"irq_desel", "irq_idle", "irq_rx"}

\* WLAN_EN is high exactly outside the start, the stop and the rest; with it the device is
\* past its first packet and the driver past its start-up states, except between ws_high and
\* the first packet itself.
PowerRegion ==
    /\ wlanEn <=> Base \notin {"off", "stopped", "ws", "ws_pin"}
    /\ Base \in {"ws", "ws_pin"} => devState = "off"
    /\ Powering => devState \in {"off", "boot", "ready"}
    /\ Base = "ws_pin" \/ Powering => Starting
    /\ wlanEn /\ ~Powering =>
          \/ devState \in {"init", "up"} /\ ~Starting
          \/ devState = "ready" /\ Starting /\ pc \in {"sw", "sw_first"} /\ tx = "START"
    /\ pc = "ws_low" /\ irqLow => devState = "ready"

\* A device that boots has no request; a ready one has its first, which nothing has served.
\* Before its first packet it has nothing to answer or to offer.
BootRegion ==
    /\ devState = "boot" => ~irqLow
    /\ devState = "ready" => irqLow /\ ~served
    /\ devState \in {"boot", "ready"} => wlanEn
    /\ edge => devState \in {"ready", "init", "up"}
    /\ devState \in {"off", "boot", "ready"} => devTodo = "none" /\ outq = <<>>

\* A request stays served only from the transfer to the CS edge that ends it.
ServedHere ==
    \/ pc \in {"irq_desel", "irq_wdesel"} \/ Disabling("irq_desel")
    \/ pc = "sw_desel" /\ cs
LineRegion ==
    /\ served <=> ServedHere
    /\ served => irqLow /\ cs
    /\ edge => irqLow /\ ~served
    /\ ulSpiState = "WRITE_IRQ" /\ pc # "sw_cs" => cs
    /\ pc \in {"irq_wdesel", "sw_desel"} => ulSpiState # "WRITE_IRQ"
    /\ pc = "irq_wdesel" => Writing

\* With CS high a request is that of a packet the device offers.
OfferRegion ==
    irqLow /\ ~served /\ ~cs /\ wlanEn /\ devState \in {"init", "up"} => outq # <<>>

\* A transfer and the handler that leads to it have the device's request.
RequestRegion ==
    /\ pc \in {"irq", "irq_miss", "irq_miss_w", "irq_proc", "irq_proc_w", "irq_disp"}
          /\ Base # "ws_pin" => Request
    /\ pc \in {"irq_write", "irq_read", "sw_xfer", "sw_first"} => Request
    /\ pc \in {"irq_write", "irq_read", "sw_first"} => cs
    /\ pc = "irq_write" => ulSpiState = "WRITE_IRQ"
    /\ pc = "irq_read" => outq # <<>>

\* The one packet SpiWrite has still to send.
UnsentRegion ==
    unsent = IF \/ pc \in {"sw", "sw_first", "sw_idle", "sw_cs"} \/ Disabling("sw_idle")
                \/ ulSpiState = "WRITE_IRQ" THEN 1 ELSE 0

\* The resume for an unsolicited event inside WLAN_IRQ_Handler comes once, in the enable of
\* hci_event_handler, and while nothing is owed.
NestedOnce == \A i \in 1..Len(ret) : ret[i] = "irq_done" => i = 1 /\ pc \in EnLabels
NestRegion ==
    /\ NestedOnce
    /\ OnStack("irq_done") => Base = "wt_res" /\ Clear
    /\ Reading \/ pc = "irq_read" \/ Disabling("irq_desel") => Base = "wt_res"

\* While the interrupt is off a packet is held or a write claimed; a claimed write is made
\* by the first interrupt that is on.
EnableRegion ==
    /\ Reading => "ENABLE" \notin intReg
    /\ pc \in {"en", "en_w"} /\ ret[1] \in {"sw_chk", "irq_done"} => "ENABLE" \notin intReg
    /\ pc \in {"en", "en_w"} /\ ret[1] = "sw_chk" => ulSpiState = "WRITE_IRQ"
    /\ pc \in {"en_missed", "en_pin"} /\ ret[1] = "sw_chk" /\ Request /\ "ENABLE" \in intReg =>
          ulSpiState = "WRITE_IRQ"
    /\ pc = "irq" /\ "ENABLE" \in intReg /\ Writing => ulSpiState = "WRITE_IRQ"
    /\ pc \in {"irq_proc", "irq_proc_w", "irq_disp"} /\ Writing => ulSpiState = "WRITE_IRQ"

\* PROCESS stays set from irq_proc_w to irq_done_w, through both the nested disable and
\* the nested enable.
HandlerRegion ==
    /\ pc = "irq_disp" /\ Base # "ws_pin" => "PROCESS" \in intReg
    /\ Reading \/ pc = "irq_read" \/ Disabling("irq_desel") => "PROCESS" \in intReg
    /\ pc \in {"en", "en_w"} /\ ret[1] = "irq_done" => "PROCESS" \in intReg
    /\ pc = "dis_w" /\ ret[1] = "irq_desel" => "PROCESS" \in tmp
    /\ pc = "en_w" /\ ret[1] = "irq_done" => "PROCESS" \in tmp
    /\ pc \in {"en_missed", "en_pin"} /\ ret[1] = "irq_done" =>
          "ENABLE" \in intReg /\ (Request => "PROCESS" \in intReg)

\* In the queue an answer comes alone or followed at once by its data; what is offered and
\* executed is for the command under way.
QueueShape ==
    /\ \A i, j \in 1..Len(outq) : i < j /\ outq[i] # "async" /\ outq[j] # "async" =>
          j = i + 1 /\ outq[i] = "replyData" /\ outq[j] = "data"
    /\ \A i \in 2..Len(outq) : outq[i] = "data" => outq[i - 1] = "replyData"
    /\ outq # <<>> /\ outq[1] = "data" => rxBuffer = "replyData"
QueueRegion ==
    /\ QueueShape
    /\ rxBuffer # "garbage" /\ "garbage" \notin Offered
    /\ devTodo # "none" => Offered \subseteq {"async"}
    /\ "patch" \in Offered => cmd = "START"
    /\ "replyData" \in Offered \/ "data" \in Offered => cmd = "RECV"
    /\ devTodo = "START" \/ (unsent = 1 /\ tx = "START") => cmd = "START"
    /\ devTodo = "RECV" \/ (unsent = 1 /\ tx = "RECV") => cmd = "RECV"

\* What is owed is awaited in hci_event_handler, and a packet is sent when nothing is owed.
OwedRegion ==
    /\ Owed => Base \in {"arm", "wt", "wt_exit"} /\ ~usEventOrDataReceived
    /\ unsent = 1 => Clear /\ ~usEventOrDataReceived
    /\ Base \in {"app", "off", "stopped", "ws", "ws_pin", "ws_high", "ws_low"} =>
          Clear /\ ~usEventOrDataReceived

\* What hci_event_handler waits for, and that a patch request never ends its loop.
WaitRegion ==
    /\ Base \in {"ws_pin", "ws_high", "ws_low", "app", "arm", "arm_d"} =>
          ~usRxEventOpcode /\ ~usRxDataPending
    /\ pc \in {"wt", "wt_parse"} => usRxEventOpcode \/ usRxDataPending
    /\ usRxDataPending => cmd = "RECV" /\ Base \in {"wt", "wt_parse", "wt_res", "wt_exit"}
                          /\ ~usRxEventOpcode /\ ~Owed
    /\ Base \in {"wt", "wt_exit"} /\ Owed => usRxEventOpcode
    /\ pc # "wt_exit" /\ Base = "wt_exit" => usRxEventOpcode
    /\ Base = "arm_d" => cmd = "RECV"

\* The packet received, the one parsed and the one held, against the call under way.
ParseRegion ==
    /\ usEventOrDataReceived \/ pc = "wt_parse" =>
          /\ rxBuffer = "replyData" => cmd = "RECV"
          /\ rxBuffer = "patch" => cmd = "START"
          /\ rxBuffer # "none"
    /\ Base = "wt_res" =>
          /\ parsed = "replyData" => cmd = "RECV"
          /\ parsed # "replyData" => Clear /\ (usEventOrDataReceived => pc = "irq_rx")
          /\ parsed = "patch" => usRxEventOpcode
    /\ Reading \/ Disabling("irq_desel") =>
          rxBuffer = "async" \/ (rxBuffer = "data" /\ parsed = "replyData")
    /\ pc = "wt_exit" /\ ~usRxEventOpcode /\ ~usRxDataPending =>
          IF parsed = "replyData" THEN cmd = "RECV" ELSE Clear /\ ~usEventOrDataReceived

\* The inductive invariant of DriverSafe, BusExclusive and LinkSafe, with PromptRelease.
SafeInv ==
    /\ PowerRegion /\ BootRegion /\ LineRegion /\ OfferRegion /\ RequestRegion
    /\ UnsentRegion /\ NestRegion /\ EnableRegion /\ HandlerRegion
    /\ QueueRegion /\ OwedRegion /\ WaitRegion /\ ParseRegion

Safe == TypeOK /\ ReleaseInv /\ BufferRegion /\ SafeInv

\* A consequence: which function of the application the labels belong to.
Belongs ==
    /\ Base \in TopLabels /\ (pc \in TopLabels => Base = pc)
    /\ pc \notin TopLabels => Base \in {"ws_pin", "wt_res", "arm", "wt_exit", "stopped", "off"}
    /\ pc \in SwLabels => Writing
    /\ pc \in {"st_pin", "cl"} => ret[1] \in {"stopped", "off"} /\ Base = ret[1]
    /\ Base \in {"stopped", "off"} /\ pc # Base => pc \in {"dis", "dis_w", "st_pin", "cl"}
    /\ Disabling("sw_idle") => Writing
    /\ ulSpiState = "WRITE_IRQ" => Writing
    /\ ulSpiState = "WRITE_IRQ" => pc \notin {"sw", "sw_first", "sw_idle", "sw_desel"}
                                   /\ pc \notin TopLabels /\ ~Disabling("sw_idle")
    /\ pc \in EnLabels =>
          CASE ret[1] \in {"ws_pin", "wt_res"} -> Base = ret[1]
            [] ret[1] = "sw_chk"               -> Writing
            [] ret[1] = "irq_done"             -> OnStack("irq_done")
            [] OTHER                           -> FALSE

\* A consequence: when the link is up, and when the device takes and offers packets.
Up ==
    /\ devState = "ready" => Starting /\ pc \in {"ws_high", "ws_low", "sw", "sw_first"}
    /\ wlanEn => IF Powering THEN devState \in {"off", "boot", "ready"} /\ Starting
                 ELSE \/ devState \in {"init", "up"} /\ ~Starting
                      \/ devState = "ready" /\ Starting /\ pc \in {"sw", "sw_first"} /\ tx = "START"
    /\ ~wlanEn => /\ Base \in {"off", "stopped", "ws", "ws_pin"} /\ ~served /\ ~edge
                  /\ pc \notin {"irq_read", "irq_write", "irq_desel", "irq_wdesel", "irq_idle",
                                "irq_rx"} \cup SwLabels
                  /\ ulSpiState # "WRITE_IRQ"
    /\ pc \in {"irq_read", "irq_write", "irq_desel", "irq_wdesel", "irq_idle", "irq_rx",
               "sw_idle", "sw_cs", "sw_chk", "sw_xfer", "sw_desel", "sw_wait"}
       \/ served \/ ulSpiState = "WRITE_IRQ" => devState \in {"init", "up"}
    /\ pc = "sw_first" => devState \in {"init", "up"} \/ (devState = "ready" /\ tx = "START")
    /\ pc \in IrqLabels /\ Base # "ws_pin" => wlanEn /\ ~Starting /\ devState \in {"init", "up"}
    /\ pc \in SwLabels => wlanEn

-----------------------------------------------------------------------------
\* The windows of the driver: labels at which a request of the device that it does not
\* owe to CS is lost or taken for something else.

\* The poll of wlan_start for the high level before the low one.
PollWindow == {"ws_high"}
\* Between load and store of the read-modify-writes that can restore ENABLE.
StoreWindow == {"en_clr_w", "irq_done_w"}
\* The same, and the one that can lose MISSED.
FlagWindow == StoreWindow \cup {"en_w"}
\* From the transfer SpiWrite makes to the store of the opcode waited for.
ArmWindow == {"en_missed", "en_clr", "en_clr_w", "irq_done", "irq_done_w",
              "sw_chk", "sw_wait", "arm"}
\* The end of WLAN_IRQ_Handler when WlanInterruptEnable has called it.
HandlerWindow == {"irq_idle", "irq_rx", "irq_done", "en", "en_missed", "en_clr"}
\* What keeps MISSED true to the line.
MissedWindow == ArmWindow \cup FlagWindow \cup HandlerWindow

\* While a packet is held the interrupt is off, also in the register of a store under way;
\* the handler and the enable run without one.
HeldRegion ==
    /\ usEventOrDataReceived => "ENABLE" \notin intReg
    /\ pc \in RmwStores \ {"dis_w"} /\ usEventOrDataReceived => "ENABLE" \notin tmp
    /\ pc \in {"en", "en_w"} => ~usEventOrDataReceived
    /\ pc \in {"en", "en_w"} /\ ret[1] = "wt_res" => "ENABLE" \notin intReg
    /\ pc \in {"wt_parse", "irq_rx"} => usEventOrDataReceived
    /\ pc \in EnLabels /\ ret[1] = "irq_done" => ~usEventOrDataReceived
    /\ pc \in {"irq_proc", "irq_proc_w", "irq_disp", "irq_read", "irq_desel", "irq_idle"}
       \/ Disabling("irq_desel") => ~usEventOrDataReceived
    /\ pc \in StoreWindow /\ edge => cs

\* The labels at which the interrupt is on unless a packet is held.
OnLabels ==
    {"ws_pin", "ws_high", "ws_low", "app", "arm", "arm_d", "wt", "wt_res", "wt_exit",
     "en_missed", "en_pin", "en_clr", "en_clr_w",
     "irq", "irq_proc", "irq_proc_w", "irq_disp", "irq_read", "irq_write", "irq_wdesel",
     "irq_done", "irq_done_w", "sw", "sw_first", "sw_chk", "sw_xfer", "sw_desel", "sw_wait"}
OnRegion ==
    /\ pc \in OnLabels \/ Disabling("sw_idle") => "ENABLE" \in intReg \/ usEventOrDataReceived
    /\ pc \in {"irq_proc_w", "en_clr_w", "irq_done_w"} =>
          "ENABLE" \in tmp \/ usEventOrDataReceived
    /\ pc \in {"irq_miss", "irq_miss_w"} => usEventOrDataReceived

\* A packet is sent with nothing held and MISSED clear; once it is sent the only request
\* is its own, until the opcode waited for is stored.
WrittenRegion ==
    /\ Writing /\ pc # "wt_exit" => ~usEventOrDataReceived
    /\ pc \in {"sw", "sw_first", "sw_chk", "sw_xfer", "sw_desel", "sw_wait"} =>
          "MISSED" \notin intReg
    /\ Writing /\ pc = "en_pin" => Request
    /\ Writing /\ unsent = 0 /\ pc # "wt_exit" =>
          ~edge /\ (irqLow => served) /\ pc \in ArmWindow \cup {"irq_wdesel", "sw_desel"}
    /\ pc = "sw_desel" => cs

\* From the transfer for a missed request to the store that clears MISSED.
Handled ==
    \/ pc \in {"irq_desel", "irq_idle", "irq_rx", "irq_wdesel", "irq_done", "irq_done_w",
               "en_clr", "en_clr_w"}
    \/ Disabling("irq_desel")
    \/ pc \in EnLabels /\ ret[1] = "irq_done"

\* MISSED records a request that is still there.
MissedRegion ==
    /\ "MISSED" \in intReg => Request \/ Handled \/ (~wlanEn /\ pc # "ws_pin")
    /\ "MISSED" \in intReg /\ pc \in TopLabels =>
          usEventOrDataReceived \/ (~wlanEn /\ pc # "ws_pin")
    /\ pc \in RmwStores \ {"en_clr_w"} /\ "MISSED" \in tmp => "MISSED" \in intReg
    /\ wlanEn /\ devState \in {"off", "boot"} => "MISSED" \notin intReg

\* A request that the interrupt has not served is recorded in MISSED, or it is the grant
\* of a write that SpiWrite looks at the pin for. None is there while the last one is being
\* cleared, and the handler called by the enable always finds the interrupt on.
LostRegion ==
    /\ Request /\ wlanEn /\ ~Starting =>
          \/ "MISSED" \in intReg
          \/ ulSpiState = "WRITE_IRQ" /\ pc \in {"en_missed", "sw_chk", "sw_xfer"}
    /\ Request /\ wlanEn /\ ~Starting /\ pc \in RmwStores =>
          "MISSED" \in tmp \/ (pc = "en_w" /\ ulSpiState = "WRITE_IRQ")
    /\ Handled /\ wlanEn => ~Request /\ (edge => cs \/ pc = "en_pin")
    /\ pc \in {"en_w", "en_missed"} /\ edge => cs
    /\ pc = "en_pin" /\ ret[1] # "irq_done" /\ wlanEn => Request
    /\ pc \in {"en_missed", "en_pin", "irq", "irq_miss", "irq_miss_w"} =>
          ~usEventOrDataReceived

\* The patch request comes before the first answer, alone while no unsolicited event can.
PatchRegion ==
    /\ devState = "init" => "async" \notin Offered
    /\ unsent = 1 /\ tx = "START" => devState = "ready"
    /\ devTodo = "START" => devState = "init"
    /\ "patch" \in Offered => devState = "init"
    /\ usEventOrDataReceived \/ pc = "wt_parse" =>
          (rxBuffer = "patch" => devState = "init")
    /\ Base = "wt_res" /\ parsed = "patch" => devState = "init" /\ rxBuffer = "patch"
=============================================================================
