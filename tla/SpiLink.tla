------------------------------ MODULE SpiLink ------------------------------
(***************************************************************************)
(* The CC3000 host link: the SPI driver of spider_spi.cpp, the rendezvous   *)
(* with the HCI layer (hci_event_handler, SimpleLinkWaitEvent,              *)
(* SimpleLinkWaitData, SpiReceiveHandler) and wlan_start / wlan_stop.       *)
(*                                                                         *)
(* Three actors share the driver's variables:                              *)
(*   - the foreground program, one labelled step at a time; every           *)
(*     read-modify-write of WLAN_INT_STATUE_REG is a load and a store,      *)
(*     because that is what |= and &= on a RAM byte compile to on an AVR;   *)
(*   - the interrupt handler, atomic for the foreground (an AVR interrupt   *)
(*     runs with interrupts off) and ahead of its next step;                *)
(*   - the CC3000, which owns the IRQ line and follows the SPI protocol.    *)
(***************************************************************************)
EXTENDS Integers, Sequences

CONSTANTS
    MaxCmds,        \* bound: API calls the application makes
    MaxAsync,       \* bound: unsolicited events the device makes
    MaxBoots,       \* bound: times the device is started
    QuietAt,        \* labels at which the device never lowers IRQ unasked
    PromptRelease,  \* TRUE: IRQ rises as soon as CS rises; FALSE: some time later
    EventsInInit    \* TRUE: unsolicited events may precede the answer to START

VARIABLES
    pc, ret,                 \* foreground label and stack of return labels
    tmp,                     \* the register of the read-modify-write under way
    cmd, tx, parsed,         \* API call under way, packet to send, packet just parsed
    intReg,                  \* WLAN_INT_STATUE_REG, the set of its bits
    ulSpiState, pRxPacket,   \* sSpiInformation
    cs, wlanEn,              \* chip select asserted, WLAN_EN high
    rxBuffer,                \* what wlan_rx_buffer holds
    usEventOrDataReceived, usRxEventOpcode, usRxDataPending,   \* tSLInformation
    edge,                    \* the falling-edge flag of the interrupt pin
    irqLow, served,          \* IRQ line low; its request has had its transfer
    devState, outq, devTodo, \* device: power, packets to deliver, command to answer
    unsent,                  \* SpiWrite calls entered minus packets the device got
    cmds, asyncs, boots      \* the bounded counters

cpu    == <<pc, ret, tmp, cmd, tx, parsed>>
spi    == <<intReg, ulSpiState, pRxPacket, rxBuffer>>
hci    == <<usEventOrDataReceived, usRxEventOpcode, usRxDataPending>>
line   == <<irqLow, served, edge>>
dev    == <<devState, outq, devTodo>>
counts == <<cmds, asyncs, boots>>
vars   == <<cpu, spi, hci, cs, wlanEn, line, dev, unsent, counts>>

-----------------------------------------------------------------------------
Bits   == {"ENABLE", "PROCESS", "MISSED"}
States == {"POWERUP", "INITIALIZED", "IDLE", "WRITE_IRQ", "READ_IRQ", "READ_EOT"}
Calls  == {"START", "BUFSIZE", "CMD", "RECV"}
\* async: an unsolicited event; reply: the awaited command complete;
\* replyData: the one of a receive that announces data; garbage: a read
\* of a device that offers nothing.
Events  == {"async", "reply", "replyData", "patch"}
Packets == Events \cup {"data", "garbage"}

RmwLoads  == {"dis", "en", "en_clr", "irq_miss", "irq_proc", "irq_done"}
RmwStores == {"dis_w", "en_w", "en_clr_w", "irq_miss_w", "irq_proc_w", "irq_done_w"}
\* labels at which the foreground is clocking bytes over SPI
Clocking  == {"sw_first", "sw_xfer", "irq_read", "irq_write"}
Labels == RmwLoads \cup RmwStores \cup Clocking \cup
    {"off", "stopped", "app", "ws", "ws_pin", "ws_high", "ws_low", "st_pin", "cl",
     "sw", "sw_idle", "sw_cs", "sw_chk", "sw_desel", "sw_wait",
     "en_missed", "en_pin", "irq", "irq_disp", "irq_desel", "irq_idle", "irq_rx",
     "irq_wdesel", "arm", "arm_d", "wt", "wt_parse", "wt_res", "wt_exit"}

ASSUME SpiLinkAssumption ==
    /\ MaxCmds \in Nat /\ MaxAsync \in Nat /\ MaxBoots \in Nat
    /\ QuietAt \subseteq Labels
    /\ PromptRelease \in BOOLEAN /\ EventsInInit \in BOOLEAN

-----------------------------------------------------------------------------
\* A foreground step: a pending interrupt is taken first.
At(l)         == pc = l /\ ~edge
Goto(l)       == pc' = l /\ ret' = ret
Call(l, back) == pc' = l /\ ret' = <<back>> \o ret
Return        == ret # <<>> /\ pc' = Head(ret) /\ ret' = Tail(ret)

\* CC3000_CS_DISABLE: the end of a transaction lets the device raise IRQ.
CsOff ==
    /\ cs' = FALSE
    /\ IF PromptRelease /\ served
       THEN irqLow' = FALSE /\ served' = FALSE
       ELSE UNCHANGED <<irqLow, served>>

\* The device takes a packet, or offers one, only while CS is asserted and
\* the request it signals on IRQ has not had its transfer yet.
Granted == cs /\ irqLow /\ ~served

\* SpiWriteDataSynchronous(pTxPacket): clocked without a grant, it is lost.
Deliver ==
    IF Granted
    THEN /\ unsent' = unsent - 1
         /\ devTodo' = tx
         /\ devState' = IF tx = "START" THEN "init" ELSE devState
    ELSE UNCHANGED <<unsent, devTodo, devState>>

\* SpiReadHeader and SpiReadDataCont: one whole packet into wlan_rx_buffer.
ReadPacket ==
    IF irqLow /\ ~served /\ outq # <<>>
    THEN rxBuffer' = Head(outq) /\ outq' = Tail(outq)
    ELSE rxBuffer' = "garbage" /\ UNCHANGED outq

\* hci_unsol_event_handler returns 1: an unsolicited event, or an event
\* that nobody waits for.
HandledAsUnsolicited(p) ==
    \/ p = "async"
    \/ p \in {"reply", "replyData"} /\ ~usRxEventOpcode

-----------------------------------------------------------------------------
\* Read-modify-write of WLAN_INT_STATUE_REG.

FlagLoad ==
    /\ pc \in RmwLoads /\ ~edge
    /\ tmp' = intReg
    /\ Goto(CASE pc = "dis"      -> "dis_w"      [] pc = "en"       -> "en_w"
              [] pc = "en_clr"   -> "en_clr_w"   [] pc = "irq_miss" -> "irq_miss_w"
              [] pc = "irq_proc" -> "irq_proc_w" [] pc = "irq_done" -> "irq_done_w")
    /\ UNCHANGED <<cmd, tx, parsed, spi, hci, cs, wlanEn, line, dev, unsent, counts>>

FlagStore ==
    /\ pc \in RmwStores /\ ~edge
    /\ intReg' = CASE pc = "dis_w"      -> tmp \ {"ENABLE"}
                   [] pc = "en_w"       -> tmp \cup {"ENABLE"}
                   [] pc = "en_clr_w"   -> tmp \ {"MISSED"}
                   [] pc = "irq_miss_w" -> tmp \cup {"MISSED"}
                   [] pc = "irq_proc_w" -> tmp \cup {"PROCESS"}
                   [] pc = "irq_done_w" -> tmp \ {"PROCESS"}
    /\ CASE pc = "en_w"       -> Goto("en_missed")
         [] pc = "irq_proc_w" -> Goto("irq_disp")
         [] OTHER             -> Return
    /\ tmp' = {}
    /\ UNCHANGED <<cmd, tx, parsed, ulSpiState, pRxPacket, rxBuffer, hci, cs, wlanEn,
                   line, dev, unsent, counts>>

\* WlanInterruptEnable after ENABLE is set: labels en_missed and en_pin.
EnableMissed ==
    /\ At("en_missed")
    /\ IF "MISSED" \in intReg THEN Goto("en_pin") ELSE Return
    /\ UNCHANGED <<tmp, cmd, tx, parsed, spi, hci, cs, wlanEn, line, dev, unsent, counts>>

\* Variant: PROCESS is not looked at.
MissedAnywhere == irqLow
MissedPending  == irqLow /\ "PROCESS" \notin intReg

EnablePin ==
    /\ At("en_pin")
    /\ IF MissedPending THEN Call("irq", "en_clr") ELSE Goto("en_clr")
    /\ UNCHANGED <<tmp, cmd, tx, parsed, spi, hci, cs, wlanEn, line, dev, unsent, counts>>

-----------------------------------------------------------------------------
\* WLAN_IRQ_Handler as the interrupt: one step, taken before any foreground step.

Isr == edge /\ edge' = FALSE

\* CC3000_CS_DISABLE inside the interrupt: when the foreground runs again the
\* device has raised IRQ, or still has it low without a request.
IsrDeselect ==
    /\ cs' = FALSE
    /\ irqLow' = (irqLow /\ ~PromptRelease) /\ served' = (irqLow /\ ~PromptRelease)

\* WLAN_INT_STATUE_REG after the interrupt: with SpiPauseSpi a packet is held;
\* SpiResumeSpi inside the interrupt only drops MISSED, as PROCESS is set.
NotPaused  == intReg \ {"PROCESS"}
Paused     == intReg \ {"ENABLE", "PROCESS"}
NotResumed == Paused
Resumed    == {"ENABLE"}

IsrMissed ==
    /\ Isr
    /\ "ENABLE" \notin intReg
    /\ intReg' = intReg \cup {"MISSED"}
    /\ UNCHANGED <<cpu, ulSpiState, pRxPacket, rxBuffer, hci, cs, wlanEn, irqLow, served,
                   dev, unsent, counts>>

IsrPowerUp ==
    /\ Isr
    /\ "ENABLE" \in intReg /\ ulSpiState = "POWERUP"
    /\ ulSpiState' = "INITIALIZED"
    /\ intReg' = intReg \ {"PROCESS"}
    /\ UNCHANGED <<cpu, pRxPacket, rxBuffer, hci, cs, wlanEn, irqLow, served,
                   dev, unsent, counts>>

IsrWrite ==
    /\ Isr
    /\ "ENABLE" \in intReg /\ ulSpiState = "WRITE_IRQ"
    /\ Deliver
    /\ ulSpiState' = "IDLE"
    /\ IsrDeselect
    /\ intReg' = intReg \ {"PROCESS"}
    /\ UNCHANGED <<cpu, pRxPacket, rxBuffer, hci, wlanEn, outq, counts>>

\* Reads the packet, pauses, and lets SpiReceiveHandler look at it: an
\* unsolicited event is consumed here and the link resumed; any other packet
\* is left in the buffer for hci_event_handler, with the interrupt off.
IsrRead ==
    /\ Isr
    /\ "ENABLE" \in intReg /\ ulSpiState = "IDLE"
    /\ ReadPacket
    /\ IF HandledAsUnsolicited(rxBuffer')
       THEN intReg' = Resumed /\ usEventOrDataReceived' = FALSE
       ELSE intReg' = Paused /\ usEventOrDataReceived' = TRUE
    /\ IsrDeselect
    /\ UNCHANGED <<cpu, ulSpiState, pRxPacket, usRxEventOpcode, usRxDataPending, wlanEn,
                   devState, devTodo, unsent, counts>>

\* INITIALIZED, READ_IRQ and READ_EOT have no branch: the edge is spent.
IsrIgnored ==
    /\ Isr
    /\ "ENABLE" \in intReg
    /\ ulSpiState \in {"INITIALIZED", "READ_IRQ", "READ_EOT"}
    /\ intReg' = intReg \ {"PROCESS"}
    /\ UNCHANGED <<cpu, ulSpiState, pRxPacket, rxBuffer, hci, cs, wlanEn, irqLow, served,
                   dev, unsent, counts>>

IrqHandler == IsrMissed \/ IsrPowerUp \/ IsrWrite \/ IsrRead \/ IsrIgnored

-----------------------------------------------------------------------------
\* WLAN_IRQ_Handler called by WlanInterruptEnable, in the foreground.

HandlerEntry ==
    /\ At("irq")
    /\ Goto(IF "ENABLE" \in intReg THEN "irq_proc" ELSE "irq_miss")
    /\ UNCHANGED <<tmp, cmd, tx, parsed, spi, hci, cs, wlanEn, line, dev, unsent, counts>>

HandlerDispatch ==
    /\ At("irq_disp")
    /\ CASE ulSpiState = "POWERUP"   -> /\ ulSpiState' = "INITIALIZED" /\ cs' = cs
                                        /\ Goto("irq_done")
         [] ulSpiState = "IDLE"      -> /\ ulSpiState' = "READ_IRQ" /\ cs' = TRUE
                                        /\ Goto("irq_read")
         [] ulSpiState = "WRITE_IRQ" -> UNCHANGED <<ulSpiState, cs>> /\ Goto("irq_write")
         [] OTHER                    -> UNCHANGED <<ulSpiState, cs>> /\ Goto("irq_done")
    /\ UNCHANGED <<tmp, cmd, tx, parsed, intReg, pRxPacket, rxBuffer, hci, wlanEn, line,
                   dev, unsent, counts>>

HandlerRead ==
    /\ At("irq_read")
    /\ ReadPacket
    /\ served' = irqLow
    /\ ulSpiState' = "READ_EOT"
    /\ Call("dis", "irq_desel")
    /\ UNCHANGED <<tmp, cmd, tx, parsed, intReg, pRxPacket, hci, cs, wlanEn, irqLow, edge,
                   devState, devTodo, unsent, counts>>

HandlerDeselect ==
    /\ \/ At("irq_desel") /\ Goto("irq_idle")
       \/ At("irq_wdesel") /\ Goto("irq_done")
    /\ CsOff
    /\ UNCHANGED <<tmp, cmd, tx, parsed, spi, hci, wlanEn, edge, dev, unsent, counts>>

\* ulSpiState = IDLE, then SpiReceiveHandler stores the packet's arrival.
HandlerDeliver ==
    /\ At("irq_idle")
    /\ ulSpiState' = "IDLE"
    /\ usEventOrDataReceived' = TRUE
    /\ Goto("irq_rx")
    /\ UNCHANGED <<tmp, cmd, tx, parsed, intReg, pRxPacket, rxBuffer, usRxEventOpcode,
                   usRxDataPending, cs, wlanEn, line, dev, unsent, counts>>

\* hci_unsolicited_event_handler
HandlerUnsolicited ==
    /\ At("irq_rx")
    /\ IF usEventOrDataReceived /\ HandledAsUnsolicited(rxBuffer)
       THEN usEventOrDataReceived' = FALSE /\ Call("en", "irq_done")
       ELSE UNCHANGED usEventOrDataReceived /\ Goto("irq_done")
    /\ UNCHANGED <<tmp, cmd, tx, parsed, spi, usRxEventOpcode, usRxDataPending, cs, wlanEn,
                   line, dev, unsent, counts>>

HandlerWrite ==
    /\ At("irq_write")
    /\ Deliver /\ served' = (served \/ Granted)
    /\ ulSpiState' = "IDLE"
    /\ Goto("irq_wdesel")
    /\ UNCHANGED <<tmp, cmd, tx, parsed, intReg, pRxPacket, rxBuffer, hci, cs, wlanEn,
                   irqLow, edge, outq, counts>>

Handler == HandlerEntry \/ HandlerDispatch \/ HandlerRead \/ HandlerDeselect
           \/ HandlerDeliver \/ HandlerUnsolicited \/ HandlerWrite

-----------------------------------------------------------------------------
\* SpiWrite and SpiFirstWrite.

\* POWERUP spins until the interrupt makes it INITIALIZED.
WriteEntry ==
    /\ At("sw")
    /\ ulSpiState # "POWERUP"
    /\ IF ulSpiState = "INITIALIZED"
       THEN cs' = TRUE /\ Goto("sw_first")
       ELSE cs' = cs /\ Call("dis", "sw_idle")
    /\ UNCHANGED <<tmp, cmd, tx, parsed, spi, hci, wlanEn, line, dev, unsent, counts>>

WriteClaim ==
    /\ At("sw_idle")
    /\ ulSpiState = "IDLE"
    /\ ulSpiState' = "WRITE_IRQ"
    /\ Goto("sw_cs")
    /\ UNCHANGED <<tmp, cmd, tx, parsed, intReg, pRxPacket, rxBuffer, hci, cs, wlanEn, line,
                   dev, unsent, counts>>

WriteSelect ==
    /\ At("sw_cs")
    /\ cs' = TRUE
    /\ Call("en", "sw_chk")
    /\ UNCHANGED <<tmp, cmd, tx, parsed, spi, hci, wlanEn, line, dev, unsent, counts>>

\* The check for an interrupt missed between CS and the enable.
\* Variant: the pin is not read.
NoPinCheck == TRUE
PinCheck   == irqLow

WriteCheck ==
    /\ At("sw_chk")
    /\ Goto(IF PinCheck THEN "sw_xfer" ELSE "sw_wait")
    /\ UNCHANGED <<tmp, cmd, tx, parsed, spi, hci, cs, wlanEn, line, dev, unsent, counts>>

\* The body of SpiFirstWrite and of the missed-interrupt branch.
WriteTransfer ==
    /\ At("sw_first") \/ At("sw_xfer")
    /\ Deliver /\ served' = (served \/ Granted)
    /\ ulSpiState' = "IDLE"
    /\ Goto("sw_desel")
    /\ UNCHANGED <<tmp, cmd, tx, parsed, intReg, pRxPacket, rxBuffer, hci, cs, wlanEn,
                   irqLow, edge, outq, counts>>

WriteDeselect ==
    /\ At("sw_desel")
    /\ CsOff
    /\ Goto("sw_wait")
    /\ UNCHANGED <<tmp, cmd, tx, parsed, spi, hci, wlanEn, edge, dev, unsent, counts>>

\* Variant: SpiWrite returns without waiting for its transaction.
WriteWaitUnguarded ==
    /\ At("sw_wait")
    /\ Return
    /\ UNCHANGED <<tmp, cmd, tx, parsed, spi, hci, cs, wlanEn, line, dev, unsent, counts>>

WriteWait ==
    /\ At("sw_wait")
    /\ ulSpiState = "IDLE"
    /\ Return
    /\ UNCHANGED <<tmp, cmd, tx, parsed, spi, hci, cs, wlanEn, line, dev, unsent, counts>>

SpiWriteStep == WriteEntry \/ WriteClaim \/ WriteSelect \/ WriteCheck
                \/ WriteTransfer \/ WriteDeselect \/ WriteWait

-----------------------------------------------------------------------------
\* SimpleLinkWaitEvent, SimpleLinkWaitData and hci_event_handler.

WaitArm ==
    /\ \/ At("arm")   /\ usRxEventOpcode' = TRUE /\ UNCHANGED usRxDataPending
       \/ At("arm_d") /\ usRxDataPending' = TRUE /\ UNCHANGED usRxEventOpcode
    /\ Goto("wt")
    /\ UNCHANGED <<tmp, cmd, tx, parsed, spi, usEventOrDataReceived, cs, wlanEn, line, dev,
                   unsent, counts>>

\* Variant: the buffer is parsed whether or not a packet has come.
NothingReceived == TRUE
Received        == usEventOrDataReceived

WaitReceived ==
    /\ At("wt")
    /\ Received
    /\ Goto("wt_parse")
    /\ UNCHANGED <<tmp, cmd, tx, parsed, spi, hci, cs, wlanEn, line, dev, unsent, counts>>

\* Only the event waited for clears its opcode. Variant: any packet does.
AnyTaken   == usRxEventOpcode' = FALSE
ReplyTaken == usRxEventOpcode' = (usRxEventOpcode /\ rxBuffer \notin {"reply", "replyData"})

\* Variant: the buffer is given up before the request in it is answered.
WaitParseEarlyReset ==
    /\ At("wt_parse")
    /\ parsed' = rxBuffer /\ rxBuffer' = "none"
    /\ ReplyTaken
    /\ usRxDataPending' = (usRxDataPending /\ rxBuffer \in Events)
    /\ usEventOrDataReceived' = FALSE
    /\ Call("en", "wt_res")
    /\ UNCHANGED <<tmp, cmd, tx, intReg, ulSpiState, pRxPacket, cs, wlanEn, line, dev,
                   unsent, counts>>

WaitParse ==
    /\ At("wt_parse")
    /\ parsed' = rxBuffer
    /\ ReplyTaken
    /\ usRxDataPending' = (usRxDataPending /\ rxBuffer \in Events)
    /\ usEventOrDataReceived' = FALSE
    /\ Call("en", "wt_res")
    /\ UNCHANGED <<tmp, cmd, tx, spi, cs, wlanEn, line, dev, unsent, counts>>

\* SpiWrite(p), which returns to the label back. Variant: the packet last
\* received is sent.
SendReceived(p, back) == tx' = parsed /\ unsent' = unsent + 1 /\ Call("sw", back)
Send(p, back) == tx' = p /\ unsent' = unsent + 1 /\ Call("sw", back)

\* After the resume: the patch request is answered out of wlan_rx_buffer. A
\* packet that has replaced it may or may not look like a known request.
WaitPatch ==
    /\ At("wt_res")
    /\ \/ /\ parsed = "patch" /\ rxBuffer \in Events
          /\ Send("PATCH", "wt_exit")
       \/ /\ parsed # "patch" \/ rxBuffer # "patch"
          /\ Goto("wt_exit")
          /\ UNCHANGED <<tx, unsent>>
    /\ UNCHANGED <<tmp, cmd, parsed, spi, hci, cs, wlanEn, line, dev, counts>>

\* The end of the loop, and what the caller of the wait does next:
\* simple_link_recv waits for the data announced, wlan_start asks for the
\* buffer size, any other call returns.
WaitExit ==
    /\ At("wt_exit")
    /\ \/ /\ usRxEventOpcode \/ usRxDataPending
          /\ Goto("wt") /\ UNCHANGED <<cmd, tx, unsent>>
       \/ /\ ~usRxEventOpcode /\ ~usRxDataPending
          /\ CASE cmd = "START" -> cmd' = "BUFSIZE" /\ Send("BUFSIZE", "arm")
               [] cmd = "RECV" /\ parsed = "replyData" ->
                                   Goto("arm_d") /\ UNCHANGED <<cmd, tx, unsent>>
               [] OTHER -> Goto("app") /\ UNCHANGED <<cmd, tx, unsent>>
    /\ UNCHANGED <<tmp, parsed, spi, hci, cs, wlanEn, line, dev, counts>>

Wait == WaitArm \/ WaitReceived \/ WaitParse \/ WaitPatch \/ WaitExit

-----------------------------------------------------------------------------
\* Starting, using and stopping the device.

\* Spider_begin: init_io, whose delay(500) lets the device power down.
Begin ==
    /\ At("off")
    /\ boots < MaxBoots /\ boots' = boots + 1
    /\ devState = "off"
    /\ intReg' = intReg \cup {"ENABLE"}
    /\ wlanEn' = FALSE /\ cs' = FALSE
    /\ Goto("ws")
    /\ UNCHANGED <<tmp, cmd, tx, parsed, ulSpiState, pRxPacket, rxBuffer, hci, line, dev,
                   unsent, cmds, asyncs>>

\* Spider_SmartConfig: wlan_start again after wlan_stop and delay(100).
Restart ==
    /\ At("stopped")
    /\ boots < MaxBoots /\ boots' = boots + 1
    /\ devState = "off"
    /\ Goto("ws")
    /\ UNCHANGED <<tmp, cmd, tx, parsed, spi, hci, cs, wlanEn, line, dev, unsent, cmds,
                   asyncs>>

\* wlan_start down to SpiOpen's WlanInterruptEnable.
StartOpen ==
    /\ At("ws")
    /\ usEventOrDataReceived' = FALSE /\ usRxEventOpcode' = FALSE /\ usRxDataPending' = FALSE
    /\ ulSpiState' = "POWERUP"
    /\ pRxPacket' = TRUE
    /\ Call("en", "ws_pin")
    /\ UNCHANGED <<tmp, cmd, tx, parsed, intReg, rxBuffer, cs, wlanEn, line, dev, unsent,
                   counts>>

StartEnable ==
    /\ At("ws_pin")
    /\ wlanEn' = TRUE
    /\ Goto(IF irqLow THEN "ws_high" ELSE "ws_low")
    /\ UNCHANGED <<tmp, cmd, tx, parsed, spi, hci, cs, line, dev, unsent, counts>>

StartWaitHigh ==
    /\ At("ws_high")
    /\ ~irqLow
    /\ Goto("ws_low")
    /\ UNCHANGED <<tmp, cmd, tx, parsed, spi, hci, cs, wlanEn, line, dev, unsent, counts>>

StartWaitLow ==
    /\ At("ws_low")
    /\ irqLow
    /\ cmd' = "START" /\ Send("START", "arm")
    /\ UNCHANGED <<tmp, parsed, spi, hci, cs, wlanEn, line, dev, counts>>

\* Any API call that sends a command and waits for its answer.
AppCall ==
    /\ At("app")
    /\ cmds < MaxCmds
    /\ cmds' = cmds + 1
    /\ \E c \in {"CMD", "RECV"} : cmd' = c /\ Send(c, "arm")
    /\ UNCHANGED <<tmp, parsed, spi, hci, cs, wlanEn, line, dev, asyncs, boots>>

\* wlan_stop waits for IRQ to rise, Spider_close does not; both call SpiClose.
\* Variant: SpiClose runs before WLAN_EN is lowered.
StaysPowered == UNCHANGED wlanEn
PowerDown    == wlanEn' = FALSE

AppStop ==
    /\ At("app")
    /\ PowerDown
    /\ \/ Call("st_pin", "stopped")
       \/ Call("cl", "off")
    /\ UNCHANGED <<tmp, cmd, tx, parsed, spi, hci, cs, line, dev, unsent, counts>>

StopWaitHigh ==
    /\ At("st_pin")
    /\ ~irqLow
    /\ Goto("cl")
    /\ UNCHANGED <<tmp, cmd, tx, parsed, spi, hci, cs, wlanEn, line, dev, unsent, counts>>

SpiClose ==
    /\ At("cl")
    /\ pRxPacket' = FALSE
    /\ Goto("dis")
    /\ UNCHANGED <<tmp, cmd, tx, parsed, intReg, ulSpiState, rxBuffer, hci, cs, wlanEn, line,
                   dev, unsent, counts>>

App == Begin \/ Restart \/ StartOpen \/ StartEnable \/ StartWaitHigh \/ StartWaitLow
       \/ AppCall \/ AppStop \/ StopWaitHigh \/ SpiClose

Foreground == FlagLoad \/ FlagStore \/ EnableMissed \/ EnablePin
              \/ Handler \/ SpiWriteStep \/ Wait \/ App

-----------------------------------------------------------------------------
\* The CC3000, from how the driver uses it.

LowerIrq == irqLow' = TRUE /\ edge' = TRUE /\ served' = FALSE

DevPower ==
    /\ wlanEn /\ devState = "off"
    /\ devState' = "boot"
    /\ irqLow' = FALSE
    /\ UNCHANGED <<cpu, spi, hci, cs, wlanEn, served, edge, outq, devTodo, unsent, counts>>

\* Ready for the first write: the request IsrPowerUp answers.
DevReady ==
    /\ wlanEn /\ devState = "boot"
    /\ pc \notin QuietAt
    /\ devState' = "ready"
    /\ LowerIrq
    /\ UNCHANGED <<cpu, spi, hci, cs, wlanEn, outq, devTodo, unsent, counts>>

DevOff ==
    /\ ~wlanEn /\ devState # "off"
    /\ devState' = "off" /\ outq' = <<>> /\ devTodo' = "none"
    /\ irqLow' = FALSE /\ served' = FALSE
    /\ UNCHANGED <<cpu, spi, hci, cs, wlanEn, edge, unsent, counts>>

\* CS asserted with IRQ high: the host asks to write.
DevGrant ==
    /\ wlanEn /\ devState \in {"init", "up"}
    /\ cs /\ ~irqLow
    /\ LowerIrq
    /\ UNCHANGED <<cpu, spi, hci, cs, wlanEn, dev, unsent, counts>>

DevOffer ==
    /\ wlanEn /\ devState \in {"init", "up"}
    /\ ~cs /\ ~irqLow /\ outq # <<>>
    /\ pc \notin QuietAt
    /\ LowerIrq
    /\ UNCHANGED <<cpu, spi, hci, cs, wlanEn, dev, unsent, counts>>

DevRelease ==
    /\ irqLow /\ served /\ ~cs
    /\ irqLow' = FALSE /\ served' = FALSE
    /\ UNCHANGED <<cpu, spi, hci, cs, wlanEn, edge, dev, unsent, counts>>

DevAnswer ==
    /\ wlanEn /\ devTodo # "none"
    /\ devTodo' = "none"
    /\ \/ outq' = Append(outq, "reply") /\ devState' = "up"
       \/ devTodo = "START" /\ outq' = Append(outq, "patch") /\ UNCHANGED devState
       \/ devTodo = "RECV" /\ outq' = outq \o <<"replyData", "data">> /\ UNCHANGED devState
    /\ UNCHANGED <<cpu, spi, hci, cs, wlanEn, line, unsent, counts>>

DevAsync ==
    /\ wlanEn
    /\ devState = "up" \/ (devState = "init" /\ EventsInInit)
    /\ asyncs < MaxAsync
    /\ asyncs' = asyncs + 1
    /\ outq' = Append(outq, "async")
    /\ UNCHANGED <<cpu, spi, hci, cs, wlanEn, line, devState, devTodo, unsent, cmds, boots>>

Device == DevPower \/ DevReady \/ DevOff \/ DevGrant \/ DevOffer \/ DevRelease
          \/ DevAnswer \/ DevAsync

-----------------------------------------------------------------------------
\* Power-up: the IRQ line of the unpowered device may read either way.
Init ==
    /\ pc = "off" /\ ret = <<>> /\ tmp = {}
    /\ cmd = "START" /\ tx = "START" /\ parsed = "none"
    /\ intReg = {} /\ ulSpiState = "POWERUP" /\ pRxPacket = FALSE /\ rxBuffer = "none"
    /\ usEventOrDataReceived = FALSE /\ usRxEventOpcode = FALSE /\ usRxDataPending = FALSE
    /\ cs = FALSE /\ wlanEn = FALSE
    /\ irqLow \in BOOLEAN /\ served = FALSE /\ edge = FALSE
    /\ devState = "off" /\ outq = <<>> /\ devTodo = "none"
    /\ unsent = 0
    /\ cmds = 0 /\ asyncs = 0 /\ boots = 0

\* The application has stopped the device for the last time.
Finished == pc \in {"off", "stopped"} /\ boots = MaxBoots /\ devState = "off" /\ UNCHANGED vars

Next == IrqHandler \/ Foreground \/ Device \/ Finished

Spec == Init /\ [][Next]_vars

\* The processor runs and the device follows the protocol. Nobody has to
\* make another call or another unsolicited event.
Fairness ==
    /\ WF_vars(IrqHandler)
    /\ WF_vars(Foreground /\ pc \notin {"app", "off", "stopped"})
    /\ WF_vars(DevPower) /\ WF_vars(DevReady) /\ WF_vars(DevOff) /\ WF_vars(DevGrant)
    /\ WF_vars(DevOffer) /\ WF_vars(DevRelease) /\ WF_vars(DevAnswer)

FairSpec == Spec /\ Fairness

-----------------------------------------------------------------------------
CpuTypes ==
    /\ pc \in Labels /\ ret \in Seq(Labels) /\ tmp \subseteq Bits
    /\ cmd \in Calls /\ tx \in Calls \cup {"PATCH"} /\ parsed \in Packets \cup {"none"}

DriverTypes ==
    /\ intReg \subseteq Bits /\ ulSpiState \in States /\ pRxPacket \in BOOLEAN
    /\ rxBuffer \in Packets \cup {"none"}
    /\ usEventOrDataReceived \in BOOLEAN /\ usRxEventOpcode \in BOOLEAN
    /\ usRxDataPending \in BOOLEAN
    /\ cs \in BOOLEAN /\ wlanEn \in BOOLEAN

DeviceTypes ==
    /\ irqLow \in BOOLEAN /\ served \in BOOLEAN /\ edge \in BOOLEAN
    /\ devState \in {"off", "boot", "ready", "init", "up"}
    /\ outq \in Seq(Packets) /\ devTodo \in Calls \cup {"PATCH", "none"}
    /\ unsent \in Int
    /\ cmds \in 0..MaxCmds /\ asyncs \in 0..MaxAsync /\ boots \in 0..MaxBoots

\* The types of the variables of the processor, the driver and the device.
TypeOK == CpuTypes /\ DriverTypes /\ DeviceTypes

-----------------------------------------------------------------------------
\* When SpiWrite returns the device has its packet, and it never gets one
\* packet twice: the missed-interrupt branch of SpiWrite (411-418) repeats the
\* transfer of an interrupt that was not missed, but only after CS has risen.
ExactlyOnce ==
    /\ unsent \in {0, 1}
    /\ pc \in {"arm", "arm_d", "app", "wt", "wt_parse"} => unsent = 0

\* Bytes are written under CS only while the device requests them on IRQ.
WriteGranted == pc \in {"sw_first", "sw_xfer", "irq_write"} /\ cs => Granted

\* Outside SpiWrite and WLAN_IRQ_Handler CS is high and the driver IDLE.
LinkReleased ==
    pc \in {"arm", "arm_d", "wt", "wt_parse", "wt_res", "wt_exit", "app"} =>
        ~cs /\ ulSpiState = "IDLE" /\ "PROCESS" \notin intReg

\* A packet hci_event_handler has not taken is never overwritten.
RxNotOverwritten == [][IsrRead \/ HandlerRead => ~usEventOrDataReceived]_vars

\* Nothing is received into the null pRxPacket that SpiClose leaves.
RxHasBuffer == [][IsrRead \/ HandlerRead => pRxPacket]_vars

\* The missed-interrupt branch of SpiWrite runs only for a write that the
\* interrupt has not made.
MissedMeansMissed == pc = "sw_xfer" => ulSpiState = "WRITE_IRQ"

\* The interrupt never clocks the SPI under a transfer of the foreground.
BusExclusive == [][IsrRead \/ IsrWrite => pc \notin Clocking]_vars

\* The driver reads only packets the device offers.
NoSpuriousRead == rxBuffer # "garbage"

\* WLAN_IRQ_Handler is not entered again while the foreground runs it.
HandlerNotNested == pc = "irq" => "irq_done" \notin {ret[i] : i \in DOMAIN ret}

\* Wherever the interrupt comes, also between the steps of WLAN_IRQ_Handler called by
\* WlanInterruptEnable, each packet is written once, on request, and read on request.
DriverSafe == ExactlyOnce /\ WriteGranted /\ NoSpuriousRead /\ HandlerNotNested

Resting == pc \in {"app", "wt", "sw_wait"}

\* A request of the device is never forgotten while the foreground only waits:
\* its edge is latched, MISSED records it, or the packet before it is held.
NoLostInterrupt ==
    Resting /\ irqLow /\ ~served =>
        edge \/ "MISSED" \in intReg \/ usEventOrDataReceived

\* The answer to a command is never taken for an unsolicited event.
ReplyNotDropped ==
    [][(IsrRead \/ HandlerUnsolicited) /\ rxBuffer' \in {"reply", "replyData"}
        => usRxEventOpcode]_vars

\* The patch request is still in wlan_rx_buffer when it is answered from it.
PatchRequestIntact == pc = "wt_res" /\ parsed = "patch" => rxBuffer = "patch"

\* Outside the windows the status byte and the receive buffer are what the foreground
\* takes them for: no request forgotten, none served twice, no patch request replaced.
DriverPrecise == NoLostInterrupt /\ MissedMeansMissed /\ PatchRequestIntact

\* The phase of the call under way, as HciCall sees it.
Phase ==
    CASE unsent > 0                                  -> "sending"
      [] unsent <= 0 /\ devTodo # "none"             -> "executing"
      [] OTHER -> IF pc = "app" THEN "ready"
                  ELSE IF ~wlanEn \/ pc \in {"ws_high", "ws_low"} THEN "down"
                  ELSE "answered"
Link == INSTANCE HciCall WITH phase <- Phase

\* The link implements HciCall: hci_command_send hands over each packet once,
\* and a call ends only after the device has answered it.
LinkSafe == Link!Spec

\* It also makes the progress HciCall promises: every packet handed to SpiWrite
\* is taken and answered, and the call that waits for the answer ends.
LinkFair == Link!FairSpec

\* Every API call returns and every wlan_start completes: no spin loop of
\* SpiWrite, hci_event_handler or wlan_start is left waiting for ever.
CallReturns == (pc = "ws" \/ pc = "sw") ~> (pc = "app")

\* Whatever the device offers is eventually read from it: an unsolicited event
\* does not wait for the next call of the application.
EventsDelivered == (outq # <<>> /\ wlanEn) ~> (outq = <<>>)

\* Neither direction of the link stops: calls return and events arrive.
Responsive == CallReturns /\ EventsDelivered
=============================================================================
