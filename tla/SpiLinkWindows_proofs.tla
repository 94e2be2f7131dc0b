------------------------ MODULE SpiLinkWindows_proofs ------------------------
(***************************************************************************)
(* Proofs about SpiLink for a device that asks for nothing in the windows of *)
(* the driver (QuietAt): no packet held is overwritten (RxNotOverwritten),   *)
(* no answer is taken for an unsolicited event (ReplyNotDropped), and the    *)
(* status byte and the buffer are what the foreground takes them for         *)
(* (DriverPrecise). One lemma per region, each with the window it needs.     *)
(***************************************************************************)
EXTENDS SpiLinkSafe_proofs

\* The interrupt comes with a request that nobody handles. It reads only with ENABLE set:
\* never while a packet is held, and in a nested enable only an unsolicited event.
LEMMA Interrupts ==
    ASSUME Safe, HeldRegion, IrqHandler
    PROVE  /\ edge /\ irqLow /\ ~served /\ wlanEn
           /\ Base \notin {"off", "stopped", "ws", "ws_pin"}
           /\ pc \notin {"irq_desel", "irq_wdesel", "irq", "irq_miss", "irq_miss_w", "irq_proc",
                         "irq_proc_w", "irq_disp", "irq_write", "irq_read", "sw_xfer", "sw_first"}
           /\ ~Disabling("irq_desel")
           /\ IsrRead =>
                 /\ pc \notin {"en", "en_w", "irq_idle", "irq_rx", "wt_parse"} \cup StoreWindow
                 /\ ~usEventOrDataReceived
                 /\ pc \in EnLabels /\ ret[1] = "irq_done" => HandledAsUnsolicited(rxBuffer')
<1>1. Belongs
  BY WhereFrom DEF Safe
<1>2. HeldRegion /\ EnableRegion /\ RequestRegion /\ LineRegion /\ PowerRegion
  BY DEF Safe, SafeInv
<1>3. edge /\ irqLow /\ ~served /\ wlanEn /\ Base \notin {"off", "stopped", "ws", "ws_pin"}
  BY <1>2 DEF IrqHandler, IsrMissed, IsrPowerUp, IsrWrite, IsrRead, IsrIgnored, Isr,
     LineRegion, PowerRegion, Safe, BufferRegion
<1>4. /\ ~Disabling("irq_desel")
      /\ pc \notin {"irq_desel", "irq_wdesel", "irq", "irq_miss", "irq_miss_w", "irq_proc",
                    "irq_proc_w", "irq_disp", "irq_write", "irq_read", "sw_xfer", "sw_first"}
  BY <1>2, <1>3 DEF LineRegion, ServedHere, RequestRegion, Request
<1>5. ASSUME IsrRead
      PROVE  /\ pc \notin {"en", "en_w", "irq_idle", "irq_rx", "wt_parse"} \cup StoreWindow
             /\ ~usEventOrDataReceived
             /\ pc \in EnLabels /\ ret[1] = "irq_done" => HandledAsUnsolicited(rxBuffer')
  <2>1. "ENABLE" \in intReg /\ ulSpiState = "IDLE"
    BY <1>5 DEF IsrRead
  <2>2. pc \notin {"en", "en_w"}
    BY <2>1, <1>1, <1>2, <1>3 DEF HeldRegion, EnableRegion, Belongs, EnLabels
  <2>3. pc \notin {"irq_idle", "irq_rx", "wt_parse"} /\ ~usEventOrDataReceived
    BY <2>1, <1>2 DEF HeldRegion, EnableRegion, Reading
  <2>4. pc \notin StoreWindow
    BY <2>1, <1>2, <1>3 DEF HeldRegion, StoreWindow, Safe, ReleaseInv, CsRegion, Disabling
  <2>5. ASSUME pc \in EnLabels, ret[1] = "irq_done" PROVE HandledAsUnsolicited(rxBuffer')
    <3>1. Clear
      BY <2>5, NestMoves DEF Safe, SafeInv, NestRegion, ReleaseInv
    <3>2. rxBuffer' \in Offered
      BY <1>5, ReadMoves
    <3>3. QED BY <3>1, <3>2 DEF Clear, HandledAsUnsolicited
  <2>6. QED BY <2>2, <2>3, <2>4, <2>5
<1>6. QED BY <1>3, <1>4, <1>5

\* A function does not return into the enable nested in WLAN_IRQ_Handler.
LEMMA ReturnsOut == Safe /\ Return => ~(pc' \in EnLabels /\ ret'[1] = "irq_done")
<1> DEFINE n == Len(ret)
<1> SUFFICES ASSUME Safe, Return PROVE ~(pc' \in EnLabels /\ ret'[1] = "irq_done")
  OBVIOUS
<1>1. ret \in Seq(Labels) /\ ret # <<>> /\ pc' = Head(ret) /\ ret' = Tail(ret)
  BY DEF Return, Safe, TypeOK, CpuTypes
<1>2. pc' = ret[1] /\ n \in Nat \ {0} /\ \A i \in 1..(n - 1) : ret'[i] = ret[i + 1]
  BY <1>1, PopSeq
<1>3. CASE n = 1
  BY <1>1, <1>2, <1>3 DEF Safe, ReleaseInv, StackOK, TopLabels, EnLabels
<1>4. CASE n # 1
  <2> HIDE DEF n
  <2>1. n \in Nat /\ n # 0 /\ n # 1
    BY <1>2, <1>4
  <2>2. 1 \in 1..(n - 1) /\ 1 + 1 = 2 /\ 2 \in 1..n
    BY <2>1
  <2>3. ret'[1] = ret[2]
    BY <1>2, <2>2
  <2>4. QED BY <2>2, <2>3 DEF n, Safe, SafeInv, NestRegion, NestedOnce
<1>5. QED BY <1>3, <1>4

-----------------------------------------------------------------------------
(* The regions, one by one.                                                   *)

\* A packet is held with the interrupt off: the only stores that could turn it on again are
\* those of a read-modify-write the interrupt comes into the middle of (StoreWindow).
LEMMA HeldStep ==
    ASSUME Safe, HeldRegion, PromptRelease, StoreWindow \subseteq QuietAt, [Next]_vars
    PROVE  HeldRegion'
<1>a. GotoMoved /\ CallMoved /\ ReturnMoved /\ Stays
  BY Moved DEF Safe, ReleaseInv, StackMoved
<1>b. Belongs /\ Up
  BY WhereFrom, Powered DEF Safe
<1>c. /\ HeldRegion /\ EnableRegion /\ RequestRegion /\ LineRegion /\ OwedRegion
      /\ PowerRegion /\ UnsentRegion /\ StoreWindow \subseteq QuietAt
  BY DEF Safe, SafeInv
<1>d. usEventOrDataReceived \in BOOLEAN /\ wlanEn \in BOOLEAN /\ edge \in BOOLEAN
  BY DEF Safe, TypeOK, DriverTypes, DeviceTypes
<1>e. pc = "sw_cs" \/ Base \in {"off", "stopped", "ws", "ws_pin"} => ~usEventOrDataReceived
  BY <1>c DEF UnsentRegion, OwedRegion
<1>f. Return => ~(pc' \in EnLabels /\ ret'[1] = "irq_done")
  BY ReturnsOut
<1> USE DEF TopLabels, At, cpu, spi, hci, line, dev, HeldRegion, StoreWindow,
   Disabling, RmwStores
<1>1. CASE IrqHandler
  <2>1. CASE IsrMissed \/ IsrPowerUp
    BY <1>a, <1>b, <1>c, <1>d, <1>e, <1>f, <2>1, Interrupts DEF IsrMissed, Isr, Stays,
       EnLabels, IrqHandler, IsrPowerUp
  <2>2. CASE IsrWrite
    BY <1>a, <1>b, <1>c, <1>d, <1>e, <1>f, <2>2, Interrupts DEF IsrWrite, Isr,
       IsrDeselect, Stays, EnLabels, IrqHandler
  <2>3. CASE IsrRead
    BY <1>a, <1>b, <1>c, <1>d, <1>e, <1>f, <2>3, Interrupts DEF IsrRead, Isr,
       IsrDeselect, Stays, EnLabels, Paused, Resumed, IrqHandler
  <2>4. CASE IsrIgnored
    BY <1>a, <1>b, <1>c, <1>d, <1>e, <1>f, <2>4, Interrupts DEF IsrIgnored, Isr,
       Stays, EnLabels, IrqHandler
  <2>5. QED BY <1>1, <2>1, <2>2, <2>3, <2>4 DEF IrqHandler
<1>2. CASE FlagLoad \/ FlagStore \/ EnableMissed \/ EnablePin
  BY <1>a, <1>b, <1>c, <1>d, <1>e, <1>f, <1>2 DEF FlagLoad, GotoMoved, RmwLoads,
     EnLabels, FlagStore, ReturnMoved, Below, Belongs, EnableMissed, EnablePin,
     MissedPending, CallMoved
<1>3. CASE Handler
  BY <1>a, <1>b, <1>c, <1>d, <1>e, <1>f, <1>3 DEF Handler, HandlerEntry, GotoMoved,
     EnLabels, HandlerDispatch, HandlerRead, CallMoved, HandlerDeselect, CsOff,
     HandlerDeliver, EnableRegion, Reading, HandlerUnsolicited, HandlerWrite
<1>4. CASE SpiWriteStep
  BY <1>a, <1>b, <1>c, <1>d, <1>e, <1>f, <1>4 DEF SpiWriteStep, WriteEntry, GotoMoved,
     CallMoved, EnLabels, WriteClaim, WriteSelect, WriteCheck, PinCheck,
     WriteTransfer, WriteDeselect, CsOff, WriteWait, ReturnMoved
<1>5. CASE Wait
  BY <1>a, <1>b, <1>c, <1>d, <1>e, <1>f, <1>5 DEF Wait, WaitArm, GotoMoved, EnLabels,
     WaitReceived, Received, WaitParse, ReplyTaken, CallMoved, WaitPatch, Send,
     WaitExit
<1>6. CASE App
  BY <1>a, <1>b, <1>c, <1>d, <1>e, <1>f, <1>6 DEF App, Begin, Restart, GotoMoved,
     EnLabels, Belongs, StartOpen, CallMoved, StartEnable, StartWaitHigh,
     StartWaitLow, Send, AppCall, AppStop, PowerDown, StopWaitHigh, SpiClose
<1>7. CASE Device
  BY <1>a, <1>b, <1>c, <1>d, <1>e, <1>f, <1>7 DEF Device, DevPower, Stays, EnLabels,
     DevReady, LowerIrq, DevOff, DevGrant, DevOffer, DevRelease, DevAnswer, DevAsync
<1>8. CASE UNCHANGED vars
  BY <1>a, <1>b, <1>c, <1>d, <1>e, <1>f, <1>8 DEF vars, counts, Stays
<1>9. QED BY <1>1, <1>2, <1>3, <1>4, <1>5, <1>6, <1>7, <1>8 DEF Next, Foreground,
   Finished


\* Outside SpiWrite's claim the interrupt is off only for a packet held.
LEMMA OnStep ==
    ASSUME Safe, HeldRegion, OnRegion, [Next]_vars
    PROVE  OnRegion'
<1>a. GotoMoved /\ CallMoved /\ ReturnMoved /\ Stays
  BY Moved DEF Safe, ReleaseInv, StackMoved
<1>b. Belongs /\ Up
  BY WhereFrom, Powered DEF Safe
<1>c. HeldRegion /\ OnRegion
  BY DEF Safe, SafeInv
<1>d. usEventOrDataReceived \in BOOLEAN
  BY DEF Safe, TypeOK, DriverTypes
<1> USE DEF TopLabels, At, cpu, spi, hci, line, dev, OnRegion, OnLabels, Disabling
<1>1. CASE IrqHandler
  BY <1>a, <1>b, <1>c, <1>d, <1>1, Interrupts DEF IrqHandler, IsrMissed, Isr, Stays,
     IrqHandler, IsrPowerUp, IsrWrite, IsrDeselect, IsrRead, Paused, Resumed,
     StoreWindow, IsrIgnored
<1>2. CASE FlagLoad \/ FlagStore \/ EnableMissed \/ EnablePin
  BY <1>a, <1>b, <1>c, <1>d, <1>2 DEF FlagLoad, GotoMoved, RmwLoads, FlagStore,
     ReturnMoved, RmwStores, Below, EnLabels, IrqLabels, SwLabels, EnableMissed,
     EnablePin, MissedPending, CallMoved
<1>3. CASE Handler
  BY <1>a, <1>b, <1>c, <1>d, <1>3 DEF Handler, HandlerEntry, GotoMoved,
     HandlerDispatch, HandlerRead, CallMoved, HandlerDeselect, CsOff, HandlerDeliver,
     HandlerUnsolicited, HeldRegion, HandlerWrite
<1>4. CASE SpiWriteStep
  BY <1>a, <1>b, <1>c, <1>d, <1>4 DEF SpiWriteStep, WriteEntry, GotoMoved, CallMoved,
     WriteClaim, WriteSelect, WriteCheck, PinCheck, WriteTransfer, WriteDeselect,
     CsOff, WriteWait, ReturnMoved
<1>5. CASE Wait
  BY <1>a, <1>b, <1>c, <1>d, <1>5 DEF Wait, WaitArm, GotoMoved, WaitReceived,
     Received, HeldRegion, WaitParse, ReplyTaken, CallMoved, WaitPatch, Send, WaitExit
<1>6. CASE App
  BY <1>a, <1>b, <1>c, <1>d, <1>6 DEF App, Begin, Restart, GotoMoved, Belongs,
     StartOpen, CallMoved, StartEnable, StartWaitHigh, StartWaitLow, Send, AppCall,
     AppStop, PowerDown, StopWaitHigh, SpiClose
<1>7. CASE Device
  BY <1>a, <1>b, <1>c, <1>d, <1>7 DEF Device, DevPower, Stays, DevReady, LowerIrq,
     DevOff, DevGrant, DevOffer, DevRelease, DevAnswer, DevAsync
<1>8. CASE UNCHANGED vars
  BY <1>a, <1>b, <1>c, <1>d, <1>8 DEF vars, counts, Stays
<1>9. QED BY <1>1, <1>2, <1>3, <1>4, <1>5, <1>6, <1>7, <1>8 DEF Next, Foreground,
   Finished


\* SpiWrite sends with nothing held and nothing missed, and between its transfer and the
\* wait for the answer the device asks for nothing (ArmWindow).
LEMMA WrittenStep ==
    ASSUME Safe, HeldRegion, OnRegion, WrittenRegion, MissedRegion, PromptRelease,
           ArmWindow \subseteq QuietAt, [Next]_vars
    PROVE  WrittenRegion'
<1>a. GotoMoved /\ CallMoved /\ ReturnMoved /\ Stays
  BY Moved DEF Safe, ReleaseInv, StackMoved
<1>b. Belongs /\ Up
  BY WhereFrom, Powered DEF Safe
<1>c. /\ HeldRegion /\ OnRegion /\ WrittenRegion /\ MissedRegion /\ OwedRegion
      /\ UnsentRegion /\ PowerRegion /\ LineRegion /\ NestRegion /\ RequestRegion /\ EnableRegion /\ CsRegion
      /\ PromptRelease /\ ArmWindow \subseteq QuietAt
  BY DEF Safe, SafeInv, ReleaseInv
<1>d. /\ usEventOrDataReceived \in BOOLEAN /\ edge \in BOOLEAN /\ irqLow \in BOOLEAN
      /\ served \in BOOLEAN /\ cs \in BOOLEAN /\ pc \in Labels /\ unsent \in {0, 1}
  BY <1>c DEF Safe, TypeOK, CpuTypes, DriverTypes, DeviceTypes, UnsentRegion
<1>e. Writing => /\ wlanEn /\ devState \notin {"off", "boot"}
                 /\ pc \in EnLabels => ret[1] = "sw_chk"
                 /\ ~Reading /\ pc # "irq_read" /\ ~Disabling("irq_desel")
                 /\ pc \notin {"st_pin", "cl"}
  <2>1. HAVE Writing
  <2>2. wlanEn /\ ~Powering
    BY <2>1, <1>b, <1>c DEF PowerRegion, Writing, Belongs, Powering, TopLabels
  <2>3. devState \notin {"off", "boot"}
    BY <2>2, <1>b DEF Up
  <2>4. OnStack("irq_done") <=> pc \in EnLabels /\ ret[1] = "irq_done"
    BY <1>c, NestMoves DEF NestRegion, Safe, ReleaseInv
  <2>5. pc \in EnLabels => ret[1] = "sw_chk"
    BY <2>1, <2>4, <1>b, <1>c DEF Belongs, NestRegion, Writing, EnLabels, TopLabels
  <2>6. ~Reading /\ pc # "irq_read" /\ ~Disabling("irq_desel") /\ pc \notin {"st_pin", "cl"}
    BY <2>1, <1>b, <1>c DEF Belongs, NestRegion, Writing
  <2>7. QED BY <2>2, <2>3, <2>5, <2>6
\* The interrupt makes the write of SpiWrite only where nothing else is let in.
<1>f. IsrWrite => pc \in ArmWindow
  <2>1. HAVE IsrWrite
  <2>2. "ENABLE" \in intReg /\ ulSpiState = "WRITE_IRQ" /\ IrqHandler /\ edge
    BY <2>1 DEF IsrWrite, IrqHandler, Isr
  <2>3. /\ Writing /\ pc \notin {"sw", "sw_first", "sw_idle", "sw_desel", "sw_cs"}
        /\ pc \notin TopLabels /\ ~Disabling("sw_idle")
    BY <2>2, <1>b DEF Belongs, Safe, ReleaseInv, ClaimRegion
  <2>4. pc \notin {"en", "en_w", "en_pin", "irq_idle", "irq_rx", "st_pin", "cl"}
    BY <2>2, <2>3, <1>c, <1>e DEF EnableRegion, WrittenRegion, Request, Reading, EnLabels
  <2>5. pc \notin {"dis", "dis_w"}
    <3>1. pc \in {"dis", "dis_w"} => ret[1] \in {"sw_idle", "irq_desel", "stopped", "off"}
      BY DEF Safe, ReleaseInv, StackOK, Below, TopLabels, EnLabels, IrqLabels, SwLabels
    <3>2. pc \in {"dis", "dis_w"} /\ ret[1] \in {"stopped", "off"} => Base = ret[1]
      BY Places DEF TopLabels, Safe, ReleaseInv
    <3>3. QED BY <3>1, <3>2, <2>3, <1>e DEF Disabling, Writing
  <2>6. QED BY <2>2, <2>3, <2>4, <2>5, <1>d, Interrupts DEF Labels, RmwLoads, RmwStores, Clocking,
     TopLabels, ArmWindow
\* What it reads while a packet is to be sent is an unsolicited event.
<1>g. IsrRead /\ Writing /\ pc # "wt_exit" => HandledAsUnsolicited(rxBuffer')
  <2>1. HAVE IsrRead /\ Writing /\ pc # "wt_exit"
  <2>2. unsent = 1 /\ Clear /\ rxBuffer' \in Offered
    BY <2>1, <1>c, <1>d, ReadMoves DEF WrittenRegion, IsrRead, Isr, OwedRegion
  <2>3. QED BY <2>2 DEF Clear, HandledAsUnsolicited
<1>h. /\ ParseRegion /\ ClaimRegion
      /\ (pc = "wt_res" => Base = "wt_res") /\ (pc = "wt_exit" => Base = "wt_exit")
  BY <1>b DEF Safe, SafeInv, ReleaseInv, Belongs, TopLabels
<1> USE DEF TopLabels, At, cpu, spi, hci, line, dev, WrittenRegion, Writing, Request,
   ArmWindow, SwLabels
<1>1. CASE IrqHandler
  <2>1. CASE IsrMissed \/ IsrPowerUp \/ IsrWrite \/ IsrIgnored
    BY <1>a, <1>b, <1>c, <1>d, <1>e, <1>h, <2>1, <1>f, <1>g, Interrupts DEF IsrMissed,
       Isr, Stays, EnLabels, IrqHandler, Belongs, OnRegion, OnLabels, IsrPowerUp,
       IsrWrite, IsrDeselect, IsrIgnored, LineRegion
  <2>2. CASE IsrRead
    <3>1. /\ edge /\ edge' = FALSE /\ UNCHANGED <<cpu, unsent>>
          /\ pc = "sw_desel" => served
          /\ IF HandledAsUnsolicited(rxBuffer')
             THEN intReg' = {"ENABLE"} /\ usEventOrDataReceived' = FALSE
             ELSE /\ intReg' = intReg \ {"ENABLE", "PROCESS"}
                  /\ usEventOrDataReceived' = TRUE
      BY <2>2, <1>c DEF IsrRead, Isr, Resumed, Paused, LineRegion, ServedHere
    <3>2. pc # "en_pin" \/ ~Writing
      BY <3>1, <1>c
    <3>3. ~(Writing /\ unsent = 0 /\ pc # "wt_exit") /\ pc # "sw_desel"
      BY <3>1, <1>c DEF LineRegion
    <3>4. UNCHANGED <<pc, ret, Base>>
      BY <3>1, <1>a DEF Stays
    <3>5. QED BY <3>1, <3>2, <3>3, <3>4, <1>c, <1>g, <2>2
  <2>3. QED BY <1>1, <2>1, <2>2 DEF IrqHandler
<1>2. CASE FlagLoad \/ FlagStore \/ EnableMissed \/ EnablePin
  BY <1>a, <1>b, <1>c, <1>d, <1>e, <1>h, <1>2 DEF FlagLoad, GotoMoved, RmwLoads,
     EnLabels, Handled, FlagStore, ReturnMoved, RmwStores, Below, IrqLabels,
     EnableMissed, MissedRegion, EnablePin, MissedPending, CallMoved
<1>3. CASE Handler
  BY <1>a, <1>b, <1>c, <1>d, <1>e, <1>h, <1>3 DEF Handler, HandlerEntry, GotoMoved,
     EnLabels, HandlerDispatch, HandlerRead, CallMoved, HandlerDeselect, CsOff,
     LineRegion, ServedHere, HandlerDeliver, Reading, HandlerUnsolicited,
     HandlerWrite, RequestRegion, Granted, Deliver
<1>4. CASE SpiWriteStep
  <2>1. CASE WriteEntry \/ WriteClaim \/ WriteSelect \/ WriteCheck \/ WriteDeselect \/
     WriteWait
    BY <1>a, <1>b, <1>c, <1>d, <1>e, <1>h, <2>1 DEF WriteEntry, GotoMoved, CallMoved,
       EnLabels, WriteClaim, WriteSelect, WriteCheck, PinCheck, LineRegion,
       ServedHere, Disabling, WriteDeselect, CsOff, WriteWait, ReturnMoved
  <2>2. CASE WriteTransfer
    <3>1. pc \in {"sw_first", "sw_xfer"} /\ ~edge /\ Goto("sw_desel") /\ Deliver
          /\ served' = (served \/ Granted)
          /\ UNCHANGED <<intReg, usEventOrDataReceived, cs, irqLow, edge>>
      BY <2>2 DEF WriteTransfer
    <3>2. Writing /\ unsent = 1
      BY <3>1, <1>b, <1>c, <1>d DEF Belongs
    <3>3. cs /\ Granted
      BY <3>1, <3>2, <1>c, <1>d DEF RequestRegion, UnsentRegion, LineRegion, Granted,
         Disabling
    <3>4. QED BY <3>1, <3>2, <3>3, <1>a, <1>c, <1>d DEF GotoMoved, EnLabels
  <2>3. QED BY <1>4, <2>1, <2>2 DEF SpiWriteStep
<1>5. CASE Wait
  BY <1>a, <1>b, <1>c, <1>d, <1>e, <1>h, <1>5 DEF Wait, WaitArm, GotoMoved, EnLabels,
     WaitReceived, Received, WaitParse, ReplyTaken, CallMoved, WaitPatch, Send,
     MissedRegion, OwedRegion, PowerRegion, ParseRegion, Belongs, WaitExit
<1>6. CASE App
  BY <1>a, <1>b, <1>c, <1>d, <1>e, <1>h, <1>6 DEF App, Begin, Restart, GotoMoved,
     EnLabels, StartOpen, CallMoved, StartEnable, StartWaitHigh, StartWaitLow, Send,
     MissedRegion, OwedRegion, PowerRegion, ParseRegion, Belongs, AppCall, AppStop,
     PowerDown, StopWaitHigh, SpiClose
<1>7. CASE Device
  BY <1>a, <1>b, <1>c, <1>d, <1>e, <1>h, <1>7 DEF Device, DevPower, Stays, EnLabels,
     DevReady, LowerIrq, CsRegion, UnsentRegion, LineRegion, ServedHere, Disabling,
     Up, DevOff, DevGrant, DevOffer, DevRelease, DevAnswer, DevAsync
<1>8. CASE UNCHANGED vars
  BY <1>a, <1>b, <1>c, <1>d, <1>e, <1>h, <1>8 DEF vars, counts, Stays
<1>9. QED BY <1>1, <1>2, <1>3, <1>4, <1>5, <1>6, <1>7, <1>8 DEF Next, Foreground,
   Finished


\* MISSED is set for a request and cleared once it has had its transfer; no store brings
\* it back, but that of the enable that clears it.
LEMMA MissedStep ==
    ASSUME Safe, HeldRegion, OnRegion, WrittenRegion, MissedRegion, PromptRelease,
           [Next]_vars
    PROVE  MissedRegion'
<1>a. GotoMoved /\ CallMoved /\ ReturnMoved /\ Stays
  BY Moved DEF Safe, ReleaseInv, StackMoved
<1>b. Belongs /\ Up
  BY WhereFrom, Powered DEF Safe
<1>c. /\ HeldRegion /\ OnRegion /\ WrittenRegion /\ MissedRegion /\ OwedRegion
      /\ PowerRegion /\ LineRegion /\ RequestRegion /\ HandlerRegion /\ PromptRelease
  BY DEF Safe, SafeInv
<1>d. /\ usEventOrDataReceived \in BOOLEAN /\ edge \in BOOLEAN /\ irqLow \in BOOLEAN
      /\ served \in BOOLEAN /\ wlanEn \in BOOLEAN
  BY DEF Safe, TypeOK, DriverTypes, DeviceTypes
<1>e. wlanEn /\ devState \in {"off", "boot"} => pc \in {"ws_high", "ws_low"} /\ ~edge
  BY <1>b, <1>d DEF Up, Powering, Safe, SafeInv, BootRegion
<1>f. Return => ~(pc' \in EnLabels /\ ret'[1] = "irq_done")
  BY ReturnsOut
<1>g. wlanEn => Base \notin {"off", "stopped", "ws", "ws_pin"}
  BY <1>c, <1>d DEF PowerRegion
<1>h. pc = "ws_pin" => "MISSED" \notin intReg
  BY <1>b, <1>c DEF OwedRegion, Belongs, TopLabels, MissedRegion
<1> USE DEF TopLabels, At, cpu, spi, hci, line, dev, MissedRegion, Request, Handled,
   RmwStores, Disabling
<1>1. CASE IrqHandler
  <2>1. CASE IsrMissed
    BY <1>a, <1>b, <1>c, <1>d, <1>e, <1>f, <1>g, <1>h, <2>1, Interrupts DEF IsrMissed,
       Isr, Stays, EnLabels, IrqHandler, Belongs, OnRegion, OnLabels, HeldRegion
  <2>2. CASE IsrPowerUp
    BY <1>a, <1>b, <1>c, <1>d, <1>e, <1>f, <1>g, <1>h, <2>2, Interrupts DEF
       IsrPowerUp, Isr, Stays, EnLabels, IrqHandler, Belongs
  <2>3. CASE IsrRead \/ IsrIgnored
    BY <1>a, <1>b, <1>c, <1>d, <1>e, <1>f, <1>g, <1>h, <2>3, Interrupts DEF IsrRead,
       Isr, IsrDeselect, Stays, EnLabels, IrqHandler, Belongs, Paused, Resumed,
       StoreWindow, IsrIgnored
  <2>4. CASE IsrWrite
    <3>1. devState' \in {"init", devState}
      BY <2>4, DeliverMoves DEF Safe, SafeInv, UnsentRegion
    <3>2. QED BY <2>4, <3>1, <1>a, <1>c, <1>d, <1>e, Interrupts DEF IrqHandler,
       IsrWrite, Isr, IsrDeselect, Stays, EnLabels
  <2>5. QED BY <1>1, <2>1, <2>2, <2>3, <2>4 DEF IrqHandler
<1>2. CASE FlagLoad \/ FlagStore \/ EnableMissed \/ EnablePin
  <2>1. CASE FlagLoad \/ EnableMissed \/ EnablePin
    BY <1>a, <1>b, <1>c, <1>d, <1>e, <1>f, <1>g, <1>h, <2>1 DEF FlagLoad, GotoMoved,
       RmwLoads, EnLabels, Belongs, EnableMissed, ReturnMoved, Below, EnablePin,
       MissedPending, CallMoved, HandlerRegion, LineRegion, ServedHere
  <2>2. CASE FlagStore
    <3>1. CASE pc = "en_w"
      BY <2>2, <3>1, <1>a, <1>c, <1>d, <1>e, <1>g DEF FlagStore, GotoMoved, EnLabels
    <3>2. CASE pc = "irq_proc_w"
      BY <2>2, <3>2, <1>a, <1>c, <1>d, <1>e, <1>g DEF FlagStore, GotoMoved, EnLabels,
         RequestRegion
    <3>3. CASE pc \in {"irq_miss_w", "irq_done_w"}
      BY <2>2, <3>3, <1>a, <1>b, <1>c, <1>d, <1>e, <1>g DEF FlagStore, ReturnMoved,
         EnLabels
    <3>4. CASE pc = "en_clr_w"
      BY <2>2, <3>4, <1>a, <1>c, <1>d, <1>e, <1>f DEF FlagStore, ReturnMoved, EnLabels
    <3>5. CASE pc = "dis_w"
      <4>1. /\ Return /\ UNCHANGED <<line, dev, wlanEn, hci>>
            /\ intReg' = tmp \ {"ENABLE"} /\ tmp' = {}
        BY <2>2, <3>5 DEF FlagStore
      <4>2. pc' = ret[1] /\ pc' \in {"sw_idle", "irq_desel", "stopped", "off"}
        BY <4>1, <3>5, <1>a DEF ReturnMoved
      <4>3. pc' \in {"stopped", "off"} => ~wlanEn
        BY <4>1, <4>2, <3>5, <1>g, Places DEF TopLabels, Safe, ReleaseInv
      <4>4. QED BY <4>1, <4>2, <4>3, <3>5, <1>c, <1>d, <1>e, <1>g DEF EnLabels
    <3>6. QED BY <2>2, <3>1, <3>2, <3>3, <3>4, <3>5 DEF FlagStore
  <2>3. QED BY <1>2, <2>1, <2>2
<1>3. CASE Handler
  <2>1. CASE HandlerEntry \/ HandlerDispatch \/ HandlerRead \/ HandlerDeselect \/
     HandlerDeliver \/ HandlerUnsolicited
    BY <1>a, <1>b, <1>c, <1>d, <1>e, <1>f, <1>g, <1>h, <2>1 DEF HandlerEntry,
       GotoMoved, EnLabels, HandlerDispatch, HandlerRead, CallMoved, HandlerDeselect,
       CsOff, HandlerDeliver, HandlerUnsolicited
  <2>2. CASE HandlerWrite
    <3>1. devState' \in {"init", devState}
      BY <2>2, DeliverMoves DEF Safe, SafeInv, UnsentRegion
    <3>2. QED BY <2>2, <3>1, <1>a, <1>c, <1>d, <1>e DEF HandlerWrite, GotoMoved, EnLabels
  <2>3. QED BY <1>3, <2>1, <2>2 DEF Handler
<1>4. CASE SpiWriteStep
  BY <1>a, <1>b, <1>c, <1>d, <1>e, <1>f, <1>g, <1>h, <1>4 DEF SpiWriteStep,
     WriteEntry, GotoMoved, CallMoved, EnLabels, WrittenRegion, Below, SwLabels,
     WriteClaim, WriteSelect, WriteCheck, PinCheck, WriteTransfer, WriteDeselect,
     CsOff, WriteWait, ReturnMoved
<1>5. CASE Wait
  BY <1>a, <1>b, <1>c, <1>d, <1>e, <1>f, <1>g, <1>h, <1>5 DEF Wait, WaitArm,
     GotoMoved, EnLabels, Belongs, PowerRegion, WaitReceived, Received, WaitParse,
     ReplyTaken, CallMoved, WaitPatch, Send, WaitExit
<1>6. CASE App
  BY <1>a, <1>b, <1>c, <1>d, <1>e, <1>f, <1>g, <1>h, <1>6 DEF App, Begin, Restart,
     GotoMoved, EnLabels, Belongs, PowerRegion, StartOpen, CallMoved, StartEnable,
     StartWaitHigh, StartWaitLow, Send, AppCall, AppStop, PowerDown, StopWaitHigh,
     SpiClose
<1>7. CASE Device
  BY <1>a, <1>b, <1>c, <1>d, <1>e, <1>f, <1>g, <1>h, <1>7 DEF Device, DevPower, Stays,
     EnLabels, DevReady, LowerIrq, DevOff, DevGrant, DevOffer, DevRelease, DevAnswer,
     DevAsync
<1>8. CASE UNCHANGED vars
  BY <1>a, <1>b, <1>c, <1>d, <1>e, <1>f, <1>g, <1>h, <1>8 DEF vars, counts, Stays
<1>9. QED BY <1>1, <1>2, <1>3, <1>4, <1>5, <1>6, <1>7, <1>8 DEF Next, Foreground,
   Finished


\* A request is recorded by the interrupt that takes its edge, and the record is cleared
\* only after its transfer: nothing else asks while it is (HandlerWindow), and the one
\* store that could lose it is that of the enable (en_w).
LEMMA LostStep ==
    ASSUME Safe, HeldRegion, OnRegion, WrittenRegion, MissedRegion, LostRegion,
           PromptRelease, MissedWindow \subseteq QuietAt, [Next]_vars
    PROVE  LostRegion'
<1>a. GotoMoved /\ CallMoved /\ ReturnMoved /\ Stays
  BY Moved DEF Safe, ReleaseInv, StackMoved
<1>b. Belongs /\ Up
  BY WhereFrom, Powered DEF Safe
<1>c. /\ HeldRegion /\ OnRegion /\ WrittenRegion /\ MissedRegion /\ LostRegion
      /\ PowerRegion /\ LineRegion /\ RequestRegion /\ NestRegion /\ EnableRegion
      /\ ProcessRegion /\ StateRegion /\ CsRegion
      /\ PromptRelease /\ MissedWindow \subseteq QuietAt
  BY DEF Safe, SafeInv, ReleaseInv
<1>d. /\ usEventOrDataReceived \in BOOLEAN /\ edge \in BOOLEAN /\ irqLow \in BOOLEAN
      /\ served \in BOOLEAN /\ wlanEn \in BOOLEAN /\ cs \in BOOLEAN
  BY DEF Safe, TypeOK, DriverTypes, DeviceTypes
<1>e. wlanEn /\ Starting => pc \in {"ws_high", "ws_low", "sw", "sw_first"}
  BY <1>b DEF Up, Powering
<1>f. Return => ~(pc' \in EnLabels /\ ret'[1] = "irq_done")
  BY ReturnsOut
<1>g. wlanEn => Base \notin {"off", "stopped", "ws", "ws_pin"}
  BY <1>c, <1>d DEF PowerRegion
<1>h. /\ OnStack("irq_done") <=> pc \in EnLabels /\ ret[1] = "irq_done"
      /\ Handled /\ ulSpiState = "WRITE_IRQ" =>
            ~(pc \in EnLabels /\ ret[1] = "irq_done") /\ ~Reading
  BY <1>b, <1>c, NestMoves DEF NestRegion, Safe, ReleaseInv, Belongs, Writing
<1>i. cs => \/ ulSpiState = "WRITE_IRQ" \/ Disabling("irq_desel")
            \/ pc \in {"irq_read", "irq_desel", "irq_wdesel", "sw_first", "sw_desel"}
  BY <1>c DEF CsRegion, Disabling
\* An interrupt that comes while the last request is being cleared is SpiWrite's.
<1>j. IrqHandler /\ (Handled \/ pc \in {"en_w", "en_missed"}) =>
         \/ pc = "en_pin"
         \/ pc = "en_w" /\ ulSpiState = "WRITE_IRQ"
         \/ "ENABLE" \in intReg /\ ulSpiState = "WRITE_IRQ"
  <2>1. HAVE IrqHandler /\ (Handled \/ pc \in {"en_w", "en_missed"})
  <2>2. CASE pc = "en_pin"
    BY <2>2
  <2>3. CASE pc # "en_pin"
    <3>1. cs
      BY <2>1, <2>3, <1>c, Interrupts DEF LostRegion
    <3>2. ulSpiState = "WRITE_IRQ" /\ Writing
      BY <3>1, <2>1, <1>b, <1>i, Interrupts DEF Handled, Belongs, Disabling, EnLabels
    <3>3. CASE pc = "en_w"
      BY <3>2, <3>3
    <3>4. CASE pc # "en_w"
      <4>1. pc \in OnLabels
        BY <2>1, <2>3, <3>2, <3>4, <1>h, Interrupts DEF Handled, Disabling, OnLabels, Reading, EnLabels
      <4>2. QED BY <4>1, <3>2, <1>b, <1>c DEF OnRegion, WrittenRegion, Belongs, TopLabels
    <3>5. QED BY <3>3, <3>4
  <2>4. QED BY <2>2, <2>3
<1>k. pc = "en_pin" => "ENABLE" \in intReg
  BY <1>c DEF OnRegion, OnLabels, LostRegion
<1>m. /\ pc \in {"dis", "dis_w"} =>
            Disabling("sw_idle") \/ Disabling("irq_desel") \/ Base \in {"stopped", "off"}
      /\ OnStack("irq_desel") => Disabling("irq_desel")
      /\ ulSpiState \in States
  BY Places DEF Safe, ReleaseInv, Below, TopLabels, EnLabels, IrqLabels, SwLabels, Disabling,
     TypeOK, DriverTypes
<1>l. IrqHandler /\ Disabling("sw_idle") => "ENABLE" \in intReg
  BY <1>b, <1>c DEF OnRegion, WrittenRegion, Belongs, Disabling, TopLabels
<1> USE DEF TopLabels, At, cpu, spi, hci, line, dev, LostRegion, Request, RmwStores,
   Disabling, Handled, EnLabels, Starting
<1>1. CASE IrqHandler
  <2>1. CASE IsrPowerUp \/ IsrWrite
    BY <1>a, <1>b, <1>c, <1>d, <1>e, <1>f, <1>g, <1>h, <2>1, <1>i, <1>j, <1>k, <1>l,
       <1>m, Interrupts DEF IsrPowerUp, Isr, Stays, IrqHandler, Belongs, IsrWrite,
       IsrDeselect
  <2>2. CASE IsrRead \/ IsrIgnored
    BY <1>a, <1>b, <1>c, <1>d, <1>e, <1>f, <1>g, <1>h, <2>2, <1>i, <1>j, <1>k, <1>l,
       <1>m, Interrupts DEF IsrRead, Isr, IsrDeselect, Stays, IrqHandler, Belongs,
       IsrIgnored, StateRegion, EnableRegion, Reading, States
  <2>3. CASE IsrMissed
    <3>1. (Request /\ wlanEn /\ ~Starting => "MISSED" \in intReg
            \/ (ulSpiState = "WRITE_IRQ" /\ pc \in {"en_missed", "sw_chk", "sw_xfer"}))'
      BY <1>a, <1>b, <1>c, <1>d, <1>e, <1>f, <1>g, <1>h, <2>3, <1>1, <1>i, <1>j, <1>k,
         <1>l, <1>m, Interrupts DEF IsrMissed, Isr, Stays, IrqHandler, Belongs, Up
    <3>2. (Request /\ wlanEn /\ ~Starting /\ pc \in RmwStores =>
            "MISSED" \in tmp \/ (pc = "en_w" /\ ulSpiState = "WRITE_IRQ"))'
      BY <1>a, <1>b, <1>c, <1>d, <1>e, <1>f, <1>g, <1>h, <2>3, <1>1, <1>i, <1>j, <1>k,
         <1>l, <1>m, Interrupts DEF IsrMissed, Isr, Stays, IrqHandler, Belongs, Up
    <3>3. (Handled /\ wlanEn => ~Request /\ (edge => cs \/ pc = "en_pin"))'
      BY <1>a, <1>b, <1>c, <1>d, <1>e, <1>f, <1>g, <1>h, <2>3, <1>1, <1>i, <1>j, <1>k,
         <1>l, <1>m, Interrupts DEF IsrMissed, Isr, Stays, IrqHandler, Belongs, Up
    <3>4. (pc \in {"en_w", "en_missed"} /\ edge => cs)'
      BY <1>a, <1>b, <1>c, <1>d, <1>e, <1>f, <1>g, <1>h, <2>3, <1>1, <1>i, <1>j, <1>k,
         <1>l, <1>m, Interrupts DEF IsrMissed, Isr, Stays, IrqHandler, Belongs, Up
    <3>5. (pc = "en_pin" /\ ret[1] # "irq_done" /\ wlanEn => Request)'
      BY <1>a, <1>b, <1>c, <1>d, <1>e, <1>f, <1>g, <1>h, <2>3, <1>1, <1>i, <1>j, <1>k,
         <1>l, <1>m, Interrupts DEF IsrMissed, Isr, Stays, IrqHandler, Belongs, Up
    <3>6. (pc \in {"en_missed", "en_pin", "irq", "irq_miss", "irq_miss_w"} =>
            ~usEventOrDataReceived)'
      BY <1>a, <1>b, <1>c, <1>d, <1>e, <1>f, <1>g, <1>h, <2>3, <1>1, <1>i, <1>j, <1>k,
         <1>l, <1>m, Interrupts DEF IsrMissed, Isr, Stays, IrqHandler, Belongs, Up
    <3>7. QED BY <3>1, <3>2, <3>3, <3>4, <3>5, <3>6
  <2>4. QED BY <1>1, <2>1, <2>2, <2>3 DEF IrqHandler
<1>2. CASE FlagLoad \/ FlagStore \/ EnableMissed \/ EnablePin
  <2>1. CASE FlagLoad \/ EnableMissed
    BY <1>a, <1>b, <1>c, <1>d, <1>e, <1>f, <1>g, <1>h, <2>1 DEF FlagLoad, GotoMoved,
       RmwLoads, EnableMissed, ReturnMoved, MissedRegion, Belongs, Writing
  <2>2. CASE FlagStore
    <3>1. (Request /\ wlanEn /\ ~Starting => "MISSED" \in intReg
            \/ (ulSpiState = "WRITE_IRQ" /\ pc \in {"en_missed", "sw_chk", "sw_xfer"}))'
      BY <1>a, <1>b, <1>c, <1>d, <1>e, <1>f, <1>g, <1>h, <2>2 DEF FlagStore,
         GotoMoved, ReturnMoved, Belongs, Up, OnRegion, HeldRegion, RmwStores
    <3>2. (Request /\ wlanEn /\ ~Starting /\ pc \in RmwStores =>
            "MISSED" \in tmp \/ (pc = "en_w" /\ ulSpiState = "WRITE_IRQ"))'
      BY <1>a, <1>b, <1>c, <1>d, <1>e, <1>f, <1>g, <1>h, <2>2 DEF FlagStore,
         GotoMoved, ReturnMoved, Belongs, Up, OnRegion, HeldRegion, RmwStores
    <3>3. (Handled /\ wlanEn => ~Request /\ (edge => cs \/ pc = "en_pin"))'
      BY <1>a, <1>b, <1>c, <1>d, <1>e, <1>f, <1>g, <1>h, <2>2 DEF FlagStore,
         GotoMoved, ReturnMoved, Belongs, Up, OnRegion, HeldRegion, RmwStores
    <3>4. (pc \in {"en_w", "en_missed"} /\ edge => cs)'
      BY <1>a, <1>b, <1>c, <1>d, <1>e, <1>f, <1>g, <1>h, <2>2 DEF FlagStore,
         GotoMoved, ReturnMoved, Belongs, Up, OnRegion, HeldRegion, RmwStores
    <3>5. (pc = "en_pin" /\ ret[1] # "irq_done" /\ wlanEn => Request)'
      BY <1>a, <1>b, <1>c, <1>d, <1>e, <1>f, <1>g, <1>h, <2>2 DEF FlagStore,
         GotoMoved, ReturnMoved, Belongs, Up, OnRegion, HeldRegion, RmwStores
    <3>6. (pc \in {"en_missed", "en_pin", "irq", "irq_miss", "irq_miss_w"} =>
            ~usEventOrDataReceived)'
      BY <1>a, <1>b, <1>c, <1>d, <1>e, <1>f, <1>g, <1>h, <2>2 DEF FlagStore,
         GotoMoved, ReturnMoved, Belongs, Up, OnRegion, HeldRegion, RmwStores
    <3>7. QED BY <3>1, <3>2, <3>3, <3>4, <3>5, <3>6
  <2>3. CASE EnablePin
    <3>1. (Request /\ wlanEn /\ ~Starting => "MISSED" \in intReg
            \/ (ulSpiState = "WRITE_IRQ" /\ pc \in {"en_missed", "sw_chk", "sw_xfer"}))'
      BY <1>a, <1>b, <1>c, <1>d, <1>e, <1>f, <1>g, <1>h, <2>3, <1>m DEF EnablePin,
         EnLabels, MissedPending, GotoMoved, CallMoved, ProcessRegion, InHandler,
         LineRegion, ServedHere
    <3>2. (Request /\ wlanEn /\ ~Starting /\ pc \in RmwStores =>
            "MISSED" \in tmp \/ (pc = "en_w" /\ ulSpiState = "WRITE_IRQ"))'
      BY <1>a, <1>b, <1>c, <1>d, <1>e, <1>f, <1>g, <1>h, <2>3, <1>m DEF EnablePin,
         EnLabels, MissedPending, GotoMoved, CallMoved, ProcessRegion, InHandler,
         LineRegion, ServedHere
    <3>3. (Handled /\ wlanEn => ~Request /\ (edge => cs \/ pc = "en_pin"))'
      BY <1>a, <1>b, <1>c, <1>d, <1>e, <1>f, <1>g, <1>h, <2>3, <1>m DEF EnablePin,
         EnLabels, MissedPending, GotoMoved, CallMoved, ProcessRegion, InHandler,
         LineRegion, ServedHere
    <3>4. (pc \in {"en_w", "en_missed"} /\ edge => cs)'
      BY <1>a, <1>b, <1>c, <1>d, <1>e, <1>f, <1>g, <1>h, <2>3, <1>m DEF EnablePin,
         EnLabels, MissedPending, GotoMoved, CallMoved, ProcessRegion, InHandler,
         LineRegion, ServedHere
    <3>5. (pc = "en_pin" /\ ret[1] # "irq_done" /\ wlanEn => Request)'
      BY <1>a, <1>b, <1>c, <1>d, <1>e, <1>f, <1>g, <1>h, <2>3, <1>m DEF EnablePin,
         EnLabels, MissedPending, GotoMoved, CallMoved, ProcessRegion, InHandler,
         LineRegion, ServedHere
    <3>6. (pc \in {"en_missed", "en_pin", "irq", "irq_miss", "irq_miss_w"} =>
            ~usEventOrDataReceived)'
      BY <1>a, <1>b, <1>c, <1>d, <1>e, <1>f, <1>g, <1>h, <2>3, <1>m DEF EnablePin,
         EnLabels, MissedPending, GotoMoved, CallMoved, ProcessRegion, InHandler,
         LineRegion, ServedHere
    <3>7. QED BY <3>1, <3>2, <3>3, <3>4, <3>5, <3>6
  <2>4. QED BY <1>2, <2>1, <2>2, <2>3
<1>3. CASE Handler
  <2>1. CASE HandlerEntry \/ HandlerRead \/ HandlerDeselect \/ HandlerDeliver \/
     HandlerUnsolicited \/ HandlerWrite
    BY <1>a, <1>b, <1>c, <1>d, <1>e, <1>f, <1>g, <1>h, <2>1 DEF HandlerEntry,
       GotoMoved, OnRegion, OnLabels, HandlerRead, CallMoved, RequestRegion,
       LineRegion, ServedHere, Granted, HandlerDeselect, CsOff, HandlerDeliver,
       HandlerUnsolicited, HandlerWrite
  <2>2. CASE HandlerDispatch
    <3>1. (Request /\ wlanEn /\ ~Starting => "MISSED" \in intReg
            \/ (ulSpiState = "WRITE_IRQ" /\ pc \in {"en_missed", "sw_chk", "sw_xfer"}))'
      BY <1>a, <1>b, <1>c, <1>d, <1>e, <1>f, <1>g, <1>h, <2>2, <1>m DEF
         HandlerDispatch, GotoMoved, StateRegion, Up, IrqLabels, States, Belongs
    <3>2. (Request /\ wlanEn /\ ~Starting /\ pc \in RmwStores =>
            "MISSED" \in tmp \/ (pc = "en_w" /\ ulSpiState = "WRITE_IRQ"))'
      BY <1>a, <1>b, <1>c, <1>d, <1>e, <1>f, <1>g, <1>h, <2>2, <1>m DEF
         HandlerDispatch, GotoMoved, StateRegion, Up, IrqLabels, States, Belongs
    <3>3. (Handled /\ wlanEn => ~Request /\ (edge => cs \/ pc = "en_pin"))'
      BY <1>a, <1>b, <1>c, <1>d, <1>e, <1>f, <1>g, <1>h, <2>2, <1>m DEF
         HandlerDispatch, GotoMoved, StateRegion, Up, IrqLabels, States, Belongs
    <3>4. (pc \in {"en_w", "en_missed"} /\ edge => cs)'
      BY <1>a, <1>b, <1>c, <1>d, <1>e, <1>f, <1>g, <1>h, <2>2, <1>m DEF
         HandlerDispatch, GotoMoved, StateRegion, Up, IrqLabels, States, Belongs
    <3>5. (pc = "en_pin" /\ ret[1] # "irq_done" /\ wlanEn => Request)'
      BY <1>a, <1>b, <1>c, <1>d, <1>e, <1>f, <1>g, <1>h, <2>2, <1>m DEF
         HandlerDispatch, GotoMoved, StateRegion, Up, IrqLabels, States, Belongs
    <3>6. (pc \in {"en_missed", "en_pin", "irq", "irq_miss", "irq_miss_w"} =>
            ~usEventOrDataReceived)'
      BY <1>a, <1>b, <1>c, <1>d, <1>e, <1>f, <1>g, <1>h, <2>2, <1>m DEF
         HandlerDispatch, GotoMoved, StateRegion, Up, IrqLabels, States, Belongs
    <3>7. QED BY <3>1, <3>2, <3>3, <3>4, <3>5, <3>6
  <2>3. QED BY <1>3, <2>1, <2>2 DEF Handler
<1>4. CASE SpiWriteStep
  <2>1. CASE WriteEntry \/ WriteClaim \/ WriteSelect \/ WriteCheck \/ WriteDeselect \/
     WriteWait
    BY <1>a, <1>b, <1>c, <1>d, <1>e, <1>f, <1>g, <1>h, <2>1 DEF WriteEntry, GotoMoved,
       CallMoved, WrittenRegion, LineRegion, RequestRegion, WriteClaim, WriteSelect,
       WriteCheck, PinCheck, WriteDeselect, CsOff, WriteWait, ReturnMoved
  <2>2. CASE WriteTransfer
    <3>1. (Request /\ wlanEn /\ ~Starting => "MISSED" \in intReg
            \/ (ulSpiState = "WRITE_IRQ" /\ pc \in {"en_missed", "sw_chk", "sw_xfer"}))'
      BY <1>a, <1>b, <1>c, <1>d, <1>e, <1>f, <1>g, <1>h, <2>2 DEF WriteTransfer,
         GotoMoved, RequestRegion, Granted, LineRegion, Up
    <3>2. (Request /\ wlanEn /\ ~Starting /\ pc \in RmwStores =>
            "MISSED" \in tmp \/ (pc = "en_w" /\ ulSpiState = "WRITE_IRQ"))'
      BY <1>a, <1>b, <1>c, <1>d, <1>e, <1>f, <1>g, <1>h, <2>2 DEF WriteTransfer,
         GotoMoved, RequestRegion, Granted, LineRegion, Up
    <3>3. (Handled /\ wlanEn => ~Request /\ (edge => cs \/ pc = "en_pin"))'
      BY <1>a, <1>b, <1>c, <1>d, <1>e, <1>f, <1>g, <1>h, <2>2 DEF WriteTransfer,
         GotoMoved, RequestRegion, Granted, LineRegion, Up
    <3>4. (pc \in {"en_w", "en_missed"} /\ edge => cs)'
      BY <1>a, <1>b, <1>c, <1>d, <1>e, <1>f, <1>g, <1>h, <2>2 DEF WriteTransfer,
         GotoMoved, RequestRegion, Granted, LineRegion, Up
    <3>5. (pc = "en_pin" /\ ret[1] # "irq_done" /\ wlanEn => Request)'
      BY <1>a, <1>b, <1>c, <1>d, <1>e, <1>f, <1>g, <1>h, <2>2 DEF WriteTransfer,
         GotoMoved, RequestRegion, Granted, LineRegion, Up
    <3>6. (pc \in {"en_missed", "en_pin", "irq", "irq_miss", "irq_miss_w"} =>
            ~usEventOrDataReceived)'
      BY <1>a, <1>b, <1>c, <1>d, <1>e, <1>f, <1>g, <1>h, <2>2 DEF WriteTransfer,
         GotoMoved, RequestRegion, Granted, LineRegion, Up
    <3>7. QED BY <3>1, <3>2, <3>3, <3>4, <3>5, <3>6
  <2>3. QED BY <1>4, <2>1, <2>2 DEF SpiWriteStep
<1>5. CASE Wait
  BY <1>a, <1>b, <1>c, <1>d, <1>e, <1>f, <1>g, <1>h, <1>5 DEF Wait, WaitArm,
     GotoMoved, Belongs, PowerRegion, WaitReceived, Received, WaitParse, ReplyTaken,
     CallMoved, WaitPatch, Send, WaitExit
<1>6. CASE App
  BY <1>a, <1>b, <1>c, <1>d, <1>e, <1>f, <1>g, <1>h, <1>6 DEF App, Begin, Restart,
     GotoMoved, Belongs, PowerRegion, StartOpen, CallMoved, StartEnable,
     StartWaitHigh, StartWaitLow, Send, AppCall, AppStop, PowerDown, StopWaitHigh,
     SpiClose
<1>7. CASE Device
  <2>1. CASE DevOff \/ DevGrant \/ DevOffer \/ DevRelease \/ DevAnswer \/ DevAsync
    BY <1>a, <1>b, <1>c, <1>d, <1>e, <1>f, <1>g, <1>h, <2>1 DEF DevOff, Stays,
       LineRegion, ServedHere, MissedWindow, ArmWindow, FlagWindow, StoreWindow,
       HandlerWindow, DevGrant, LowerIrq, DevOffer, DevRelease, DevAnswer, DevAsync
  <2>2. CASE DevPower
    <3>1. (Request /\ wlanEn /\ ~Starting => "MISSED" \in intReg
            \/ (ulSpiState = "WRITE_IRQ" /\ pc \in {"en_missed", "sw_chk", "sw_xfer"}))'
      BY <1>a, <1>b, <1>c, <1>d, <1>e, <1>f, <1>g, <1>h, <2>2 DEF DevPower, Stays, Up
    <3>2. (Request /\ wlanEn /\ ~Starting /\ pc \in RmwStores =>
            "MISSED" \in tmp \/ (pc = "en_w" /\ ulSpiState = "WRITE_IRQ"))'
      BY <1>a, <1>b, <1>c, <1>d, <1>e, <1>f, <1>g, <1>h, <2>2 DEF DevPower, Stays, Up
    <3>3. (Handled /\ wlanEn => ~Request /\ (edge => cs \/ pc = "en_pin"))'
      BY <1>a, <1>b, <1>c, <1>d, <1>e, <1>f, <1>g, <1>h, <2>2 DEF DevPower, Stays, Up
    <3>4. (pc \in {"en_w", "en_missed"} /\ edge => cs)'
      BY <1>a, <1>b, <1>c, <1>d, <1>e, <1>f, <1>g, <1>h, <2>2 DEF DevPower, Stays, Up
    <3>5. (pc = "en_pin" /\ ret[1] # "irq_done" /\ wlanEn => Request)'
      BY <1>a, <1>b, <1>c, <1>d, <1>e, <1>f, <1>g, <1>h, <2>2 DEF DevPower, Stays, Up
    <3>6. (pc \in {"en_missed", "en_pin", "irq", "irq_miss", "irq_miss_w"} =>
            ~usEventOrDataReceived)'
      BY <1>a, <1>b, <1>c, <1>d, <1>e, <1>f, <1>g, <1>h, <2>2 DEF DevPower, Stays, Up
    <3>7. QED BY <3>1, <3>2, <3>3, <3>4, <3>5, <3>6
  <2>3. CASE DevReady
    <3>1. (Request /\ wlanEn /\ ~Starting => "MISSED" \in intReg
            \/ (ulSpiState = "WRITE_IRQ" /\ pc \in {"en_missed", "sw_chk", "sw_xfer"}))'
      BY <1>a, <1>b, <1>c, <1>d, <1>e, <1>f, <1>g, <1>h, <2>3 DEF DevReady, LowerIrq,
         Stays, Up
    <3>2. (Request /\ wlanEn /\ ~Starting /\ pc \in RmwStores =>
            "MISSED" \in tmp \/ (pc = "en_w" /\ ulSpiState = "WRITE_IRQ"))'
      BY <1>a, <1>b, <1>c, <1>d, <1>e, <1>f, <1>g, <1>h, <2>3 DEF DevReady, LowerIrq,
         Stays, Up
    <3>3. (Handled /\ wlanEn => ~Request /\ (edge => cs \/ pc = "en_pin"))'
      BY <1>a, <1>b, <1>c, <1>d, <1>e, <1>f, <1>g, <1>h, <2>3 DEF DevReady, LowerIrq,
         Stays, Up
    <3>4. (pc \in {"en_w", "en_missed"} /\ edge => cs)'
      BY <1>a, <1>b, <1>c, <1>d, <1>e, <1>f, <1>g, <1>h, <2>3 DEF DevReady, LowerIrq,
         Stays, Up
    <3>5. (pc = "en_pin" /\ ret[1] # "irq_done" /\ wlanEn => Request)'
      BY <1>a, <1>b, <1>c, <1>d, <1>e, <1>f, <1>g, <1>h, <2>3 DEF DevReady, LowerIrq,
         Stays, Up
    <3>6. (pc \in {"en_missed", "en_pin", "irq", "irq_miss", "irq_miss_w"} =>
            ~usEventOrDataReceived)'
      BY <1>a, <1>b, <1>c, <1>d, <1>e, <1>f, <1>g, <1>h, <2>3 DEF DevReady, LowerIrq,
         Stays, Up
    <3>7. QED BY <3>1, <3>2, <3>3, <3>4, <3>5, <3>6
  <2>4. QED BY <1>7, <2>1, <2>2, <2>3 DEF Device
<1>8. CASE UNCHANGED vars
  BY <1>a, <1>b, <1>c, <1>d, <1>e, <1>f, <1>g, <1>h, <1>8 DEF vars, counts, Stays
<1>9. QED BY <1>1, <1>2, <1>3, <1>4, <1>5, <1>6, <1>7, <1>8 DEF Next, Foreground,
   Finished


\* The patch request is offered, held and parsed before the device is up: nothing that may
\* replace it in wlan_rx_buffer is offered until it is answered.
LEMMA PatchStep ==
    ASSUME Safe, HeldRegion, PatchRegion, PromptRelease, ~EventsInInit, [Next]_vars
    PROVE  PatchRegion'
<1>a. GotoMoved /\ CallMoved /\ ReturnMoved /\ Stays
  BY Moved DEF Safe, ReleaseInv, StackMoved
<1>b. Belongs /\ Up
  BY WhereFrom, Powered DEF Safe
<1>c. /\ HeldRegion /\ PatchRegion /\ PowerRegion /\ BootRegion /\ QueueRegion
      /\ OwedRegion /\ ParseRegion /\ UnsentRegion /\ ~EventsInInit
  BY DEF Safe, SafeInv
<1>d. /\ usEventOrDataReceived \in BOOLEAN /\ wlanEn \in BOOLEAN /\ EventsInInit \in BOOLEAN
      /\ outq \in Seq(Packets) /\ unsent \in Int
  BY SpiLinkAssumption DEF Safe, TypeOK, DriverTypes, DeviceTypes
\* A packet read is the first the device offers; it never replaces a patch request.
<1>e. IsrRead \/ HandlerRead =>
         /\ rxBuffer' \in Offered /\ Offered' \subseteq Offered /\ UNCHANGED <<devTodo, devState>>
         /\ ~(Base = "wt_res" /\ parsed = "patch")
  BY <1>c, ReadMoves DEF PatchRegion, ParseRegion
\* A START is delivered to a device that is ready, and offers nothing.
<1>f. IsrWrite \/ HandlerWrite \/ WriteTransfer =>
         /\ UNCHANGED <<outq, Offered, tx, rxBuffer>> /\ unsent' = 0
         /\ \/ UNCHANGED <<devTodo, devState>>
            \/ unsent = 1 /\ devTodo' = tx /\ tx # "START" /\ UNCHANGED devState
            \/ unsent = 1 /\ devTodo' = "START" /\ devState' = "init" /\ Offered = {}
  <2>1. HAVE IsrWrite \/ HandlerWrite \/ WriteTransfer
  <2>2. UNCHANGED <<outq, tx, rxBuffer>> /\ unsent' = 0
    BY <2>1, DeliverMoves
  <2>3. UNCHANGED Offered
    BY <2>2 DEF Offered
  <2>4. devState = "ready" => Offered = {}
    BY <1>c, <1>d, OfferedMoves DEF BootRegion
  <2>5. QED BY <2>1, <2>2, <2>3, <2>4, <1>c, DeliverMoves DEF PatchRegion
<1>g. UNCHANGED outq => UNCHANGED Offered
  BY DEF Offered
<1>h. devState \in {"off", "boot", "ready"} => Offered = {}
  BY <1>c, <1>d, OfferedMoves DEF BootRegion
<1> USE DEF TopLabels, At, cpu, spi, hci, line, dev, PatchRegion, Disabling, Writing,
   SwLabels
<1>1. CASE IrqHandler
  BY <1>a, <1>b, <1>c, <1>d, <1>e, <1>f, <1>g, <1>h, <1>1 DEF IrqHandler, IsrMissed,
     Isr, Stays, UnsentRegion, Belongs, IsrPowerUp, IsrWrite, IsrDeselect, IsrRead,
     IsrIgnored
<1>2. CASE FlagLoad \/ FlagStore \/ EnableMissed \/ EnablePin
  BY <1>a, <1>b, <1>c, <1>d, <1>e, <1>f, <1>g, <1>h, <1>2 DEF FlagLoad, GotoMoved,
     RmwLoads, UnsentRegion, Belongs, FlagStore, ReturnMoved, RmwStores, EnableMissed,
     EnablePin, MissedPending, CallMoved
<1>3. CASE Handler
  BY <1>a, <1>b, <1>c, <1>d, <1>e, <1>f, <1>g, <1>h, <1>3 DEF Handler, HandlerEntry,
     GotoMoved, UnsentRegion, Belongs, HandlerDispatch, HandlerRead, CallMoved,
     ParseRegion, HeldRegion, Reading, HandlerDeselect, CsOff, HandlerDeliver,
     HandlerUnsolicited, HandlerWrite
<1>4. CASE SpiWriteStep
  BY <1>a, <1>b, <1>c, <1>d, <1>e, <1>f, <1>g, <1>h, <1>4 DEF SpiWriteStep,
     WriteEntry, GotoMoved, CallMoved, UnsentRegion, Belongs, WriteClaim, WriteSelect,
     WriteCheck, PinCheck, WriteTransfer, WriteDeselect, CsOff, WriteWait, ReturnMoved
<1>5. CASE Wait
  BY <1>a, <1>b, <1>c, <1>d, <1>e, <1>f, <1>g, <1>h, <1>5 DEF Wait, WaitArm,
     GotoMoved, UnsentRegion, Belongs, WaitReceived, Received, WaitParse, ReplyTaken,
     CallMoved, ParseRegion, WaitPatch, Send, WaitExit
<1>6. CASE App
  BY <1>a, <1>b, <1>c, <1>d, <1>e, <1>f, <1>g, <1>h, <1>6 DEF App, Begin, Restart,
     GotoMoved, UnsentRegion, Belongs, StartOpen, CallMoved, OwedRegion, StartEnable,
     StartWaitHigh, StartWaitLow, Send, PowerRegion, AppCall, AppStop, PowerDown,
     StopWaitHigh, SpiClose
<1>7. CASE Device
  <2>1. CASE DevPower \/ DevReady \/ DevGrant \/ DevOffer \/ DevRelease
    BY <1>a, <1>b, <1>c, <1>d, <1>e, <1>f, <1>g, <1>h, <2>1 DEF DevPower, Stays,
       UnsentRegion, Belongs, DevReady, LowerIrq, DevGrant, DevOffer, DevRelease
  <2>2. CASE DevOff
    <3>1. Offered' = {}
      BY <2>2, <1>d, OfferedMoves DEF DevOff
    <3>2. ~usEventOrDataReceived /\ Base \in {"off", "stopped", "ws", "ws_pin"}
      BY <2>2, <1>c, <1>d DEF DevOff, OwedRegion, PowerRegion
    <3>3. QED BY <2>2, <3>1, <3>2, <1>a, <1>b, <1>c DEF DevOff, Stays, OwedRegion,
       Clear, Belongs, UnsentRegion, Up
  <2>3. CASE DevAnswer
    <3>1. \/ Offered' = Offered \cup {"reply"} /\ devState' = "up"
          \/ devTodo = "START" /\ Offered' = Offered \cup {"patch"} /\ UNCHANGED devState
          \/ devTodo = "RECV" /\ Offered' = Offered \cup {"replyData", "data"} /\
             UNCHANGED devState
      BY <2>3, <1>d, OfferedMoves DEF DevAnswer
    <3>2. Offered \subseteq {"async"} /\ Owed /\ devTodo # "none" /\ devTodo' = "none"
       /\ unsent # 1
      BY <2>3, <1>c DEF DevAnswer, QueueRegion, Owed, OwedRegion, Clear
    <3>3. QED BY <2>3, <3>1, <3>2, <1>a, <1>b, <1>c DEF DevAnswer, Stays, OwedRegion,
       ParseRegion, Clear, Belongs
  <2>4. CASE DevAsync
    <3>1. Offered' = Offered \cup {"async"} /\ devState = "up"
      BY <2>4, <1>c, <1>d, OfferedMoves DEF DevAsync
    <3>2. QED BY <2>4, <3>1, <1>a, <1>b, <1>c DEF DevAsync, Stays
  <2>5. QED BY <1>7, <2>1, <2>2, <2>3, <2>4 DEF Device
<1>8. CASE UNCHANGED vars
  BY <1>a, <1>b, <1>c, <1>d, <1>e, <1>f, <1>g, <1>h, <1>8 DEF vars, counts, Stays
<1>9. QED BY <1>1, <1>2, <1>3, <1>4, <1>5, <1>6, <1>7, <1>8 DEF Next, Foreground,
   Finished


-----------------------------------------------------------------------------
(* The three properties.                                                      *)

\* Initially nothing is held, recorded or sent.
LEMMA WindowsInit ==
    Init => /\ HeldRegion /\ OnRegion /\ WrittenRegion /\ MissedRegion /\ LostRegion
            /\ PatchRegion
<1> SUFFICES ASSUME Init
             PROVE  /\ HeldRegion /\ OnRegion /\ WrittenRegion /\ MissedRegion /\ LostRegion
                    /\ PatchRegion
  OBVIOUS
<1>1. Base = "off" /\ Offered = {}
  BY DEF Init, Base, Offered
<1>2. HeldRegion /\ OnRegion /\ WrittenRegion
  BY <1>1 DEF Init, HeldRegion, OnRegion, WrittenRegion, OnLabels, Disabling, Writing,
     RmwStores, EnLabels, StoreWindow
<1>3. MissedRegion /\ LostRegion
  BY <1>1 DEF Init, MissedRegion, LostRegion, Handled, Disabling, EnLabels, RmwStores
<1>4. PatchRegion
  BY <1>1 DEF Init, PatchRegion
<1>5. QED BY <1>2, <1>3, <1>4

\* What holds with the interrupt kept out of the stores that restore ENABLE.
LEMMA HeldHolds ==
    ASSUME PromptRelease, StoreWindow \subseteq QuietAt
    PROVE  Spec => [](Safe /\ HeldRegion)
<1>1. Init => Safe /\ HeldRegion
  BY SafeHolds, WindowsInit
<1>2. Safe /\ HeldRegion /\ [Next]_vars => (Safe /\ HeldRegion)'
  BY SafeHolds, HeldStep
<1>3. QED BY <1>1, <1>2, PTL DEF Spec

\* What holds with the device quiet from SpiWrite's transfer to the wait.
Sent == Safe /\ HeldRegion /\ OnRegion /\ WrittenRegion /\ MissedRegion
LEMMA SentHolds ==
    ASSUME PromptRelease, ArmWindow \subseteq QuietAt
    PROVE  (Init => Sent) /\ (Sent /\ [Next]_vars => Sent')
<1>1. Init => Sent
  BY SafeHolds, WindowsInit DEF Sent
<1>2. ASSUME Sent, [Next]_vars PROVE Sent'
  <2>1. StoreWindow \subseteq QuietAt
    BY DEF StoreWindow, ArmWindow
  <2>2. Safe' /\ HeldRegion' /\ OnRegion'
    BY <1>2, <2>1, SafeHolds, HeldStep, OnStep DEF Sent
  <2>3. WrittenRegion' /\ MissedRegion'
    BY <1>2, WrittenStep, MissedStep DEF Sent
  <2>4. QED BY <2>2, <2>3 DEF Sent
<1>3. QED BY <1>1, <1>2

\* A packet hci_event_handler has not taken is never overwritten: while it is held the
\* interrupt that would read the next one is off, if it does not come between the load and
\* the store of a read-modify-write that had it on (en_clr_w, irq_done_w).
THEOREM BufferHeld ==
    ASSUME PromptRelease, StoreWindow \subseteq QuietAt PROVE Spec => RxNotOverwritten
<1>1. Safe /\ HeldRegion => [IsrRead \/ HandlerRead => ~usEventOrDataReceived]_vars
  <2> SUFFICES ASSUME Safe, HeldRegion, IsrRead \/ HandlerRead PROVE ~usEventOrDataReceived
    OBVIOUS
  <2>1. CASE IsrRead
    BY <2>1, Interrupts DEF IrqHandler
  <2>2. CASE HandlerRead
    BY <2>2 DEF HandlerRead, At, HeldRegion
  <2>3. QED BY <2>1, <2>2
<1>2. QED BY <1>1, HeldHolds, PTL DEF RxNotOverwritten

\* The answer to a command is never taken for an unsolicited event: with the device quiet
\* from the transfer of the command to the store of the opcode waited for (ArmWindow), an
\* answer is read only while that opcode is set.
THEOREM ReplyKept ==
    ASSUME PromptRelease, ArmWindow \subseteq QuietAt PROVE Spec => ReplyNotDropped
<1> DEFINE Reply == rxBuffer' \in {"reply", "replyData"}
<1>1. Sent => [(IsrRead \/ HandlerUnsolicited) /\ Reply => usRxEventOpcode]_vars
  <2> SUFFICES ASSUME Sent, IsrRead \/ HandlerUnsolicited, Reply PROVE usRxEventOpcode
    OBVIOUS
  <2>1. CASE HandlerUnsolicited
    BY <2>1 DEF HandlerUnsolicited, At, spi, Sent, Safe, SafeInv, ParseRegion, Reading
  <2>2. CASE IsrRead
    <3>1. rxBuffer' \in Offered
      BY <2>2, ReadMoves DEF Sent
    <3>2. Owed
      BY <3>1 DEF Owed
    <3>3. Base \in {"arm", "wt", "wt_exit"} /\ ~usEventOrDataReceived
      BY <3>2 DEF Sent, Safe, SafeInv, OwedRegion
    <3>4. edge /\ Belongs /\ (unsent = 1 => ~Owed)
      BY <2>2, Interrupts, WhereFrom DEF Sent, IrqHandler, Safe, SafeInv, OwedRegion, Owed, Clear
    <3>5. CASE Base \in {"wt", "wt_exit"}
      BY <3>2, <3>5 DEF Sent, Safe, SafeInv, WaitRegion
    <3>6. CASE Base = "arm"
      <4>1. Writing /\ unsent = 0 /\ pc # "wt_exit"
        BY <3>2, <3>4, <3>6 DEF Writing, Sent, Safe, SafeInv, UnsentRegion, Belongs, TopLabels
      <4>2. QED BY <4>1, <3>4 DEF Sent, WrittenRegion
    <3>7. QED BY <3>3, <3>5, <3>6
  <2>3. QED BY <2>1, <2>2
<1>2. QED BY <1>1, SentHolds, PTL DEF ReplyNotDropped, Spec

\* The status byte and the buffer are what the foreground takes them for: with the device
\* quiet in the windows of the driver (MissedWindow) no request is forgotten and none is
\* served twice; and with no unsolicited event before the answer to START the patch request
\* is still in the buffer when it is answered from there.
THEOREM Precise ==
    ASSUME PromptRelease, MissedWindow \subseteq QuietAt, ~EventsInInit
    PROVE  Spec => []DriverPrecise
<1> DEFINE Known == Sent /\ LostRegion /\ PatchRegion
<1>1. ArmWindow \subseteq QuietAt
  BY DEF MissedWindow
<1>2. Init => Known
  BY <1>1, SentHolds, WindowsInit
<1>3. ASSUME Known, [Next]_vars PROVE Known'
  <2>1. Sent'
    BY <1>1, <1>3, SentHolds
  <2>2. LostRegion' /\ PatchRegion'
    BY <1>3, LostStep, PatchStep DEF Sent
  <2>3. QED BY <2>1, <2>2
<1>4. ASSUME Known PROVE DriverPrecise
  <2>1. Belongs /\ Up
    BY <1>4, WhereFrom, Powered DEF Sent, Safe
  <2>2. /\ LostRegion /\ WrittenRegion /\ PatchRegion /\ RequestRegion /\ PowerRegion
        /\ wlanEn \in BOOLEAN /\ edge \in BOOLEAN
    BY <1>4 DEF Sent, Safe, SafeInv, TypeOK, DriverTypes, DeviceTypes
  <2>3. NoLostInterrupt
    BY <2>1, <2>2 DEF NoLostInterrupt, Resting, LostRegion, Request, PowerRegion, Powering,
       Belongs, TopLabels, Up, SwLabels
  <2>4. MissedMeansMissed
    BY <2>1, <2>2 DEF MissedMeansMissed, RequestRegion, LostRegion, WrittenRegion, Up, SwLabels,
       Powering
  <2>5. PatchRequestIntact
    BY <2>1, <2>2 DEF PatchRequestIntact, PatchRegion, Belongs, TopLabels
  <2>6. QED BY <2>3, <2>4, <2>5 DEF DriverPrecise
<1>5. QED BY <1>2, <1>3, <1>4, PTL DEF Spec
=============================================================================
