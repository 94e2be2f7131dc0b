--------------------------- MODULE SpiLink_proofs ---------------------------
(***************************************************************************)
(* Proofs about SpiLink, for every value of its constants: the types, and    *)
(* that the driver lets go of the link (LinkReleased) whatever the device     *)
(* and the interrupts do.                                                   *)
(***************************************************************************)
EXTENDS SpiLinkInv, TLAPS

(* The three ways the foreground moves between labels, as facts about the    *)
(* label, the stack and what is on the stack.                               *)

LEMMA PushSeq ==
    ASSUME NEW s \in Seq(Labels), NEW b \in Labels
    PROVE  LET t == <<b>> \o s IN
           /\ t \in Seq(Labels) /\ t # <<>> /\ Len(t) = Len(s) + 1 /\ t[1] = b
           /\ \A i \in 1..Len(s) : t[i + 1] = s[i]
           /\ \A i \in 2..Len(t) : t[i] = s[i - 1]
OBVIOUS

LEMMA PopSeq ==
    ASSUME NEW S, NEW s \in Seq(S), s # <<>>
    PROVE  /\ Head(s) = s[1] /\ s[1] \in S /\ Tail(s) \in Seq(S)
           /\ Len(s) \in Nat \ {0} /\ Len(Tail(s)) = Len(s) - 1
           /\ \A i \in 1..(Len(s) - 1) : Tail(s)[i] = s[i + 1]
           /\ Tail(s) = <<>> <=> Len(s) = 1
<1>1. /\ Head(s) = s[1] /\ s[1] \in S /\ Tail(s) \in Seq(S)
      /\ Len(s) \in Nat \ {0} /\ Len(Tail(s)) = Len(s) - 1
      /\ \A i \in 1..(Len(s) - 1) : Tail(s)[i] = s[i + 1]
  OBVIOUS
<1>2. \A t \in Seq(S) : t = <<>> <=> Len(t) = 0
  OBVIOUS
<1>3. Tail(s) = <<>> <=> Len(Tail(s)) = 0
  <2> DEFINE t == Tail(s)
  <2>1. t \in Seq(S)
    BY <1>1
  <2> HIDE DEF t
  <2>2. t = <<>> <=> Len(t) = 0
    BY <2>1, <1>2
  <2>3. QED BY <2>2 DEF t
<1>4. Len(Tail(s)) = 0 <=> Len(s) = 1
  BY <1>1
<1>5. QED BY <1>1, <1>3, <1>4

LEMMA BelowTop == \A l \in TopLabels : Below(l) = {}
BY DEF Below, TopLabels, EnLabels, IrqLabels, SwLabels

LEMMA GotoStack ==
    ASSUME NEW l \in Labels, ret \in Seq(Labels), StackOK, Goto(l),
           Below(pc) \subseteq Below(l), l \in TopLabels <=> pc \in TopLabels
    PROVE  StackOK' /\ pc' = l /\ ret' = ret
BY DEF Goto, StackOK, Below

LEMMA CallOnStack ==
    ASSUME NEW l \in Labels, NEW b \in Labels, ret \in Seq(Labels), Call(l, b)
    PROVE  /\ pc' = l /\ ret' \in Seq(Labels) /\ ret' # <<>> /\ Len(ret') = Len(ret) + 1
           /\ ret'[1] = b
           /\ \A i \in 1..Len(ret) : ret'[i + 1] = ret[i]
           /\ \A i \in 2..(Len(ret) + 1) : ret'[i] = ret[i - 1]
           /\ \A x : OnStack(x)' <=> (x = b \/ OnStack(x))
<1> DEFINE n == Len(ret)
<1>1. /\ pc' = l /\ ret' \in Seq(Labels) /\ ret' # <<>> /\ Len(ret') = n + 1 /\ ret'[1] = b
      /\ \A i \in 1..n : ret'[i + 1] = ret[i]
      /\ \A i \in 2..(n + 1) : ret'[i] = ret[i - 1]
      /\ n \in Nat
  BY PushSeq DEF Call
<1>2. \A x : OnStack(x)' <=> (x = b \/ OnStack(x))
  <2>1. ASSUME NEW x, OnStack(x)' PROVE x = b \/ OnStack(x)
    BY <2>1, <1>1 DEF OnStack
  <2>2. ASSUME NEW x, x = b PROVE OnStack(x)'
    BY <2>2, <1>1 DEF OnStack
  <2>3. ASSUME NEW x, OnStack(x) PROVE OnStack(x)'
    <3>1. PICK i \in 1..n : ret[i] = x
      BY <2>3 DEF OnStack
    <3>2. i + 1 \in 1..Len(ret') /\ ret'[i + 1] = x
      BY <3>1, <1>1
    <3>3. QED BY <3>2 DEF OnStack
  <2>4. QED BY <2>1, <2>2, <2>3
<1>3. QED BY <1>1, <1>2

LEMMA CallStack ==
    ASSUME NEW l \in Labels, NEW b \in Labels, ret \in Seq(Labels), pc \in Labels,
           StackOK, Call(l, b),
           l \notin TopLabels, b \in Below(l),
           \/ pc \in TopLabels /\ b \in TopLabels
           \/ pc \notin TopLabels /\ b \notin TopLabels /\ Below(b) = Below(pc)
    PROVE  StackOK'
<1> DEFINE n == Len(ret)
<1>1. /\ pc' = l /\ ret' \in Seq(Labels) /\ ret' # <<>> /\ Len(ret') = n + 1 /\ ret'[1] = b
      /\ \A i \in 1..n : ret'[i + 1] = ret[i]
      /\ \A i \in 2..(n + 1) : ret'[i] = ret[i - 1]
      /\ n \in Nat
  BY CallOnStack
<1>2. StackOK'
  <2>1. ret' # <<>> /\ pc' \notin TopLabels /\ ret'[1] \in Below(pc')
    BY <1>1
  <2>2. ret'[Len(ret')] \in TopLabels
    <3>1. CASE ret = <<>>
      BY <3>1, <1>1 DEF StackOK
    <3>2. CASE ret # <<>>
      BY <3>2, <1>1 DEF StackOK
    <3>3. QED BY <3>1, <3>2
  <2>3. ASSUME NEW i \in 1..(Len(ret') - 1) PROVE ret'[i + 1] \in Below(ret'[i])
    <3>1. CASE i = 1
      <4>1. n >= 1 /\ ret # <<>> /\ pc \notin TopLabels /\ ret'[2] = ret[1]
        BY <3>1, <1>1 DEF StackOK
      <4>2. QED BY <4>1, <3>1, <1>1 DEF StackOK
    <3>2. CASE i # 1
      <4>1. i - 1 \in 1..(n - 1) /\ ret'[i] = ret[i - 1] /\ ret'[i + 1] = ret[(i - 1) + 1]
        BY <3>2, <1>1
      <4>2. ret[(i - 1) + 1] \in Below(ret[i - 1])
        BY <4>1 DEF StackOK
      <4>3. QED BY <4>1, <4>2
    <3>3. QED BY <3>1, <3>2
  <2>4. QED BY <2>1, <2>2, <2>3 DEF StackOK
<1>3. QED BY <1>2

LEMMA ReturnStack ==
    ASSUME ret \in Seq(Labels), pc \in Labels, StackOK, Return
    PROVE  /\ StackOK' /\ pc' \in Labels /\ ret' \in Seq(Labels)
           /\ pc' = ret[1] /\ pc' \in Below(pc)
           /\ \A x : OnStack(x) <=> (x = pc' \/ OnStack(x)')
           /\ ret' # <<>> => ret'[1] \in Below(pc')
<1> DEFINE n == Len(ret)
<1>1. /\ ret # <<>> /\ pc' = ret[1] /\ pc' \in Labels /\ ret' \in Seq(Labels)
      /\ n \in Nat \ {0} /\ Len(ret') = n - 1
      /\ \A i \in 1..(n - 1) : ret'[i] = ret[i + 1]
      /\ ret' = <<>> <=> n = 1
  <2>1. ret # <<>> /\ pc' = Head(ret) /\ ret' = Tail(ret)
    BY DEF Return
  <2>2. QED BY <2>1, PopSeq
<1>2. pc' \in Below(pc)
  BY <1>1 DEF StackOK
<1>3. \A x : OnStack(x) <=> (x = pc' \/ OnStack(x)')
  <2>1. ASSUME NEW x, OnStack(x) PROVE x = pc' \/ OnStack(x)'
    <3>1. PICK i \in 1..n : ret[i] = x
      BY <2>1 DEF OnStack
    <3>2. CASE i = 1
      BY <3>1, <3>2, <1>1
    <3>3. CASE i # 1
      <4>1. i - 1 \in 1..Len(ret') /\ ret'[i - 1] = x
        BY <3>1, <3>3, <1>1
      <4>2. QED BY <4>1 DEF OnStack
    <3>4. QED BY <3>2, <3>3
  <2>2. ASSUME NEW x, x = pc' PROVE OnStack(x)
    BY <2>2, <1>1 DEF OnStack
  <2>3. ASSUME NEW x, OnStack(x)' PROVE OnStack(x)
    <3>1. PICK i \in 1..Len(ret') : ret'[i] = x
      BY <2>3 DEF OnStack
    <3>2. i + 1 \in 1..n /\ ret[i + 1] = x
      BY <3>1, <1>1
    <3>3. QED BY <3>2 DEF OnStack
  <2>4. QED BY <2>1, <2>2, <2>3
<1>4. StackOK'
  <2>1. CASE n = 1
    BY <2>1, <1>1 DEF StackOK
  <2>2. CASE n # 1
    <3>1. ret' # <<>> /\ ret'[1] \in Below(pc')
      <4>1. ret'[1] = ret[1 + 1] /\ 1 \in 1..(n - 1)
        BY <2>2, <1>1
      <4>2. ret[1 + 1] \in Below(ret[1])
        BY <4>1 DEF StackOK
      <4>3. QED BY <4>1, <4>2, <1>1, <2>2
    <3>2. pc' \notin TopLabels
      BY <3>1, BelowTop
    <3>3. ret'[Len(ret')] \in TopLabels
      BY <2>2, <1>1 DEF StackOK
    <3>4. ASSUME NEW i \in 1..(Len(ret') - 1) PROVE ret'[i + 1] \in Below(ret'[i])
      <4>1. i + 1 \in 1..(n - 1) /\ ret'[i] = ret[i + 1] /\ ret'[i + 1] = ret[(i + 1) + 1]
        BY <1>1
      <4>2. QED BY <4>1 DEF StackOK
    <3>5. QED BY <3>1, <3>2, <3>3, <3>4 DEF StackOK
  <2>3. QED BY <2>1, <2>2
<1>5. QED BY <1>1, <1>2, <1>3, <1>4 DEF StackOK

-----------------------------------------------------------------------------
(* Types. A step moves between labels of Labels, and what it reads into the  *)
(* buffer or gives to the device is of its type.                            *)

LEMMA Moves ==
    ASSUME ret \in Seq(Labels), pc \in Labels
    PROVE  /\ \A l \in Labels : Goto(l) => pc' \in Labels /\ ret' \in Seq(Labels)
           /\ \A l, b \in Labels : Call(l, b) => pc' \in Labels /\ ret' \in Seq(Labels)
           /\ Return => pc' \in Labels /\ ret' \in Seq(Labels)
<1>1. ASSUME NEW l \in Labels, Goto(l) PROVE pc' \in Labels /\ ret' \in Seq(Labels)
  BY <1>1 DEF Goto
<1>2. ASSUME NEW l \in Labels, NEW b \in Labels, Call(l, b)
      PROVE  pc' \in Labels /\ ret' \in Seq(Labels)
  BY <1>2, PushSeq DEF Call
<1>3. ASSUME Return PROVE pc' \in Labels /\ ret' \in Seq(Labels)
  BY <1>3, PopSeq DEF Return
<1>4. QED BY <1>1, <1>2, <1>3

LEMMA ReadPacketType ==
    ASSUME outq \in Seq(Packets), ReadPacket
    PROVE  rxBuffer' \in Packets /\ outq' \in Seq(Packets)
<1>1. CASE outq # <<>>
  <2>1. Head(outq) \in Packets /\ Tail(outq) \in Seq(Packets)
    BY <1>1, PopSeq
  <2>2. QED BY <2>1 DEF ReadPacket, Packets
<1>2. CASE outq = <<>>
  BY <1>2 DEF ReadPacket, Packets
<1>3. QED BY <1>1, <1>2

LEMMA DeliverType ==
    ASSUME DeviceTypes, tx \in Calls \cup {"PATCH"}, Deliver
    PROVE  /\ unsent' \in Int /\ devTodo' \in Calls \cup {"PATCH", "none"}
           /\ devState' \in {"off", "boot", "ready", "init", "up"}
BY DEF DeviceTypes, Deliver

LEMMA SendType ==
    ASSUME NEW p \in Calls \cup {"PATCH"}, NEW b \in Labels, unsent \in Int, Send(p, b)
    PROVE  tx' \in Calls \cup {"PATCH"} /\ unsent' \in Int
BY DEF Send

LEMMA TypeInit == Init => TypeOK
<1> SUFFICES ASSUME Init PROVE TypeOK
  OBVIOUS
<1>1. CpuTypes
  BY DEF Init, CpuTypes, Labels, Calls
<1>2. DriverTypes
  BY DEF Init, DriverTypes, States
<1>3. DeviceTypes
  <2>1. outq \in Seq(Packets)
    BY DEF Init
  <2>2. cmds \in 0..MaxCmds /\ asyncs \in 0..MaxAsync /\ boots \in 0..MaxBoots
    BY SpiLinkAssumption DEF Init, SpiLinkAssumption
  <2>3. unsent \in Int /\ irqLow \in BOOLEAN
    BY DEF Init
  <2>4. served \in BOOLEAN /\ edge \in BOOLEAN
    BY DEF Init
  <2>5. devState \in {"off", "boot", "ready", "init", "up"}
        /\ devTodo \in Calls \cup {"PATCH", "none"}
    BY DEF Init
  <2>6. QED BY <2>1, <2>2, <2>3, <2>4, <2>5 DEF DeviceTypes
<1>4. QED BY <1>1, <1>2, <1>3 DEF TypeOK

LEMMA CpuTypesStep == TypeOK /\ [Next]_vars => CpuTypes'
<1> SUFFICES ASSUME TypeOK, [Next]_vars PROVE CpuTypes'
  OBVIOUS
<1>1. CASE UNCHANGED cpu
  BY <1>1 DEF cpu, TypeOK, CpuTypes
<1>2. CASE Foreground
  <2>1. /\ \A l \in Labels : Goto(l) => pc' \in Labels /\ ret' \in Seq(Labels)
        /\ \A l, b \in Labels : Call(l, b) => pc' \in Labels /\ ret' \in Seq(Labels)
        /\ Return => pc' \in Labels /\ ret' \in Seq(Labels)
    BY Moves DEF TypeOK, CpuTypes
  <2>2. /\ RmwLoads \subseteq Labels /\ RmwStores \subseteq Labels /\ Clocking \subseteq Labels
        /\ {"off", "stopped", "app", "ws", "ws_pin", "ws_high", "ws_low", "st_pin", "cl",
            "sw", "sw_idle", "sw_cs", "sw_chk", "sw_desel", "sw_wait",
            "en_missed", "en_pin", "irq", "irq_disp", "irq_desel", "irq_idle", "irq_rx",
            "irq_wdesel", "arm", "arm_d", "wt", "wt_parse", "wt_res", "wt_exit"}
           \subseteq Labels
    BY DEF Labels
  <2>3. pc' \in Labels /\ ret' \in Seq(Labels)
    <3>1. CASE FlagLoad \/ FlagStore \/ EnableMissed \/ EnablePin
      BY <3>1, <2>1, <2>2 DEF FlagLoad, FlagStore, EnableMissed, EnablePin, RmwLoads, RmwStores
    <3>2. CASE Handler
      BY <3>2, <2>1, <2>2 DEF Handler, HandlerEntry, HandlerDispatch, HandlerRead,
         HandlerDeselect, HandlerDeliver, HandlerUnsolicited, HandlerWrite, RmwLoads, Clocking
    <3>3. CASE SpiWriteStep
      BY <3>3, <2>1, <2>2 DEF SpiWriteStep, WriteEntry, WriteClaim, WriteSelect, WriteCheck,
         WriteTransfer, WriteDeselect, WriteWait, RmwLoads, Clocking
    <3>4. CASE Wait
      BY <3>4, <2>1, <2>2 DEF Wait, WaitArm, WaitReceived, WaitParse, WaitPatch, WaitExit,
         Send, RmwLoads
    <3>5. CASE App
      BY <3>5, <2>1, <2>2 DEF App, Begin, Restart, StartOpen, StartEnable, StartWaitHigh,
         StartWaitLow, AppCall, AppStop, StopWaitHigh, SpiClose, Send, RmwLoads
    <3>6. QED BY <1>2, <3>1, <3>2, <3>3, <3>4, <3>5 DEF Foreground
  <2>4. tmp' \subseteq Bits /\ cmd' \in Calls /\ tx' \in Calls \cup {"PATCH"}
        /\ parsed' \in Packets \cup {"none"}
    <3> USE DEF TypeOK, CpuTypes, DriverTypes
    <3>1. CASE FlagLoad \/ FlagStore \/ EnableMissed \/ EnablePin
      BY <3>1 DEF FlagLoad, FlagStore, EnableMissed, EnablePin
    <3>2. CASE Handler
      BY <3>2 DEF Handler, HandlerEntry, HandlerDispatch, HandlerRead,
         HandlerDeselect, HandlerDeliver, HandlerUnsolicited, HandlerWrite
    <3>3. CASE SpiWriteStep
      BY <3>3 DEF SpiWriteStep, WriteEntry, WriteClaim, WriteSelect, WriteCheck,
         WriteTransfer, WriteDeselect, WriteWait
    <3>4. CASE Wait
      BY <3>4 DEF Wait, WaitArm, WaitReceived, WaitParse, WaitPatch, WaitExit, Send, Calls
    <3>5. CASE App
      BY <3>5 DEF App, Begin, Restart, StartOpen, StartEnable, StartWaitHigh,
         StartWaitLow, AppCall, AppStop, StopWaitHigh, SpiClose, Send, Calls
    <3>6. QED BY <1>2, <3>1, <3>2, <3>3, <3>4, <3>5 DEF Foreground
  <2>5. QED BY <2>3, <2>4 DEF CpuTypes
<1>3. IrqHandler \/ Device \/ Finished => UNCHANGED cpu
  BY DEF IrqHandler, IsrMissed, IsrPowerUp, IsrWrite, IsrRead, IsrIgnored, Device, DevPower,
     DevReady, DevOff, DevGrant, DevOffer, DevRelease, DevAnswer, DevAsync, Finished, vars
<1>4. QED BY <1>1, <1>2, <1>3 DEF Next, vars

LEMMA DriverTypesStep == TypeOK /\ [Next]_vars => DriverTypes'
<1> SUFFICES ASSUME TypeOK, [Next]_vars PROVE DriverTypes'
  OBVIOUS
<1> USE DEF TypeOK, DriverTypes, spi, hci
<1>1. CASE UNCHANGED <<spi, hci, cs, wlanEn>>
  BY <1>1
<1>2. CASE IrqHandler
  <2>1. CASE IsrMissed
    BY <2>1 DEF IsrMissed, Bits
  <2>2. CASE IsrPowerUp
    BY <2>2 DEF IsrPowerUp, States
  <2>3. CASE IsrWrite
    BY <2>3 DEF IsrWrite, IsrDeselect, States
  <2>4. CASE IsrRead
    BY <2>4, ReadPacketType DEF IsrRead, IsrDeselect, Paused, Resumed, DeviceTypes, Bits
  <2>5. CASE IsrIgnored
    BY <2>5 DEF IsrIgnored
  <2>6. QED BY <1>2, <2>1, <2>2, <2>3, <2>4, <2>5 DEF IrqHandler
<1>3. CASE FlagLoad \/ FlagStore \/ EnableMissed \/ EnablePin
  <2>1. CASE FlagStore
    <3>1. intReg' \subseteq Bits
      BY <2>1 DEF FlagStore, CpuTypes, Bits, RmwStores
    <3>2. QED BY <2>1, <3>1 DEF FlagStore
  <2>2. QED BY <1>1, <1>3, <2>1 DEF FlagLoad, EnableMissed, EnablePin
<1>4. CASE Handler
  <2>1. CASE HandlerDispatch
    BY <2>1 DEF HandlerDispatch, States
  <2>2. CASE HandlerRead
    BY <2>2, ReadPacketType DEF HandlerRead, DeviceTypes, States
  <2>3. CASE HandlerEntry \/ HandlerDeselect
    BY <2>3 DEF HandlerEntry, HandlerDeselect, CsOff
  <2>4. CASE HandlerDeliver \/ HandlerWrite
    BY <2>4 DEF HandlerDeliver, HandlerWrite, States
  <2>5. CASE HandlerUnsolicited
    BY <2>5 DEF HandlerUnsolicited
  <2>6. QED BY <1>4, <2>1, <2>2, <2>3, <2>4, <2>5 DEF Handler
<1>5. CASE SpiWriteStep
  <2>1. CASE WriteEntry
    BY <2>1 DEF WriteEntry
  <2>2. CASE WriteClaim
    BY <2>2 DEF WriteClaim, States
  <2>3. CASE WriteTransfer
    BY <2>3 DEF WriteTransfer, States
  <2>4. CASE WriteSelect \/ WriteCheck \/ WriteDeselect \/ WriteWait
    BY <2>4 DEF WriteSelect, WriteCheck, WriteDeselect, WriteWait, CsOff
  <2>5. QED BY <1>5, <2>1, <2>2, <2>3, <2>4 DEF SpiWriteStep
<1>6. CASE Wait
  BY <1>6 DEF Wait, WaitArm, WaitReceived, WaitParse, WaitPatch, WaitExit, ReplyTaken
<1>7. CASE App
  <2>1. CASE Begin
    BY <2>1 DEF Begin, Bits
  <2>2. CASE StartOpen
    BY <2>2 DEF StartOpen, States
  <2>3. CASE StartEnable \/ AppStop \/ SpiClose
    BY <2>3 DEF StartEnable, AppStop, SpiClose, PowerDown
  <2>4. CASE Restart \/ StartWaitHigh \/ StartWaitLow \/ AppCall \/ StopWaitHigh
    BY <1>1, <2>4 DEF Restart, StartWaitHigh, StartWaitLow, AppCall, StopWaitHigh
  <2>5. QED BY <1>7, <2>1, <2>2, <2>3, <2>4 DEF App
<1>8. Device \/ Finished => UNCHANGED <<spi, hci, cs, wlanEn>>
  BY DEF Device, DevPower, DevReady, DevOff, DevGrant, DevOffer, DevRelease, DevAnswer,
     DevAsync, Finished, vars
<1>9. QED BY <1>1, <1>2, <1>3, <1>4, <1>5, <1>6, <1>7, <1>8 DEF Next, Foreground, vars

LEMMA DeviceTypesStep == TypeOK /\ [Next]_vars => DeviceTypes'
<1> SUFFICES ASSUME TypeOK, [Next]_vars PROVE DeviceTypes'
  OBVIOUS
<1> USE DEF TypeOK, DeviceTypes, line, dev, counts
<1>1. CASE UNCHANGED <<line, dev, unsent, counts>>
  BY <1>1
<1>2. CASE IrqHandler
  <2>1. CASE IsrMissed \/ IsrPowerUp \/ IsrIgnored
    BY <2>1 DEF IsrMissed, IsrPowerUp, IsrIgnored, Isr
  <2>2. CASE IsrWrite
    BY <2>2, DeliverType DEF IsrWrite, IsrDeselect, Isr, CpuTypes
  <2>3. CASE IsrRead
    BY <2>3, ReadPacketType DEF IsrRead, IsrDeselect, Isr
  <2>4. QED BY <1>2, <2>1, <2>2, <2>3 DEF IrqHandler
<1>3. CASE HandlerRead
  BY <1>3, ReadPacketType DEF HandlerRead
<1>4. CASE HandlerWrite \/ WriteTransfer
  BY <1>4, DeliverType DEF HandlerWrite, WriteTransfer, CpuTypes, Granted
<1>5. CASE HandlerDeselect \/ WriteDeselect
  BY <1>5 DEF HandlerDeselect, WriteDeselect, CsOff
<1>6. CASE WaitPatch \/ WaitExit
  BY <1>6 DEF WaitPatch, WaitExit, Send
<1>7. CASE StartWaitLow \/ AppCall \/ Begin \/ Restart
  <2>1. CASE StartWaitLow
    BY <2>1 DEF StartWaitLow, Send
  <2>2. CASE AppCall
    <3>1. cmds' \in 0..MaxCmds
      <4>1. MaxCmds \in Nat /\ cmds \in 0..MaxCmds /\ cmds < MaxCmds /\ cmds' = cmds + 1
        BY <2>2, SpiLinkAssumption DEF AppCall, SpiLinkAssumption
      <4>2. QED BY <4>1
    <3>2. QED BY <2>2, <3>1 DEF AppCall, Send
  <2>3. CASE Begin \/ Restart
    <3>1. boots' \in 0..MaxBoots
      <4>1. MaxBoots \in Nat /\ boots \in 0..MaxBoots /\ boots < MaxBoots /\ boots' = boots + 1
        BY <2>3, SpiLinkAssumption DEF Begin, Restart, SpiLinkAssumption
      <4>2. QED BY <4>1
    <3>2. QED BY <2>3, <3>1 DEF Begin, Restart
  <2>4. QED BY <1>7, <2>1, <2>2, <2>3
<1>8. CASE Device
  <2> USE DEF LowerIrq
  <2>1. CASE DevPower \/ DevReady
    BY <2>1 DEF DevPower, DevReady
  <2>2. CASE DevOff
    <3>1. outq' \in Seq(Packets)
      <4>1. outq' = <<>>
        BY <2>2 DEF DevOff
      <4>2. QED BY <4>1
    <3>2. QED BY <2>2, <3>1 DEF DevOff
  <2>3. CASE DevGrant \/ DevOffer \/ DevRelease
    BY <2>3 DEF DevGrant, DevOffer, DevRelease
  <2>4. CASE DevAnswer
    <3>1. outq' \in Seq(Packets)
      <4>1. {"reply", "patch", "replyData", "data"} \subseteq Packets
        BY DEF Packets, Events
      <4>2. \A p, q \in Packets : Append(outq, p) \in Seq(Packets)
                                 /\ outq \o <<p, q>> \in Seq(Packets)
        BY DEF DeviceTypes
      <4>3. QED BY <2>4, <4>1, <4>2 DEF DevAnswer
    <3>2. QED BY <2>4, <3>1 DEF DevAnswer
  <2>5. CASE DevAsync
    BY <2>5, SpiLinkAssumption DEF DevAsync, Packets, Events, SpiLinkAssumption
  <2>6. QED BY <1>8, <2>1, <2>2, <2>3, <2>4, <2>5 DEF Device
<1>9. ASSUME Foreground,
             ~HandlerRead, ~HandlerWrite, ~WriteTransfer, ~HandlerDeselect, ~WriteDeselect,
             ~WaitPatch, ~WaitExit, ~StartWaitLow, ~AppCall, ~Begin, ~Restart
      PROVE  UNCHANGED <<line, dev, unsent, counts>>
  BY <1>9 DEF Foreground, FlagLoad, FlagStore, EnableMissed, EnablePin, Handler, HandlerEntry,
     HandlerDispatch, HandlerDeliver, HandlerUnsolicited, SpiWriteStep, WriteEntry, WriteClaim,
     WriteSelect, WriteCheck, WriteWait, Wait, WaitArm, WaitReceived, WaitParse, App, StartOpen,
     StartEnable, StartWaitHigh, AppStop, StopWaitHigh, SpiClose
<1>10. QED BY <1>1, <1>2, <1>3, <1>4, <1>5, <1>6, <1>7, <1>8, <1>9 DEF Next, Finished, vars

LEMMA TypeStep == TypeOK /\ [Next]_vars => TypeOK'
BY CpuTypesStep, DriverTypesStep, DeviceTypesStep DEF TypeOK

\* The variables of the processor, the driver and the device keep their types.
THEOREM TypeCorrect == Spec => []TypeOK
BY TypeInit, TypeStep, PTL DEF Spec
-----------------------------------------------------------------------------
(* LinkReleased. Each value of the driver's state is confined to a region of  *)
(* labels (ReleaseInv); a region is left only by the step that gives the     *)
(* value up, or by a return to a label that belongs to it.                   *)

LEMMA StackStep == TypeOK /\ StackOK /\ [Next]_vars => StackOK'
<1> SUFFICES ASSUME TypeOK, StackOK, [Next]_vars PROVE StackOK'
  OBVIOUS
<1>1. CASE UNCHANGED cpu
  BY <1>1 DEF cpu, StackOK, Below
<1>2. IrqHandler \/ Device \/ Finished => UNCHANGED cpu
  BY DEF IrqHandler, IsrMissed, IsrPowerUp, IsrWrite, IsrRead, IsrIgnored, Device, DevPower,
     DevReady, DevOff, DevGrant, DevOffer, DevRelease, DevAnswer, DevAsync, Finished, vars
<1>3. CASE Foreground
  <2>1. /\ \A l \in Labels : /\ Goto(l) /\ Below(pc) \subseteq Below(l)
                             /\ l \in TopLabels <=> pc \in TopLabels
                             => StackOK'
        /\ \A l, b \in Labels :
              /\ Call(l, b) /\ l \notin TopLabels /\ b \in Below(l)
              /\ \/ pc \in TopLabels /\ b \in TopLabels
                 \/ pc \notin TopLabels /\ b \notin TopLabels /\ Below(b) = Below(pc)
              => StackOK'
        /\ Return => StackOK'
    BY GotoStack, CallStack, ReturnStack DEF TypeOK, CpuTypes
  <2> USE DEF Below, TopLabels, EnLabels, IrqLabels, SwLabels, Labels, RmwLoads, RmwStores,
              Clocking, At
  <2>2. CASE FlagLoad
    BY <2>1, <2>2 DEF FlagLoad
  <2>3. CASE FlagStore
    BY <2>1, <2>3 DEF FlagStore
  <2>4. CASE EnableMissed \/ EnablePin
    BY <2>1, <2>4 DEF EnableMissed, EnablePin
  <2>5. CASE Handler
    BY <2>1, <2>5 DEF Handler, HandlerEntry, HandlerDispatch, HandlerRead,
       HandlerDeselect, HandlerDeliver, HandlerUnsolicited, HandlerWrite
  <2>6. CASE SpiWriteStep
    BY <2>1, <2>6 DEF SpiWriteStep, WriteEntry, WriteClaim, WriteSelect, WriteCheck,
       WriteTransfer, WriteDeselect, WriteWait
  <2>7. CASE Wait
    BY <2>1, <2>7 DEF Wait, WaitArm, WaitReceived, WaitParse, WaitPatch, WaitExit, Send
  <2>8. CASE App
    <3>1. CASE Begin \/ Restart \/ StartEnable \/ StartWaitHigh
      BY <2>1, <3>1 DEF Begin, Restart, StartEnable, StartWaitHigh
    <3>2. CASE StartOpen \/ StartWaitLow \/ AppCall
      BY <2>1, <3>2 DEF StartOpen, StartWaitLow, AppCall, Send
    <3>3. CASE AppStop
      BY <2>1, <3>3 DEF AppStop
    <3>4. CASE StopWaitHigh \/ SpiClose
      BY <2>1, <3>4 DEF StopWaitHigh, SpiClose
    <3>5. QED BY <2>8, <3>1, <3>2, <3>3, <3>4 DEF App
  <2>9. QED BY <1>3, <2>2, <2>3, <2>4, <2>5, <2>6, <2>7, <2>8 DEF Foreground
<1>4. QED BY <1>1, <1>2, <1>3 DEF Next, vars
LEMMA StackMoves ==
    ASSUME TypeOK, StackOK
    PROVE  /\ \A l : Goto(l) => /\ pc' = l /\ ret' = ret
                                /\ \A x : OnStack(x)' <=> OnStack(x)
           /\ \A l, b \in Labels : Call(l, b) =>
                 /\ pc' = l /\ ret'[1] = b
                 /\ \A x : OnStack(x)' <=> (x = b \/ OnStack(x))
           /\ Return => /\ pc' = ret[1] /\ pc' \in Below(pc)
                        /\ \A x : OnStack(x) <=> (x = pc' \/ OnStack(x)')
           /\ pc \in TopLabels => \A x : ~OnStack(x)
           /\ pc \notin TopLabels => ret[1] \in Below(pc)
<1>1. \A l : Goto(l) => pc' = l /\ ret' = ret /\ \A x : OnStack(x)' <=> OnStack(x)
  BY DEF Goto, OnStack
<1>2. \A l, b \in Labels : Call(l, b) =>
         pc' = l /\ ret'[1] = b /\ \A x : OnStack(x)' <=> (x = b \/ OnStack(x))
  BY CallOnStack DEF TypeOK, CpuTypes
<1>3. Return => /\ pc' = ret[1] /\ pc' \in Below(pc)
                /\ \A x : OnStack(x) <=> (x = pc' \/ OnStack(x)')
  BY ReturnStack DEF TypeOK, CpuTypes
<1>4. pc \in TopLabels => \A x : ~OnStack(x)
  BY DEF StackOK, OnStack
<1>5. pc \notin TopLabels => ret[1] \in Below(pc)
  BY DEF StackOK
<1>6. QED BY <1>1, <1>2, <1>3, <1>4, <1>5

LEMMA ClaimStep == TypeOK /\ StackOK /\ ClaimRegion /\ [Next]_vars => ClaimRegion'
<1> SUFFICES ASSUME TypeOK, StackOK, ClaimRegion, [Next]_vars PROVE ClaimRegion'
  OBVIOUS
<1> USE DEF ClaimRegion
<1>1. CASE UNCHANGED <<pc, intReg, ulSpiState>>
  BY <1>1
<1>2. CASE IrqHandler
  BY <1>2 DEF IrqHandler, IsrMissed, IsrPowerUp, IsrWrite, IsrRead, IsrIgnored, cpu
<1>3. CASE Foreground /\ pc' \notin {"sw_idle", "sw_cs"}
  BY <1>3
<1>4. CASE Foreground /\ pc' \in {"sw_idle", "sw_cs"}
  <2>1. /\ \A l : Goto(l) => pc' = l
        /\ \A l, b \in Labels : Call(l, b) => pc' = l
        /\ Return => pc' = ret[1] /\ pc' \in Below(pc)
    BY StackMoves
  <2> USE DEF Below, TopLabels, EnLabels, IrqLabels, SwLabels, Labels, RmwLoads, RmwStores,
              Clocking, At
  <2>2. CASE FlagLoad
    BY <2>1, <2>2, <1>4 DEF FlagLoad
  <2>3. CASE FlagStore
    BY <2>1, <2>3, <1>4 DEF FlagStore
  <2>4. CASE EnableMissed \/ EnablePin
    BY <2>1, <2>4, <1>4 DEF EnableMissed, EnablePin
  <2>5. CASE Handler
    BY <2>1, <2>5, <1>4 DEF Handler, HandlerEntry, HandlerDispatch, HandlerRead,
       HandlerDeselect, HandlerDeliver, HandlerUnsolicited, HandlerWrite
  <2>6. CASE SpiWriteStep
    BY <2>1, <2>6, <1>4 DEF SpiWriteStep, WriteEntry, WriteClaim, WriteSelect, WriteCheck,
       WriteTransfer, WriteDeselect, WriteWait
  <2>7. CASE Wait
    BY <2>1, <2>7, <1>4 DEF Wait, WaitArm, WaitReceived, WaitParse, WaitPatch, WaitExit, Send
  <2>8. CASE App
    BY <2>1, <2>8, <1>4 DEF App, Begin, Restart, StartOpen, StartEnable, StartWaitHigh,
       StartWaitLow, AppCall, AppStop, StopWaitHigh, SpiClose, Send
  <2>9. QED BY <1>4, <2>2, <2>3, <2>4, <2>5, <2>6, <2>7, <2>8 DEF Foreground
<1>5. Device \/ Finished => UNCHANGED <<pc, intReg, ulSpiState>>
  BY DEF Device, DevPower, DevReady, DevOff, DevGrant, DevOffer, DevRelease, DevAnswer,
     DevAsync, Finished, vars, cpu, spi
<1>6. QED BY <1>1, <1>2, <1>3, <1>4, <1>5 DEF Next, vars, cpu, spi
LEMMA ProcessStep ==
    TypeOK /\ StackOK /\ ProcessRegion /\ [Next]_vars => ProcessRegion'
<1> SUFFICES ASSUME TypeOK, StackOK, ProcessRegion, [Next]_vars
             PROVE  ProcessRegion'
  OBVIOUS
<1>1. CASE UNCHANGED <<cpu, intReg>>
  BY <1>1 DEF ProcessRegion, InHandler, OnStack, cpu
<1>2. CASE IrqHandler
  BY <1>2 DEF IrqHandler, IsrMissed, IsrPowerUp, IsrWrite, IsrRead, IsrIgnored, cpu,
     ProcessRegion, InHandler, OnStack, IsrDeselect, Paused, Resumed
<1>3. CASE Foreground
  <2>1. /\ \A l : Goto(l) => pc' = l /\ ret' = ret /\ \A x : OnStack(x)' <=> OnStack(x)
        /\ \A l, b \in Labels : Call(l, b) =>
              pc' = l /\ ret'[1] = b /\ \A x : OnStack(x)' <=> (x = b \/ OnStack(x))
        /\ Return => /\ pc' = ret[1] /\ pc' \in Below(pc)
                     /\ \A x : OnStack(x) <=> (x = pc' \/ OnStack(x)')
        /\ pc \in TopLabels => \A x : ~OnStack(x)
        /\ pc \notin TopLabels => ret[1] \in Below(pc)
    BY StackMoves
  <2> USE DEF Below, TopLabels, EnLabels, IrqLabels, SwLabels, Labels, RmwLoads, RmwStores,
              Clocking, At, cpu, spi, ProcessRegion, InHandler
  <2>2. CASE FlagLoad
    BY <2>1, <2>2 DEF FlagLoad
  <2>3. CASE FlagStore
    BY <2>1, <2>3 DEF FlagStore
  <2>4. CASE EnableMissed \/ EnablePin
    BY <2>1, <2>4 DEF EnableMissed, EnablePin
  <2>5. CASE Handler
    BY <2>1, <2>5 DEF Handler, HandlerEntry, HandlerDispatch, HandlerRead,
       HandlerDeselect, HandlerDeliver, HandlerUnsolicited, HandlerWrite
  <2>6. CASE SpiWriteStep
    BY <2>1, <2>6 DEF SpiWriteStep, WriteEntry, WriteClaim, WriteSelect, WriteCheck,
       WriteTransfer, WriteDeselect, WriteWait
  <2>7. CASE Wait
    BY <2>1, <2>7 DEF Wait, WaitArm, WaitReceived, WaitParse, WaitPatch, WaitExit, Send
  <2>8. CASE App
    BY <2>1, <2>8 DEF App, Begin, Restart, StartOpen, StartEnable, StartWaitHigh,
       StartWaitLow, AppCall, AppStop, StopWaitHigh, SpiClose, Send
  <2>9. QED BY <1>3, <2>2, <2>3, <2>4, <2>5, <2>6, <2>7, <2>8 DEF Foreground
<1>4. Device \/ Finished => UNCHANGED <<cpu, intReg>>
  BY DEF Device, DevPower, DevReady, DevOff, DevGrant, DevOffer, DevRelease, DevAnswer,
     DevAsync, Finished, vars, cpu, spi
<1>5. QED BY <1>1, <1>2, <1>3, <1>4 DEF Next, vars, cpu, spi

LEMMA StateStep ==
    TypeOK /\ StackOK /\ StateRegion /\ [Next]_vars => StateRegion'
<1> SUFFICES ASSUME TypeOK, StackOK, StateRegion, [Next]_vars
             PROVE  StateRegion'
  OBVIOUS
<1>1. CASE UNCHANGED <<cpu, ulSpiState>>
  BY <1>1 DEF StateRegion, OnStack, cpu
<1>2. CASE IrqHandler
  BY <1>2 DEF IrqHandler, IsrMissed, IsrPowerUp, IsrWrite, IsrRead, IsrIgnored, cpu,
     StateRegion, OnStack
<1>3. CASE Foreground
  <2>1. /\ \A l : Goto(l) => pc' = l /\ ret' = ret /\ \A x : OnStack(x)' <=> OnStack(x)
        /\ \A l, b \in Labels : Call(l, b) =>
              pc' = l /\ ret'[1] = b /\ \A x : OnStack(x)' <=> (x = b \/ OnStack(x))
        /\ Return => /\ pc' = ret[1] /\ pc' \in Below(pc)
                     /\ \A x : OnStack(x) <=> (x = pc' \/ OnStack(x)')
        /\ pc \in TopLabels => \A x : ~OnStack(x)
        /\ pc \notin TopLabels => ret[1] \in Below(pc)
    BY StackMoves
  <2> USE DEF Below, TopLabels, EnLabels, IrqLabels, SwLabels, Labels, RmwLoads, RmwStores,
              Clocking, At, cpu, spi, StateRegion
  <2>2. CASE FlagLoad
    BY <2>1, <2>2 DEF FlagLoad
  <2>3. CASE FlagStore
    BY <2>1, <2>3 DEF FlagStore
  <2>4. CASE EnableMissed \/ EnablePin
    BY <2>1, <2>4 DEF EnableMissed, EnablePin
  <2>5. CASE Handler
    BY <2>1, <2>5 DEF Handler, HandlerEntry, HandlerDispatch, HandlerRead,
       HandlerDeselect, HandlerDeliver, HandlerUnsolicited, HandlerWrite
  <2>6. CASE SpiWriteStep
    BY <2>1, <2>6 DEF SpiWriteStep, WriteEntry, WriteClaim, WriteSelect, WriteCheck,
       WriteTransfer, WriteDeselect, WriteWait
  <2>7. CASE Wait
    BY <2>1, <2>7 DEF Wait, WaitArm, WaitReceived, WaitParse, WaitPatch, WaitExit, Send
  <2>8. CASE App
    BY <2>1, <2>8 DEF App, Begin, Restart, StartOpen, StartEnable, StartWaitHigh,
       StartWaitLow, AppCall, AppStop, StopWaitHigh, SpiClose, Send
  <2>9. QED BY <1>3, <2>2, <2>3, <2>4, <2>5, <2>6, <2>7, <2>8 DEF Foreground
<1>4. Device \/ Finished => UNCHANGED <<cpu, ulSpiState>>
  BY DEF Device, DevPower, DevReady, DevOff, DevGrant, DevOffer, DevRelease, DevAnswer,
     DevAsync, Finished, vars, cpu, spi
<1>5. QED BY <1>1, <1>2, <1>3, <1>4 DEF Next, vars, cpu, spi

LEMMA CsStep ==
    TypeOK /\ StackOK /\ StateRegion /\ ClaimRegion /\ CsRegion /\ [Next]_vars => CsRegion'
<1> SUFFICES ASSUME TypeOK, StackOK, StateRegion, ClaimRegion, CsRegion, [Next]_vars
             PROVE  CsRegion'
  OBVIOUS
<1>1. CASE UNCHANGED <<cpu, ulSpiState, cs>>
  BY <1>1 DEF CsRegion, CsOff, OnStack, cpu
<1>2. CASE IrqHandler
  BY <1>2 DEF IrqHandler, IsrMissed, IsrPowerUp, IsrWrite, IsrRead, IsrIgnored, cpu,
     CsRegion, CsOff, OnStack, IsrDeselect
<1>3. CASE Foreground
  <2>1. /\ \A l : Goto(l) => pc' = l /\ ret' = ret /\ \A x : OnStack(x)' <=> OnStack(x)
        /\ \A l, b \in Labels : Call(l, b) =>
              pc' = l /\ ret'[1] = b /\ \A x : OnStack(x)' <=> (x = b \/ OnStack(x))
        /\ Return => /\ pc' = ret[1] /\ pc' \in Below(pc)
                     /\ \A x : OnStack(x) <=> (x = pc' \/ OnStack(x)')
        /\ pc \in TopLabels => \A x : ~OnStack(x)
        /\ pc \notin TopLabels => ret[1] \in Below(pc)
    BY StackMoves
  <2>1a. /\ pc \in {"irq_desel", "irq_idle"} => ulSpiState = "READ_EOT"
         /\ pc \in TopLabels => ulSpiState # "WRITE_IRQ"
         /\ pc = "sw_cs" => ulSpiState = "WRITE_IRQ"
    BY <2>1 DEF StateRegion, ClaimRegion, TopLabels
  <2> USE DEF Below, TopLabels, EnLabels, IrqLabels, SwLabels, Labels, RmwLoads, RmwStores,
              Clocking, At, cpu, spi, CsRegion, CsOff
  <2>2. CASE FlagLoad
    BY <2>1, <2>1a, <2>2 DEF FlagLoad
  <2>3. CASE FlagStore
    BY <2>1, <2>1a, <2>3 DEF FlagStore
  <2>4. CASE EnableMissed \/ EnablePin
    <3>1. CASE EnableMissed
      BY <2>1, <2>1a, <3>1 DEF EnableMissed
    <3>2. CASE EnablePin
      BY <2>1, <2>1a, <3>2 DEF EnablePin
    <3>3. QED BY <2>4, <3>1, <3>2
  <2>5. CASE Handler
    <3>1. CASE HandlerEntry
      BY <2>1, <2>1a, <3>1 DEF HandlerEntry
    <3>2. CASE HandlerDispatch
      <4>1. cs => ulSpiState = "WRITE_IRQ"
        BY <3>2 DEF HandlerDispatch
      <4>2. CASE ulSpiState = "IDLE"
        BY <2>1, <3>2, <4>2 DEF HandlerDispatch
      <4>3. CASE ulSpiState # "IDLE"
        <5>1. /\ cs' = cs
              /\ ulSpiState = "WRITE_IRQ" => ulSpiState' = "WRITE_IRQ"
              /\ pc' \in {"irq_done", "irq_write"}
          BY <2>1, <3>2, <4>3 DEF HandlerDispatch
        <5>2. QED BY <4>1, <5>1
      <4>4. QED BY <4>2, <4>3
    <3>3. CASE HandlerRead
      BY <2>1, <2>1a, <3>3 DEF HandlerRead
    <3>4. CASE HandlerDeselect
      BY <2>1, <2>1a, <3>4 DEF HandlerDeselect
    <3>5. CASE HandlerDeliver
      BY <2>1, <2>1a, <3>5 DEF HandlerDeliver
    <3>6. CASE HandlerUnsolicited
      BY <2>1, <2>1a, <3>6 DEF HandlerUnsolicited
    <3>7. CASE HandlerWrite
      BY <2>1, <2>1a, <3>7 DEF HandlerWrite
    <3>8. QED BY <2>5, <3>1, <3>2, <3>3, <3>4, <3>5, <3>6, <3>7 DEF Handler
  <2>6. CASE SpiWriteStep
    <3>1. CASE WriteEntry
      <4>1. CASE ulSpiState = "INITIALIZED"
        BY <2>1, <3>1, <4>1 DEF WriteEntry
      <4>2. CASE ulSpiState # "INITIALIZED"
        <5>1. cs' = cs /\ ulSpiState' = ulSpiState /\ pc' = "dis"
          BY <2>1, <3>1, <4>2 DEF WriteEntry
        <5>2. cs => ulSpiState = "WRITE_IRQ"
          BY <3>1 DEF WriteEntry
        <5>3. QED BY <5>1, <5>2
      <4>3. QED BY <4>1, <4>2
    <3>2. CASE WriteClaim
      BY <2>1, <2>1a, <3>2 DEF WriteClaim
    <3>3. CASE WriteSelect
      BY <2>1, <2>1a, <3>3 DEF WriteSelect
    <3>4. CASE WriteCheck
      BY <2>1, <2>1a, <3>4 DEF WriteCheck
    <3>5. CASE WriteTransfer
      BY <2>1, <2>1a, <3>5 DEF WriteTransfer
    <3>6. CASE WriteDeselect
      BY <2>1, <2>1a, <3>6 DEF WriteDeselect
    <3>7. CASE WriteWait
      BY <2>1, <2>1a, <3>7 DEF WriteWait
    <3>8. QED BY <2>6, <3>1, <3>2, <3>3, <3>4, <3>5, <3>6, <3>7 DEF SpiWriteStep
  <2>7. CASE Wait
    BY <2>1, <2>1a, <2>7 DEF Wait, WaitArm, WaitReceived, WaitParse, WaitPatch, WaitExit, Send
  <2>8. CASE App
    <3>1. CASE Begin
      BY <2>1, <2>1a, <3>1 DEF Begin, Send
    <3>2. CASE Restart
      BY <2>1, <2>1a, <3>2 DEF Restart, Send
    <3>3. CASE StartOpen
      BY <2>1, <2>1a, <3>3 DEF StartOpen, Send
    <3>4. CASE StartEnable
      BY <2>1, <2>1a, <3>4 DEF StartEnable, Send
    <3>5. CASE StartWaitHigh
      BY <2>1, <2>1a, <3>5 DEF StartWaitHigh, Send
    <3>6. CASE StartWaitLow
      BY <2>1, <2>1a, <3>6 DEF StartWaitLow, Send
    <3>7. CASE AppCall
      BY <2>1, <2>1a, <3>7 DEF AppCall, Send
    <3>8. CASE AppStop
      BY <2>1, <2>1a, <3>8 DEF AppStop, Send
    <3>9. CASE StopWaitHigh
      BY <2>1, <2>1a, <3>9 DEF StopWaitHigh, Send
    <3>10. CASE SpiClose
      BY <2>1, <2>1a, <3>10 DEF SpiClose, Send
    <3>11. QED BY <2>8, <3>1, <3>2, <3>3, <3>4, <3>5, <3>6, <3>7, <3>8, <3>9, <3>10 DEF App
  <2>9. QED BY <1>3, <2>2, <2>3, <2>4, <2>5, <2>6, <2>7, <2>8 DEF Foreground
<1>4. Device \/ Finished => UNCHANGED <<cpu, ulSpiState, cs>>
  BY DEF Device, DevPower, DevReady, DevOff, DevGrant, DevOffer, DevRelease, DevAnswer,
     DevAsync, Finished, vars, cpu, spi
<1>5. QED BY <1>1, <1>2, <1>3, <1>4 DEF Next, vars, cpu, spi
LEMMA ReleaseInit == Init => ReleaseInv
<1> SUFFICES ASSUME Init PROVE ReleaseInv
  OBVIOUS
<1>1. /\ pc = "off" /\ ret = <<>> /\ ulSpiState = "POWERUP" /\ cs = FALSE
      /\ intReg = {} /\ tmp = {}
  BY DEF Init
<1>2. StackOK
  BY <1>1 DEF StackOK, TopLabels
<1>3. StateRegion /\ CsRegion /\ ProcessRegion /\ ClaimRegion
  BY <1>1 DEF StateRegion, CsRegion, ProcessRegion, ClaimRegion
<1>4. QED BY <1>2, <1>3 DEF ReleaseInv

LEMMA ReleaseStep == TypeOK /\ ReleaseInv /\ [Next]_vars => ReleaseInv'
BY StackStep, StateStep, CsStep, ProcessStep, ClaimStep DEF ReleaseInv

LEMMA ReleaseSafe == TypeOK /\ ReleaseInv => LinkReleased
<1> SUFFICES ASSUME TypeOK, ReleaseInv,
                    pc \in {"arm", "arm_d", "wt", "wt_parse", "wt_res", "wt_exit", "app"}
             PROVE  ~cs /\ ulSpiState = "IDLE" /\ "PROCESS" \notin intReg
  BY DEF LinkReleased
<1>1. \A x : ~OnStack(x)
  BY StackMoves DEF ReleaseInv, TopLabels
<1>2. ulSpiState \notin {"WRITE_IRQ", "READ_IRQ", "READ_EOT", "POWERUP", "INITIALIZED"}
  BY <1>1 DEF ReleaseInv, StateRegion
<1>3. ulSpiState = "IDLE"
  BY <1>2 DEF TypeOK, DriverTypes, States
<1>4. ~cs
  BY <1>2 DEF ReleaseInv, CsRegion
<1>5. "PROCESS" \notin intReg
  BY <1>1 DEF ReleaseInv, ProcessRegion, InHandler
<1>6. QED BY <1>3, <1>4, <1>5

\* Whatever the device does with the IRQ line and whenever the interrupt
\* strikes, outside SpiWrite and WLAN_IRQ_Handler CS is high, the driver is
\* IDLE and PROCESS is clear.
THEOREM Released == Spec => []LinkReleased
<1>1. Init => TypeOK /\ ReleaseInv
  BY TypeInit, ReleaseInit
<1>2. TypeOK /\ ReleaseInv /\ [Next]_vars => (TypeOK /\ ReleaseInv)'
  BY TypeStep, ReleaseStep
<1>3. QED BY <1>1, <1>2, ReleaseSafe, PTL DEF Spec
-----------------------------------------------------------------------------
(* RxHasBuffer. SpiClose drops the buffer before it disables the interrupt;  *)
(* what protects the handler is that WLAN_EN is low by then (BufferRegion).  *)

LEMMA BufferStep == TypeOK /\ StackOK /\ BufferRegion /\ [Next]_vars => BufferRegion'
<1> SUFFICES ASSUME TypeOK, StackOK, BufferRegion, [Next]_vars PROVE BufferRegion'
  OBVIOUS
<1> USE DEF BufferRegion, cpu, spi, line
<1>1. CASE UNCHANGED <<cpu, pRxPacket, wlanEn, edge>>
  BY <1>1
<1>2. CASE IrqHandler
  BY <1>2 DEF IrqHandler, IsrMissed, IsrPowerUp, IsrWrite, IsrRead, IsrIgnored, Isr
<1>3. CASE Device
  BY <1>3 DEF Device, DevPower, DevReady, DevOff, DevGrant, DevOffer, DevRelease, DevAnswer,
     DevAsync, LowerIrq
<1>4. CASE Foreground
  <2>1. /\ \A l : Goto(l) => pc' = l /\ ret' = ret
        /\ \A l, b \in Labels : Call(l, b) => pc' = l /\ ret'[1] = b
        /\ Return => pc' = ret[1] /\ pc' \in Below(pc)
        /\ pc \notin TopLabels => ret[1] \in Below(pc)
    BY StackMoves
  <2> USE DEF Below, TopLabels, EnLabels, IrqLabels, SwLabels, Labels, RmwLoads, RmwStores,
              Clocking, At
  <2>2. CASE FlagLoad
    BY <2>1, <2>2 DEF FlagLoad
  <2>3. CASE FlagStore
    BY <2>1, <2>3 DEF FlagStore
  <2>4. CASE EnableMissed \/ EnablePin
    BY <2>1, <2>4 DEF EnableMissed, EnablePin
  <2>5. CASE Handler
    BY <2>1, <2>5 DEF Handler, HandlerEntry, HandlerDispatch, HandlerRead,
       HandlerDeselect, HandlerDeliver, HandlerUnsolicited, HandlerWrite
  <2>6. CASE SpiWriteStep
    BY <2>1, <2>6 DEF SpiWriteStep, WriteEntry, WriteClaim, WriteSelect, WriteCheck,
       WriteTransfer, WriteDeselect, WriteWait
  <2>7. CASE Wait
    BY <2>1, <2>7 DEF Wait, WaitArm, WaitReceived, WaitParse, WaitPatch, WaitExit, Send
  <2>8. CASE App
    BY <2>1, <2>8 DEF App, Begin, Restart, StartOpen, StartEnable, StartWaitHigh,
       StartWaitLow, AppCall, AppStop, StopWaitHigh, SpiClose, Send, PowerDown
  <2>9. QED BY <1>4, <2>2, <2>3, <2>4, <2>5, <2>6, <2>7, <2>8 DEF Foreground
<1>5. QED BY <1>1, <1>2, <1>3, <1>4 DEF Next, Finished, vars

LEMMA BufferSafe == BufferRegion /\ (IsrRead \/ HandlerRead) => pRxPacket
BY DEF BufferRegion, IsrRead, HandlerRead, Isr, At

\* No packet is ever received into the null pRxPacket that SpiClose leaves.
THEOREM RxBuffered == Spec => RxHasBuffer
<1>1. Init => TypeOK /\ StackOK /\ BufferRegion
  BY TypeInit, ReleaseInit DEF ReleaseInv, BufferRegion, Init
<1>2. TypeOK /\ StackOK /\ BufferRegion /\ [Next]_vars => (TypeOK /\ StackOK /\ BufferRegion)'
  BY TypeStep, StackStep, BufferStep
<1>3. TypeOK /\ StackOK /\ BufferRegion => [IsrRead \/ HandlerRead => pRxPacket]_vars
  BY BufferSafe
<1>4. QED BY <1>1, <1>2, <1>3, PTL DEF Spec, RxHasBuffer
=============================================================================
