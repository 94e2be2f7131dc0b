------------------------- MODULE SpiLinkSafe_proofs -------------------------
(***************************************************************************)
(* Proofs about SpiLink with a device that lets go of IRQ as soon as CS      *)
(* rises (PromptRelease): wherever the interrupt comes, each packet is       *)
(* written once and on request and read on request (DriverSafe), the         *)
(* interrupt never clocks under the foreground (BusExclusive), and the link  *)
(* implements HciCall (LinkSafe). One lemma per region of SafeInv.           *)
(***************************************************************************)
EXTENDS SpiLink_proofs

(* The stack: which function of the application runs.                         *)

\* Where the labels of the stack can be.
LEMMA Places ==
    ASSUME TypeOK, StackOK
    PROVE  /\ Base \in TopLabels /\ (pc \in TopLabels => Base = pc)
           /\ \A x \in TopLabels : OnStack(x) => Base = x
           /\ pc \notin TopLabels =>
                 Base \in {"ws_pin", "wt_res", "arm", "wt_exit", "stopped", "off"}
           /\ pc \notin TopLabels /\ ret[1] \in TopLabels => Base = ret[1]
           /\ pc \notin TopLabels => ret[1] \in Below(pc) /\ OnStack(ret[1])
           /\ pc \in SwLabels \/ OnStack("sw_chk") \/ OnStack("sw_idle") => Writing
           /\ pc \in SwLabels \/ OnStack("sw_idle") => ~OnStack("sw_chk")
           /\ OnStack("irq_desel") => Disabling("irq_desel")
           /\ OnStack("sw_idle") => Disabling("sw_idle")
           /\ Base \in {"stopped", "off"} /\ pc # Base => pc \in {"dis", "dis_w", "st_pin", "cl"}
<1> DEFINE n == Len(ret)
<1>1. n \in Nat /\ ret \in Seq(Labels) /\ (ret = <<>> <=> n = 0)
  BY DEF TypeOK, CpuTypes
<1>2. \A i \in 1..n : i = n \/ (i + 1 \in 1..n /\ ret[i + 1] \in Below(ret[i]))
  BY <1>1 DEF StackOK
<1>3. pc \notin TopLabels => n > 0 /\ 1 \in 1..n /\ n \in 1..n /\ ret[1] \in Below(pc)
                             /\ ret[n] \in TopLabels /\ Base = ret[n]
  BY <1>1 DEF StackOK, Base
<1>4. pc \in TopLabels => n = 0 /\ Base = pc
  BY <1>1 DEF StackOK, Base
<1>5. \A i \in 1..n : ret[i] \in TopLabels => Base = ret[i]
  <2>1. TAKE i \in 1..n
  <2>2. pc \notin TopLabels
    BY <1>4
  <2>3. i # n => ret[i + 1] \in Below(ret[i])
    BY <1>2
  <2>4. QED BY <2>2, <2>3, <1>3, BelowTop
<1>6. \A i \in 1..n : \/ i = 1 /\ ret[i] \in Below(pc)
                      \/ i - 1 \in 1..n /\ ret[i] \in Below(ret[i - 1])
  <2>1. TAKE i \in 1..n
  <2>2. pc \notin TopLabels
    BY <1>4
  <2>3. i # 1 => i - 1 \in 1..n /\ i - 1 # n /\ ret[(i - 1) + 1] = ret[i]
    BY <1>1
  <2>4. QED BY <2>2, <2>3, <1>2, <1>3
\* Nobody returns to these.
<1>7. \A i \in 1..n : ret[i] \in {"ws_pin", "sw_chk", "wt_res", "irq_done", "en_clr", "arm",
                                  "wt_exit", "sw_idle", "irq_desel", "stopped", "off"}
  BY <1>6 DEF Below, TopLabels, EnLabels, IrqLabels, SwLabels
<1>8. pc \notin TopLabels => Base \in {"ws_pin", "wt_res", "arm", "wt_exit", "stopped", "off"}
  BY <1>3, <1>7 DEF TopLabels
<1>9. \A i \in 1..n : ret[i] \in {"irq_desel", "sw_idle"} =>
         i = 1 /\ pc \in {"dis", "dis_w"}
  <2>1. TAKE i \in 1..n
  <2>2. \A l \in Labels : "irq_desel" \in Below(l) \/ "sw_idle" \in Below(l)
           => l \in {"dis", "dis_w"}
    BY DEF Below, TopLabels, EnLabels, IrqLabels, SwLabels
  <2>3. pc \in Labels
    BY DEF TypeOK, CpuTypes
  <2>4. \A j \in 1..n : ret[j] \in Labels
    BY <1>1
  <2>5. QED BY <2>2, <2>3, <2>4, <1>6, <1>7
<1>10. \A i \in 1..n : ret[i] \in {"sw_chk", "sw_idle"} =>
         i + 1 \in 1..n /\ ret[i + 1] \in {"arm", "wt_exit"} /\ i + 1 = n
  <2>1. TAKE i \in 1..n
  <2>2. HAVE ret[i] \in {"sw_chk", "sw_idle"}
  <2>3. i # n /\ pc \notin TopLabels
    BY <2>2, <1>3, <1>4 DEF TopLabels
  <2>4. i + 1 \in 1..n /\ ret[i + 1] \in {"arm", "wt_exit"}
    BY <2>2, <2>3, <1>2 DEF Below, TopLabels, EnLabels, IrqLabels, SwLabels
  <2>5. i + 1 = n
    <3>1. SUFFICES ASSUME i + 1 # n PROVE FALSE
      OBVIOUS
    <3>2. ret[(i + 1) + 1] \in Below(ret[i + 1])
      BY <2>4, <3>1, <1>2
    <3>3. QED BY <3>2, <2>4, BelowTop DEF TopLabels
  <2>6. QED BY <2>4, <2>5
<1>11. pc \in SwLabels => n = 1 /\ ret[1] \in {"arm", "wt_exit"}
  <2>1. HAVE pc \in SwLabels
  <2>2. pc \notin TopLabels /\ ret[1] \in {"arm", "wt_exit"} /\ 1 \in 1..n
    BY <2>1, <1>3 DEF Below, TopLabels, EnLabels, IrqLabels, SwLabels
  <2>3. n # 1 => ret[1 + 1] \in Below(ret[1])
    BY <2>2, <1>2
  <2>4. QED BY <2>2, <2>3, BelowTop DEF TopLabels
<1>12. Base \in {"stopped", "off"} /\ pc # Base => pc \in {"dis", "dis_w", "st_pin", "cl"}
  <2>1. HAVE Base \in {"stopped", "off"} /\ pc # Base
  <2>2. pc \notin TopLabels /\ ret[n] \in {"stopped", "off"} /\ n \in 1..n
    BY <2>1, <1>3, <1>4
  <2>3. \/ ret[n] \in Below(pc)
        \/ n - 1 \in 1..n /\ ret[n] \in Below(ret[n - 1])
    BY <2>2, <1>6
  <2>4. \A l \in Labels : "stopped" \in Below(l) \/ "off" \in Below(l)
           => l \in {"dis", "dis_w", "st_pin", "cl"}
    BY DEF Below, TopLabels, EnLabels, IrqLabels, SwLabels, Labels, RmwLoads,
       RmwStores, Clocking
  <2>5. pc \in Labels /\ \A j \in 1..n : ret[j] \in Labels
    BY <1>1 DEF TypeOK, CpuTypes
  <2>6. QED BY <2>2, <2>3, <2>4, <2>5, <1>7
<1>13. Base \in TopLabels /\ (pc \in TopLabels => Base = pc)
  BY <1>3, <1>4
<1>14. \A x \in TopLabels : OnStack(x) => Base = x
  BY <1>5 DEF OnStack
<1>15. pc \notin TopLabels /\ ret[1] \in TopLabels => Base = ret[1]
  BY <1>3, <1>5
<1>16. pc \notin TopLabels => ret[1] \in Below(pc) /\ OnStack(ret[1])
  BY <1>3 DEF OnStack
<1>17. pc \in SwLabels \/ OnStack("sw_chk") \/ OnStack("sw_idle") => Writing
  <2>1. pc \in SwLabels => Writing
    BY <1>11, <1>5 DEF Writing, TopLabels
  <2>2. OnStack("sw_chk") \/ OnStack("sw_idle") => Writing
    BY <1>10, <1>5 DEF Writing, OnStack, TopLabels
  <2>3. QED BY <2>1, <2>2
<1>18. pc \in SwLabels \/ OnStack("sw_idle") => ~OnStack("sw_chk")
  <2>1. pc \in SwLabels => ~OnStack("sw_chk")
    BY <1>11 DEF OnStack
  <2>2. ASSUME OnStack("sw_idle"), OnStack("sw_chk") PROVE FALSE
    <3>1. PICK i \in 1..n : ret[i] = "sw_idle"
      BY <2>2 DEF OnStack
    <3>2. PICK j \in 1..n : ret[j] = "sw_chk"
      BY <2>2 DEF OnStack
    <3>3. i + 1 = n /\ j + 1 = n
      BY <3>1, <3>2, <1>10
    <3>4. i = j
      BY <3>3, <1>1
    <3>5. QED BY <3>1, <3>2, <3>4
  <2>3. QED BY <2>1, <2>2
<1>19. /\ OnStack("irq_desel") => Disabling("irq_desel")
       /\ OnStack("sw_idle") => Disabling("sw_idle")
  BY <1>9 DEF OnStack, Disabling
<1>20. QED BY <1>8, <1>12, <1>13, <1>14, <1>15, <1>16, <1>17, <1>18, <1>19

\* The function of the application that runs changes only between its labels.
LEMMA BaseMoves ==
    ASSUME TypeOK, StackOK
    PROVE  /\ \A l : Goto(l) => IF pc \in TopLabels THEN Base' = l ELSE Base' = Base
           /\ \A l, b \in Labels : Call(l, b) =>
                 IF pc \in TopLabels THEN Base' = b ELSE Base' = Base
           /\ Return => Base' = Base
           /\ UNCHANGED cpu => /\ UNCHANGED <<pc, ret, tmp, cmd, tx, parsed>>
                               /\ Base' = Base /\ \A x : OnStack(x)' <=> OnStack(x)
<1> DEFINE n == Len(ret)
<1>1. n \in Nat /\ ret \in Seq(Labels) /\ (ret = <<>> <=> n = 0)
  BY DEF TypeOK, CpuTypes
<1>2. (ret = <<>> <=> pc \in TopLabels) /\ (ret # <<>> => ret[n] \in TopLabels)
  BY DEF StackOK
<1>3. ASSUME NEW l, Goto(l) PROVE IF pc \in TopLabels THEN Base' = l ELSE Base' = Base
  BY <1>3, <1>2 DEF Goto, Base
<1>4. ASSUME NEW l \in Labels, NEW b \in Labels, Call(l, b)
      PROVE  IF pc \in TopLabels THEN Base' = b ELSE Base' = Base
  <2>1. /\ ret' # <<>> /\ Len(ret') = n + 1 /\ ret'[1] = b
        /\ \A i \in 2..(n + 1) : ret'[i] = ret[i - 1]
    BY <1>1, <1>4, CallOnStack
  <2>2. Base' = ret'[n + 1]
    BY <2>1 DEF Base
  <2>3. n # 0 => n + 1 \in 2..(n + 1) /\ (n + 1) - 1 = n
    BY <1>1
  <2>4. QED BY <1>1, <1>2, <2>1, <2>2, <2>3 DEF Base
<1>5. ASSUME Return PROVE Base' = Base
  <2>1. /\ ret # <<>> /\ pc' = ret[1] /\ n \in Nat \ {0} /\ Len(ret') = n - 1
        /\ \A i \in 1..(n - 1) : ret'[i] = ret[i + 1]
        /\ ret' = <<>> <=> n = 1
    <3>1. ret # <<>> /\ pc' = Head(ret) /\ ret' = Tail(ret)
      BY <1>5 DEF Return
    <3>2. QED BY <3>1, <1>1, PopSeq
  <2>2. CASE n = 1
    BY <2>1, <2>2 DEF Base
  <2>3. CASE n # 1
    <3>1. n - 1 \in 1..(n - 1) /\ (n - 1) + 1 = n
      BY <2>1, <2>3
    <3>2. QED BY <2>1, <2>3, <3>1 DEF Base
  <2>4. QED BY <2>2, <2>3
<1>6. ASSUME UNCHANGED cpu
      PROVE  /\ UNCHANGED <<pc, ret, tmp, cmd, tx, parsed>>
             /\ Base' = Base /\ \A x : OnStack(x)' <=> OnStack(x)
  BY <1>6 DEF cpu, Base, OnStack
<1>7. QED BY <1>3, <1>4, <1>5, <1>6

-----------------------------------------------------------------------------
\* What a step can do to the stack.
GotoMoved ==
    \A l : Goto(l) => /\ pc' = l /\ ret' = ret /\ \A x : OnStack(x)' <=> OnStack(x)
                      /\ IF pc \in TopLabels THEN Base' = l ELSE Base' = Base
CallMoved ==
    \A l \in {"en", "dis", "irq", "sw", "st_pin", "cl"},
       b \in {"sw_idle", "irq_desel", "sw_chk", "wt_res", "ws_pin", "irq_done", "en_clr",
              "arm", "wt_exit", "stopped", "off"} :
       Call(l, b) => /\ pc' = l /\ ret'[1] = b /\ \A x : OnStack(x)' <=> (x = b \/ OnStack(x))
                     /\ IF pc \in TopLabels THEN Base' = b ELSE Base' = Base
ReturnMoved ==
    Return => /\ pc' = ret[1] /\ Base' = Base /\ \A x : OnStack(x) <=> (x = pc' \/ OnStack(x)')
              /\ pc = "dis_w" => pc' \in {"sw_idle", "irq_desel", "stopped", "off"}
              /\ pc \in {"en_missed", "en_clr_w"} =>
                    pc' \in {"ws_pin", "sw_chk", "wt_res", "irq_done"}
              /\ pc \in {"irq_miss_w", "irq_done_w"} => pc' = "en_clr"
              /\ pc = "sw_wait" => pc' \in {"arm", "wt_exit"}
Stays ==
    UNCHANGED cpu => /\ UNCHANGED <<pc, ret, tmp, cmd, tx, parsed>> /\ Base' = Base
                     /\ \A x : OnStack(x)' <=> OnStack(x)
StackMoved == GotoMoved /\ CallMoved /\ ReturnMoved /\ Stays

LEMMA Moved == TypeOK /\ StackOK => StackMoved
<1> SUFFICES ASSUME TypeOK, StackOK PROVE StackMoved
  OBVIOUS
<1>1. GotoMoved
  BY StackMoves, BaseMoves DEF GotoMoved
<1>2. CallMoved
  <2>1. {"en", "dis", "irq", "sw", "st_pin", "cl"} \subseteq Labels
    BY DEF Labels, RmwLoads
  <2>2. {"sw_idle", "irq_desel", "sw_chk", "wt_res", "ws_pin", "irq_done", "en_clr",
         "arm", "wt_exit", "stopped", "off"} \subseteq Labels
    BY DEF Labels, RmwLoads
  <2>3. QED BY <2>1, <2>2, StackMoves, BaseMoves DEF CallMoved
<1>3. ReturnMoved
  <2>1. /\ Below("dis_w") = {"sw_idle", "irq_desel", "stopped", "off"}
        /\ \A l \in {"en_missed", "en_clr_w"} :
              Below(l) = {"ws_pin", "sw_chk", "wt_res", "irq_done"}
        /\ \A l \in {"irq_miss_w", "irq_done_w"} : Below(l) = {"en_clr"}
        /\ Below("sw_wait") = {"arm", "wt_exit"}
    BY DEF Below, TopLabels, EnLabels, IrqLabels, SwLabels
  <2>2. Return => /\ pc' = ret[1] /\ pc' \in Below(pc) /\ Base' = Base
                  /\ \A x : OnStack(x) <=> (x = pc' \/ OnStack(x)')
    BY StackMoves, BaseMoves
  <2>3. QED BY <2>1, <2>2 DEF ReturnMoved
<1>4. Stays
  BY BaseMoves DEF Stays
<1>5. QED BY <1>1, <1>2, <1>3, <1>4 DEF StackMoved

-----------------------------------------------------------------------------
\* Which function of the application the labels belong to.
LEMMA WhereFrom == TypeOK /\ ReleaseInv => Belongs
<1> SUFFICES ASSUME TypeOK, ReleaseInv PROVE Belongs
  OBVIOUS
<1>1. /\ Base \in TopLabels /\ (pc \in TopLabels => Base = pc)
      /\ \A x \in TopLabels : OnStack(x) => Base = x
      /\ pc \notin TopLabels =>
            Base \in {"ws_pin", "wt_res", "arm", "wt_exit", "stopped", "off"}
      /\ pc \notin TopLabels => ret[1] \in Below(pc) /\ OnStack(ret[1])
      /\ pc \in SwLabels \/ OnStack("sw_chk") \/ OnStack("sw_idle") => Writing
      /\ pc \in SwLabels \/ OnStack("sw_idle") => ~OnStack("sw_chk")
      /\ Base \in {"stopped", "off"} /\ pc # Base => pc \in {"dis", "dis_w", "st_pin", "cl"}
  BY Places DEF ReleaseInv
<1>2. pc \in {"st_pin", "cl"} => ret[1] \in {"stopped", "off"} /\ Base = ret[1]
  BY <1>1 DEF Below, TopLabels, EnLabels, IrqLabels, SwLabels
<1>3. Disabling("sw_idle") => OnStack("sw_idle")
  BY <1>1 DEF Disabling, TopLabels
<1>4. ulSpiState = "WRITE_IRQ" => pc \in {"sw_cs", "sw_chk", "sw_xfer", "sw_wait"} \/ OnStack("sw_chk")
  BY DEF ReleaseInv, StateRegion
<1>5. ulSpiState = "WRITE_IRQ" => Writing
  BY <1>1, <1>4 DEF SwLabels
<1>6. ulSpiState = "WRITE_IRQ" => pc \notin {"sw", "sw_first", "sw_idle", "sw_desel"}
  BY <1>1, <1>4 DEF SwLabels
<1>7. ulSpiState = "WRITE_IRQ" => ~Disabling("sw_idle")
  BY <1>1, <1>3, <1>4 DEF Disabling
<1>8. ASSUME pc \in EnLabels
      PROVE CASE ret[1] \in {"ws_pin", "wt_res"} -> Base = ret[1]
              [] ret[1] = "sw_chk"               -> Writing
              [] ret[1] = "irq_done"             -> OnStack("irq_done")
              [] OTHER                           -> FALSE
  <2>1. pc \notin TopLabels
    BY <1>8 DEF TopLabels, EnLabels
  <2>2. ret[1] \in {"ws_pin", "sw_chk", "wt_res", "irq_done"} /\ OnStack(ret[1])
    <3>1. ret[1] \in Below(pc) /\ OnStack(ret[1])
      BY <1>1, <2>1
    <3>2. pc \in EnLabels => Below(pc) \subseteq {"ws_pin", "sw_chk", "wt_res", "irq_done"}
      BY DEF Below, TopLabels, EnLabels, IrqLabels, SwLabels
    <3>3. QED BY <1>8, <3>1, <3>2
  <2>3. ret[1] \in {"ws_pin", "wt_res"} => Base = ret[1]
    BY <1>1, <2>2 DEF TopLabels
  <2>4. ret[1] = "sw_chk" => Writing
    BY <1>1, <2>2
  <2>5. QED BY <2>2, <2>3, <2>4
<1>9. ulSpiState = "WRITE_IRQ" => pc \notin TopLabels
  <2>1. pc \in TopLabels => \A x : ~OnStack(x)
    BY StackMoves DEF ReleaseInv
  <2>2. QED BY <2>1, <1>4 DEF TopLabels
<1>10. QED BY <1>1, <1>2, <1>3, <1>5, <1>6, <1>7, <1>8, <1>9 DEF Belongs

\* Where the power, the boot and the labels of a transfer exclude each other.
LEMMA Powered == Safe => Up
<1> SUFFICES ASSUME Safe PROVE Up
  OBVIOUS
<1>1. Belongs
  BY WhereFrom DEF Safe
<1>2. PowerRegion /\ BootRegion /\ NestRegion
  BY DEF Safe, SafeInv
<1>3. /\ pc = "irq_wdesel" => Writing
      /\ served <=> ServedHere
      /\ pc = "irq_write" => ulSpiState = "WRITE_IRQ"
      /\ edge => wlanEn
  BY DEF Safe, SafeInv, LineRegion, RequestRegion, BufferRegion
<1>4. wlanEn => IF Powering THEN devState \in {"off", "boot", "ready"} /\ Starting
                ELSE \/ devState \in {"init", "up"} /\ ~Starting
                     \/ devState = "ready" /\ Starting /\ pc \in {"sw", "sw_first"} /\ tx = "START"
  BY <1>1, <1>2 DEF PowerRegion
<1>5. devState = "ready" => Starting /\ pc \in {"ws_high", "ws_low", "sw", "sw_first"}
  BY <1>4, <1>2 DEF BootRegion, Powering
<1>6. /\ pc \in {"irq_read", "irq_write", "irq_desel", "irq_wdesel", "irq_idle", "irq_rx"}
                \cup SwLabels => Base \in {"wt_res", "arm", "wt_exit"}
      /\ Disabling("irq_desel") => Base = "wt_res"
      /\ ulSpiState = "WRITE_IRQ" => Base \in {"arm", "wt_exit"}
  BY <1>1, <1>2, <1>3 DEF Belongs, NestRegion, Reading, Writing
<1>7. ~wlanEn => /\ Base \in {"off", "stopped", "ws", "ws_pin"} /\ ~edge
                 /\ pc \notin {"irq_read", "irq_write", "irq_desel", "irq_wdesel", "irq_idle",
                               "irq_rx"} \cup SwLabels
                 /\ ulSpiState # "WRITE_IRQ"
                 /\ ~Disabling("irq_desel")
  BY <1>2, <1>3, <1>6 DEF PowerRegion
<1>8. ~wlanEn => ~served
  BY <1>3, <1>7 DEF ServedHere, SwLabels
<1>9. Base \in {"wt_res", "arm", "wt_exit"} => wlanEn
  BY <1>2 DEF PowerRegion
<1>10. Powering => Base = pc
  BY <1>1 DEF Belongs, Powering, TopLabels
<1>11. pc \in {"irq_read", "irq_write", "irq_desel", "irq_wdesel", "irq_idle", "irq_rx",
               "sw_idle", "sw_cs", "sw_chk", "sw_xfer", "sw_desel", "sw_wait"}
          => devState \in {"init", "up"}
  BY <1>4, <1>6, <1>9 DEF Powering, SwLabels
<1>12. ulSpiState = "WRITE_IRQ" => devState \in {"init", "up"}
  BY <1>4, <1>6, <1>9, <1>10, <1>1 DEF Powering, Starting
<1>13. pc = "sw_first" => devState \in {"init", "up"} \/ (devState = "ready" /\ tx = "START")
  BY <1>4, <1>6, <1>9 DEF Powering, SwLabels
<1>14. served => devState \in {"init", "up"}
  BY <1>3, <1>4, <1>6, <1>9, <1>11 DEF ServedHere, Disabling, Powering
<1>15. pc \in IrqLabels /\ Base # "ws_pin" => wlanEn /\ ~Starting /\ devState \in {"init", "up"}
  <2>1. pc \in IrqLabels => pc \notin TopLabels \cup SwLabels \cup {"dis", "dis_w", "st_pin", "cl"}
    BY DEF IrqLabels, TopLabels, SwLabels
  <2>2. pc \in IrqLabels /\ Base # "ws_pin" => Base \in {"wt_res", "arm", "wt_exit"}
    BY <2>1, <1>1 DEF Belongs
  <2>3. QED BY <2>1, <2>2, <1>4, <1>9 DEF Powering, SwLabels, TopLabels
<1>16. pc \in SwLabels => wlanEn
  BY <1>6, <1>9
<1>17. QED BY <1>4, <1>5, <1>7, <1>8, <1>11, <1>12, <1>13, <1>14, <1>15, <1>16 DEF Up

-----------------------------------------------------------------------------
(* What the device offers.                                                   *)

\* What the three ways the queue of the device changes make of what it offers.
LEMMA OfferedMoves ==
    ASSUME outq \in Seq(Packets)
    PROVE  /\ \A p : outq' = Append(outq, p) => Offered' = Offered \cup {p}
           /\ \A p, r : outq' = outq \o <<p, r>> => Offered' = Offered \cup {p, r}
           /\ outq # <<>> /\ outq' = Tail(outq) =>
                 /\ Head(outq) \in Offered /\ Offered' \subseteq Offered
                 /\ Offered \subseteq Offered' \cup {Head(outq)}
           /\ outq' = <<>> => Offered' = {}
           /\ outq = <<>> => Offered = {}
           /\ Offered \subseteq Packets
<1> DEFINE n == Len(outq)
<1>0. n \in Nat /\ DOMAIN outq = 1..n /\ \A i \in 1..n : outq[i] \in Packets
  OBVIOUS
<1>1. ASSUME NEW p, outq' = Append(outq, p) PROVE Offered' = Offered \cup {p}
  <2>1. /\ DOMAIN outq' = 1..(n + 1) /\ outq'[n + 1] = p
        /\ \A i \in 1..n : outq'[i] = outq[i]
    BY <1>0, <1>1
  <2>2. ASSUME NEW x \in Offered' PROVE x \in Offered \cup {p}
    <3>1. PICK i \in 1..(n + 1) : outq'[i] = x
      BY <2>1, <2>2 DEF Offered
    <3>2. i = n + 1 \/ i \in 1..n
      BY <1>0
    <3>3. QED BY <3>1, <3>2, <2>1, <1>0 DEF Offered
  <2>3. ASSUME NEW x \in Offered \cup {p} PROVE x \in Offered'
    <3>1. CASE x = p
      <4>1. n + 1 \in 1..(n + 1)
        BY <1>0
      <4>2. QED BY <3>1, <4>1, <2>1 DEF Offered
    <3>2. CASE x \in Offered
      <4>1. PICK i \in 1..n : outq[i] = x
        BY <3>2, <1>0 DEF Offered
      <4>2. i \in 1..(n + 1)
        BY <1>0
      <4>3. QED BY <4>1, <4>2, <2>1 DEF Offered
    <3>3. QED BY <2>3, <3>1, <3>2
  <2>4. QED BY <2>2, <2>3
<1>2. ASSUME NEW p, NEW r, outq' = outq \o <<p, r>> PROVE Offered' = Offered \cup {p, r}
  <2>1. /\ DOMAIN outq' = 1..(n + 2) /\ outq'[n + 1] = p /\ outq'[n + 2] = r
        /\ \A i \in 1..n : outq'[i] = outq[i]
    BY <1>0, <1>2
  <2>2. ASSUME NEW x \in Offered' PROVE x \in Offered \cup {p, r}
    <3>1. PICK i \in 1..(n + 2) : outq'[i] = x
      BY <2>1, <2>2 DEF Offered
    <3>2. i = n + 1 \/ i = n + 2 \/ i \in 1..n
      BY <1>0
    <3>3. QED BY <3>1, <3>2, <2>1, <1>0 DEF Offered
  <2>3. ASSUME NEW x \in Offered \cup {p, r} PROVE x \in Offered'
    <3>1. CASE x = p \/ x = r
      <4>1. n + 1 \in 1..(n + 2) /\ n + 2 \in 1..(n + 2)
        BY <1>0
      <4>2. QED BY <3>1, <4>1, <2>1 DEF Offered
    <3>2. CASE x \in Offered
      <4>1. PICK i \in 1..n : outq[i] = x
        BY <3>2, <1>0 DEF Offered
      <4>2. i \in 1..(n + 2)
        BY <1>0
      <4>3. QED BY <4>1, <4>2, <2>1 DEF Offered
    <3>3. QED BY <2>3, <3>1, <3>2
  <2>4. QED BY <2>2, <2>3
<1>3. ASSUME outq # <<>>, outq' = Tail(outq)
      PROVE  /\ Head(outq) \in Offered /\ Offered' \subseteq Offered
             /\ Offered \subseteq Offered' \cup {Head(outq)}
  <2>1. /\ Head(outq) = outq[1] /\ n \in Nat \ {0} /\ outq' \in Seq(Packets)
        /\ Len(outq') = n - 1 /\ \A i \in 1..(n - 1) : outq'[i] = outq[i + 1]
    BY <1>3, PopSeq
  <2>2. DOMAIN outq' = 1..(n - 1)
    BY <2>1
  <2>3. Head(outq) \in Offered
    <3>1. 1 \in 1..n
      BY <2>1
    <3>2. QED BY <2>1, <3>1, <1>0 DEF Offered
  <2>4. ASSUME NEW x \in Offered' PROVE x \in Offered
    <3>1. PICK i \in 1..(n - 1) : outq'[i] = x
      BY <2>2, <2>4 DEF Offered
    <3>2. i + 1 \in 1..n /\ outq[i + 1] = x
      BY <3>1, <2>1
    <3>3. QED BY <3>2, <1>0 DEF Offered
  <2>5. ASSUME NEW x \in Offered PROVE x \in Offered' \cup {Head(outq)}
    <3>1. PICK i \in 1..n : outq[i] = x
      BY <2>5, <1>0 DEF Offered
    <3>2. CASE i = 1
      BY <3>1, <3>2, <2>1
    <3>3. CASE i # 1
      <4>1. i - 1 \in 1..(n - 1) /\ outq'[i - 1] = x
        BY <3>1, <3>3, <2>1
      <4>2. QED BY <4>1, <2>2 DEF Offered
    <3>4. QED BY <3>2, <3>3
  <2>6. QED BY <2>3, <2>4, <2>5
<1>4. (outq' = <<>> => Offered' = {}) /\ (outq = <<>> => Offered = {})
  BY DEF Offered
<1>5. Offered \subseteq Packets
  BY <1>0 DEF Offered
<1>6. QED BY <1>1, <1>2, <1>3, <1>4, <1>5

\* Behind a packet that is not an unsolicited event there is at most its data.
LEMMA ShapeTail ==
    ASSUME outq \in Seq(Packets), outq # <<>>, outq' = Tail(outq), rxBuffer' = Head(outq),
           QueueShape
    PROVE  /\ QueueShape'
           /\ Head(outq) # "async" => Offered' \subseteq {"async", "data"}
           /\ Head(outq) \notin {"async", "replyData"} => Offered' \subseteq {"async"}
           /\ "data" \in Offered /\ "replyData" \notin Offered => Head(outq) = "data"
<1> DEFINE n == Len(outq)
<1>1. /\ Head(outq) = outq[1] /\ n \in Nat \ {0} /\ outq' \in Seq(Packets)
      /\ Len(outq') = n - 1 /\ \A i \in 1..(n - 1) : outq'[i] = outq[i + 1]
  BY PopSeq
<1>2. DOMAIN outq = 1..n /\ DOMAIN outq' = 1..(n - 1)
  BY <1>1
<1>3. \A i, j \in 1..(n - 1) : i < j /\ outq'[i] # "async" /\ outq'[j] # "async" =>
          j = i + 1 /\ outq'[i] = "replyData" /\ outq'[j] = "data"
  <2>1. TAKE i, j \in 1..(n - 1)
  <2>2. /\ i + 1 \in 1..n /\ j + 1 \in 1..n /\ (i < j => i + 1 < j + 1)
        /\ (j + 1 = (i + 1) + 1 => j = i + 1)
    BY <1>1
  <2>3. QED BY <2>2, <1>1 DEF QueueShape
<1>4. \A i \in 2..(n - 1) : outq'[i] = "data" => outq'[i - 1] = "replyData"
  <2>1. TAKE i \in 2..(n - 1)
  <2>2. i + 1 \in 2..n /\ i \in 1..(n - 1) /\ i - 1 \in 1..(n - 1) /\ (i - 1) + 1 = (i + 1) - 1
    BY <1>1
  <2>3. QED BY <2>2, <1>1 DEF QueueShape
<1>5. outq' # <<>> /\ outq'[1] = "data" => rxBuffer' = "replyData"
  <2>1. HAVE outq' # <<>> /\ outq'[1] = "data"
  <2>2. n - 1 # 0
    BY <2>1, <1>1
  <2>3. 2 \in 2..n /\ 1 \in 1..(n - 1) /\ outq[2] = "data"
    BY <2>1, <2>2, <1>1
  <2>4. outq[2 - 1] = "replyData"
    BY <2>3 DEF QueueShape
  <2>5. QED BY <2>4, <1>1
<1>6. QueueShape'
  BY <1>1, <1>3, <1>4, <1>5 DEF QueueShape
<1>7. ASSUME Head(outq) # "async", NEW x \in Offered', x # "async"
      PROVE  x = "data" /\ Head(outq) = "replyData"
  <2>1. PICK i \in 1..(n - 1) : outq'[i] = x
    BY <1>2, <1>7 DEF Offered
  <2>2. i + 1 \in 1..n /\ 1 \in 1..n /\ 1 < i + 1 /\ outq[i + 1] = x
    BY <2>1, <1>1
  <2>3. QED BY <2>2, <1>1, <1>7 DEF QueueShape
<1>8. "data" \in Offered /\ "replyData" \notin Offered => Head(outq) = "data"
  <2>1. HAVE "data" \in Offered /\ "replyData" \notin Offered
  <2>2. PICK i \in 1..n : outq[i] = "data"
    BY <1>2, <2>1 DEF Offered
  <2>3. CASE i = 1
    BY <2>2, <2>3, <1>1
  <2>4. CASE i # 1
    <3>1. i \in 2..n /\ i - 1 \in 1..n
      BY <2>4, <1>1
    <3>2. outq[i - 1] = "replyData"
      BY <3>1, <2>2 DEF QueueShape
    <3>3. QED BY <3>1, <3>2, <1>2, <2>1 DEF Offered
  <2>5. QED BY <2>3, <2>4
<1>9. QED BY <1>6, <1>7, <1>8

\* An answer is appended to a queue of unsolicited events only.
LEMMA ShapeAppend ==
    ASSUME outq \in Seq(Packets), QueueShape, UNCHANGED rxBuffer,
           \/ outq' = Append(outq, "async")
           \/ /\ Offered \subseteq {"async"}
              /\ \/ \E p \in {"reply", "patch"} : outq' = Append(outq, p)
                 \/ outq' = outq \o <<"replyData", "data">>
    PROVE  QueueShape'
<1> DEFINE n == Len(outq)
<1>1. n \in Nat /\ DOMAIN outq = 1..n /\ (outq = <<>> <=> n = 0)
  OBVIOUS
<1>2. CASE outq' = outq \o <<"replyData", "data">> /\ Offered \subseteq {"async"}
  <2>1. /\ Len(outq') = n + 2 /\ outq'[n + 1] = "replyData" /\ outq'[n + 2] = "data"
        /\ \A i \in 1..n : outq'[i] = outq[i]
    BY <1>1, <1>2
  <2>2. \A i \in 1..n : outq'[i] = "async"
    BY <2>1, <1>1, <1>2 DEF Offered
  <2>3. \A i \in 1..(n + 2) : i \in 1..n \/ i = n + 1 \/ i = n + 2
    BY <1>1
  <2>4. \A i, j \in 1..(n + 2) : i < j /\ outq'[i] # "async" /\ outq'[j] # "async" =>
          j = i + 1 /\ outq'[i] = "replyData" /\ outq'[j] = "data"
    BY <2>1, <2>2, <2>3, <1>1
  <2>5. \A i \in 2..(n + 2) : outq'[i] = "data" => outq'[i - 1] = "replyData"
    <3>1. TAKE i \in 2..(n + 2)
    <3>2. i \in 1..n \/ i = n + 1 \/ i = n + 2
      BY <2>3
    <3>3. i = n + 2 => i - 1 = n + 1
      BY <1>1
    <3>4. QED BY <2>1, <2>2, <3>2, <3>3
  <2>6. outq'[1] # "data"
    <3>1. n = 0 => outq'[1] = "replyData"
      BY <2>1
    <3>2. n # 0 => 1 \in 1..n
      BY <1>1
    <3>3. QED BY <2>2, <3>1, <3>2
  <2>7. QED BY <2>1, <2>4, <2>5, <2>6 DEF QueueShape
<1>3. ASSUME NEW p \in {"reply", "patch", "async"}, outq' = Append(outq, p),
             p = "async" \/ Offered \subseteq {"async"}
      PROVE  QueueShape'
  <2>1. /\ Len(outq') = n + 1 /\ outq'[n + 1] = p
        /\ \A i \in 1..n : outq'[i] = outq[i]
    BY <1>1, <1>3
  <2>2. p # "async" => \A i \in 1..n : outq'[i] = "async"
    BY <2>1, <1>1, <1>3 DEF Offered
  <2>3. \A i \in 1..(n + 1) : i \in 1..n \/ i = n + 1
    BY <1>1
  <2>4. \A i, j \in 1..(n + 1) : i < j /\ outq'[i] # "async" /\ outq'[j] # "async" =>
          j = i + 1 /\ outq'[i] = "replyData" /\ outq'[j] = "data"
    <3>1. CASE p = "async"
      BY <3>1, <2>1, <2>3, <1>1 DEF QueueShape
    <3>2. CASE p # "async"
      BY <3>2, <2>1, <2>2, <2>3, <1>1
    <3>3. QED BY <3>1, <3>2
  <2>5. \A i \in 2..(n + 1) : outq'[i] = "data" => outq'[i - 1] = "replyData"
    <3>1. TAKE i \in 2..(n + 1)
    <3>2. HAVE outq'[i] = "data"
    <3>3. i \in 2..n /\ i \in 1..n /\ i - 1 \in 1..n
      BY <3>2, <2>1, <2>3, <1>3, <1>1
    <3>4. QED BY <3>2, <3>3, <2>1 DEF QueueShape
  <2>6. outq'[1] = "data" => outq # <<>> /\ outq[1] = "data"
    <3>1. n = 0 => outq'[1] = p
      BY <2>1
    <3>2. n # 0 => 1 \in 1..n
      BY <1>1
    <3>3. QED BY <2>1, <3>1, <3>2, <1>1, <1>3
  <2>7. QED BY <2>1, <2>4, <2>5, <2>6 DEF QueueShape
<1>4. QED BY <1>2, <1>3

\* Every packet read is the oldest one the device offers.
LEMMA ReadMoves ==
    ASSUME Safe, IsrRead \/ HandlerRead
    PROVE  /\ outq # <<>> /\ outq' = Tail(outq) /\ rxBuffer' = Head(outq)
           /\ rxBuffer' \in Offered /\ Offered' \subseteq Offered
           /\ Offered \subseteq Offered' \cup {rxBuffer'}
           /\ QueueShape'
           /\ rxBuffer' # "async" => devTodo = "none" /\ Offered' \subseteq {"async", "data"}
           /\ rxBuffer' \notin {"async", "replyData"} => Offered' \subseteq {"async"}
           /\ "data" \in Offered /\ "replyData" \notin Offered => rxBuffer' = "data"
           /\ Clear => rxBuffer' = "async" /\ Offered' \subseteq {"async"}
           /\ UNCHANGED <<devTodo, devState>>
<1>1. Belongs /\ Up
  BY WhereFrom, Powered DEF Safe
<1>2. LineRegion /\ RequestRegion /\ OfferRegion /\ BootRegion /\ QueueRegion
  BY DEF Safe, SafeInv
<1>3. CsRegion
  BY DEF Safe, ReleaseInv
<1>4. outq # <<>> /\ irqLow /\ ~served /\ ReadPacket
  <2>1. CASE HandlerRead
    BY <2>1, <1>2 DEF HandlerRead, At, RequestRegion, Request
  <2>2. CASE IsrRead
    <3>1. edge /\ irqLow /\ ~served /\ ReadPacket /\ ulSpiState = "IDLE"
      BY <2>2, <1>2 DEF IsrRead, Isr, LineRegion
    <3>2. ~cs
      BY <3>1, <1>2, <1>3 DEF LineRegion, ServedHere, Disabling, RequestRegion,
         Request, CsRegion
    <3>3. wlanEn /\ devState \in {"init", "up"}
      BY <3>1, <1>1, <1>2 DEF Up, BootRegion, Starting
    <3>4. QED BY <3>1, <3>2, <3>3, <1>2 DEF OfferRegion
  <2>3. QED BY <2>1, <2>2
<1>5. outq' = Tail(outq) /\ rxBuffer' = Head(outq)
  BY <1>4 DEF ReadPacket
<1>6. /\ Head(outq) \in Offered /\ Offered' \subseteq Offered
      /\ Offered \subseteq Offered' \cup {Head(outq)}
  BY <1>4, <1>5, OfferedMoves DEF Safe, TypeOK, DeviceTypes
<1>7. /\ QueueShape'
      /\ Head(outq) # "async" => Offered' \subseteq {"async", "data"}
      /\ Head(outq) \notin {"async", "replyData"} => Offered' \subseteq {"async"}
      /\ "data" \in Offered /\ "replyData" \notin Offered => Head(outq) = "data"
  BY <1>2, <1>4, <1>5, ShapeTail DEF QueueRegion, Safe, TypeOK, DeviceTypes
<1>8. rxBuffer' # "async" => devTodo = "none"
  BY <1>2, <1>5, <1>6 DEF QueueRegion
<1>9. UNCHANGED <<devTodo, devState>>
  BY DEF IsrRead, HandlerRead
<1>10. QED BY <1>4, <1>5, <1>6, <1>7, <1>8, <1>9 DEF Clear

\* A packet is transferred exactly while it is still to be sent.
LEMMA DeliverMoves ==
    ASSUME Safe, IsrWrite \/ HandlerWrite \/ WriteTransfer
    PROVE  /\ unsent = 1 => /\ unsent' = 0 /\ devTodo' = tx /\ Writing
                            /\ devState' = IF tx = "START" THEN "init" ELSE devState
           /\ unsent # 1 => UNCHANGED <<unsent, devTodo, devState>>
           /\ unsent' = 0 /\ ulSpiState' = "IDLE" /\ UNCHANGED <<outq, tx, cmd, rxBuffer>>
           /\ pc \notin {"sw", "sw_idle", "sw_cs"} /\ ~Disabling("sw_idle")
<1>1. Belongs
  BY WhereFrom DEF Safe
<1>2. LineRegion /\ RequestRegion /\ UnsentRegion
  BY DEF Safe, SafeInv
<1>3. CsRegion /\ ClaimRegion
  BY DEF Safe, ReleaseInv
<1>4. UNCHANGED <<outq, tx, cmd, rxBuffer>>
  BY DEF IsrWrite, HandlerWrite, WriteTransfer, cpu, spi
<1>5. CASE IsrWrite
  <2>1. ulSpiState = "WRITE_IRQ" /\ pc # "sw_cs" /\ Deliver /\ edge /\ ulSpiState' = "IDLE"
    BY <1>3, <1>5 DEF IsrWrite, Isr, ClaimRegion
  <2>2. Granted
    BY <2>1, <1>2 DEF LineRegion, Granted
  <2>3. unsent = 1 /\ Writing /\ pc \notin {"sw", "sw_idle", "sw_cs"} /\ ~Disabling("sw_idle")
    BY <2>1, <1>1, <1>2 DEF UnsentRegion, Belongs
  <2>4. QED BY <2>1, <2>2, <2>3, <1>4 DEF Deliver
<1>6. CASE HandlerWrite
  <2>1. ulSpiState = "WRITE_IRQ" /\ pc = "irq_write" /\ Deliver /\ ulSpiState' = "IDLE"
    BY <1>2, <1>6 DEF HandlerWrite, At, RequestRegion
  <2>2. Granted
    BY <2>1, <1>2 DEF RequestRegion, Request, Granted
  <2>3. unsent = 1 /\ Writing /\ pc \notin {"sw", "sw_idle", "sw_cs"} /\ ~Disabling("sw_idle")
    BY <2>1, <1>1, <1>2 DEF UnsentRegion, Belongs
  <2>4. QED BY <2>1, <2>2, <2>3, <1>4 DEF Deliver
<1>7. CASE WriteTransfer
  <2>1. pc \in {"sw_first", "sw_xfer"} /\ Deliver /\ ulSpiState' = "IDLE"
    BY <1>7 DEF WriteTransfer, At
  <2>2. Granted <=> cs
    BY <2>1, <1>2 DEF RequestRegion, Request, Granted
  <2>3. Writing /\ pc \notin {"sw", "sw_idle", "sw_cs"} /\ ~Disabling("sw_idle")
    BY <2>1, <1>1 DEF SwLabels, Belongs, Disabling
  <2>4. pc = "sw_first" => cs /\ unsent = 1
    BY <1>2 DEF RequestRegion, UnsentRegion
  <2>5. pc = "sw_xfer" => /\ cs <=> ulSpiState = "WRITE_IRQ"
                          /\ unsent = IF ulSpiState = "WRITE_IRQ" THEN 1 ELSE 0
    BY <1>2, <1>3 DEF LineRegion, UnsentRegion, CsRegion, Disabling
  <2>6. QED BY <2>1, <2>2, <2>3, <2>4, <2>5, <1>4 DEF Deliver
<1>8. QED BY <1>5, <1>6, <1>7

LEMMA DataNext ==
    ASSUME outq \in Seq(Packets), QueueShape, "data" \in Offered
    PROVE  rxBuffer = "replyData" \/ "replyData" \in Offered
<1>1. PICK i \in DOMAIN outq : outq[i] = "data"
  BY DEF Offered
<1>2. i \in 1..Len(outq) /\ Len(outq) \in Nat /\ outq # <<>>
  BY <1>1
<1>3. CASE i = 1
  BY <1>1, <1>2, <1>3 DEF QueueShape
<1>4. CASE i # 1
  <2>1. i \in 2..Len(outq) /\ i - 1 \in DOMAIN outq
    BY <1>2, <1>4
  <2>2. QED BY <2>1, <1>1 DEF QueueShape, Offered
<1>5. QED BY <1>3, <1>4

\* With nothing owed and no data announced by the packet in the buffer, nothing is left.
LEMMA NothingOwed == Safe /\ ~Owed /\ rxBuffer # "replyData" => Clear
<1> SUFFICES ASSUME Safe, ~Owed, rxBuffer # "replyData" PROVE Clear
  OBVIOUS
<1>1. "data" \notin Offered
  BY DataNext DEF Safe, SafeInv, QueueRegion, Owed, TypeOK, DeviceTypes
<1>2. Offered \subseteq Packets \ {"garbage"}
  BY OfferedMoves DEF Safe, SafeInv, QueueRegion, TypeOK, DeviceTypes
<1>3. QED BY <1>1, <1>2 DEF Owed, Clear, Packets, Events

\* The label irq_done is pushed on a stack without it, and only at its top.
LEMMA NestMoves ==
    ASSUME TypeOK, StackOK, NestedOnce
    PROVE  /\ OnStack("irq_done") <=> pc \in EnLabels /\ ret[1] = "irq_done"
           /\ \A l : Goto(l) /\ (OnStack("irq_done") => l \in EnLabels) => NestedOnce'
           /\ \A l, b \in Labels :
                 Call(l, b) /\ ~OnStack("irq_done") /\ (b = "irq_done" => l \in EnLabels)
                 => NestedOnce'
           /\ Return => NestedOnce' /\ ~OnStack("irq_done")'
           /\ UNCHANGED cpu => NestedOnce'
<1> DEFINE n == Len(ret)
<1>1. n \in Nat /\ ret \in Seq(Labels)
  BY DEF TypeOK, CpuTypes
<1>2. OnStack("irq_done") => pc \in EnLabels /\ ret[1] = "irq_done"
  BY DEF OnStack, NestedOnce
<1>3. pc \in EnLabels /\ ret[1] = "irq_done" => OnStack("irq_done")
  <2>1. pc \in EnLabels => OnStack(ret[1])
    BY Places DEF EnLabels, TopLabels
  <2>2. QED BY <2>1
<1>4. ASSUME NEW l, Goto(l), OnStack("irq_done") => l \in EnLabels PROVE NestedOnce'
  BY <1>4 DEF Goto, NestedOnce, OnStack
<1>5. ASSUME NEW l \in Labels, NEW b \in Labels, Call(l, b), ~OnStack("irq_done"),
             b = "irq_done" => l \in EnLabels
      PROVE  NestedOnce'
  <2>1. /\ pc' = l /\ Len(ret') = n + 1 /\ ret'[1] = b
        /\ \A i \in 2..(n + 1) : ret'[i] = ret[i - 1]
    BY <1>1, <1>5, CallOnStack
  <2>2. \A i \in 1..n : ret[i] # "irq_done"
    BY <1>5 DEF OnStack
  <2>3. ASSUME NEW i \in 1..(n + 1), ret'[i] = "irq_done" PROVE i = 1 /\ pc' \in EnLabels
    <3>1. i = 1 \/ (i \in 2..(n + 1) /\ i - 1 \in 1..n)
      BY <1>1
    <3>2. QED BY <3>1, <2>1, <2>2, <2>3, <1>5
  <2>4. QED BY <2>1, <2>3 DEF NestedOnce
<1>6. ASSUME Return PROVE NestedOnce' /\ ~OnStack("irq_done")'
  <2>1. /\ n \in Nat \ {0} /\ Len(ret') = n - 1
        /\ \A i \in 1..(n - 1) : ret'[i] = ret[i + 1]
    <3>1. ret # <<>> /\ ret' = Tail(ret)
      BY <1>6 DEF Return
    <3>2. QED BY <3>1, <1>1, PopSeq
  <2>2. \A i \in 1..(n - 1) : ret'[i] # "irq_done"
    <3>1. \A i \in 1..(n - 1) : i + 1 \in 1..n /\ i + 1 # 1
      BY <2>1
    <3>2. QED BY <3>1, <2>1 DEF NestedOnce
  <2>3. QED BY <2>1, <2>2 DEF NestedOnce, OnStack
<1>7. UNCHANGED cpu => NestedOnce'
  BY DEF cpu, NestedOnce
<1>8. \A l : Goto(l) /\ (OnStack("irq_done") => l \in EnLabels) => NestedOnce'
  BY <1>4
<1>9. \A l, b \in Labels :
         Call(l, b) /\ ~OnStack("irq_done") /\ (b = "irq_done" => l \in EnLabels) => NestedOnce'
  BY <1>5
<1>10. Return => NestedOnce' /\ ~OnStack("irq_done")'
  BY <1>6
<1>11. QED BY <1>2, <1>3, <1>7, <1>8, <1>9, <1>10

-----------------------------------------------------------------------------
(* One step keeps each region.                                               *)

\* WLAN_EN is high from SpiEnable to AppStop, and the driver leaves its start-up states
\* exactly when the first packet starts the device.
LEMMA PowerStep == Safe /\ [Next]_vars => PowerRegion'
<1> SUFFICES ASSUME Safe, [Next]_vars PROVE PowerRegion'
  OBVIOUS
<1>a. GotoMoved /\ CallMoved /\ ReturnMoved /\ Stays
  BY Moved DEF Safe, ReleaseInv, StackMoved
<1>b. /\ pc \in {"irq_read", "irq_idle"} => ~Starting
      /\ pc = "irq_write" => ulSpiState = "WRITE_IRQ"
      /\ ulSpiState = "WRITE_IRQ" => Writing
      /\ pc \in SwLabels => Writing
      /\ pc \in {"sw_first", "sw_xfer", "irq_write"} /\ cs => Granted
      /\ pc = "sw_first" => cs
      /\ Base \in TopLabels /\ (pc \in TopLabels => Base = pc)
      /\ Starting => \/ pc \in {"off", "ws", "ws_pin", "ws_high", "ws_low", "sw_first", "sw"}
                     \/ Base = "ws_pin"
  <2>1. pc \in {"irq_read", "irq_idle"} => ~Starting
    BY DEF Safe, ReleaseInv, StateRegion, Starting
  <2>2. pc = "irq_write" => ulSpiState = "WRITE_IRQ"
    BY DEF Safe, SafeInv, RequestRegion
  <2>3. pc \in SwLabels \/ OnStack("sw_chk") => Writing
    BY Places DEF Safe, ReleaseInv
  <2>4. ulSpiState = "WRITE_IRQ" => Writing
    BY <2>3 DEF Safe, ReleaseInv, StateRegion, SwLabels
  <2>5. pc \in {"sw_first", "sw_xfer", "irq_write"} /\ cs => Granted
    BY DEF Safe, SafeInv, RequestRegion, Request, Granted
  <2>6. pc = "sw_first" => cs
    BY DEF Safe, SafeInv, RequestRegion
  <2>7. OnStack("ws_pin") => Base = "ws_pin"
    BY Places DEF Safe, ReleaseInv, TopLabels
  <2>8. Base \in TopLabels /\ (pc \in TopLabels => Base = pc)
    BY Places DEF Safe, ReleaseInv
  <2>9. QED BY <2>1, <2>2, <2>3, <2>4, <2>5, <2>6, <2>7, <2>8 DEF Safe, ReleaseInv,
     StateRegion, Starting
<1>c. /\ devTodo # "none" => devState \in {"init", "up"}
      /\ devState \in {"boot", "ready"} => wlanEn
      /\ PowerRegion
  BY DEF Safe, SafeInv, BootRegion, TypeOK, DeviceTypes
<1> USE DEF TopLabels, At, cpu, spi, hci, line, dev, PowerRegion, Powering, Starting,
   Writing, SwLabels
<1>1. CASE IrqHandler
  BY <1>a, <1>b, <1>c, <1>1 DEF IrqHandler, IsrMissed, Isr, Stays, IsrPowerUp,
     IsrWrite, IsrDeselect, Deliver, IsrRead, IsrIgnored
<1>2. CASE FlagLoad \/ FlagStore \/ EnableMissed \/ EnablePin
  BY <1>a, <1>b, <1>c, <1>2 DEF FlagLoad, GotoMoved, RmwLoads, FlagStore, ReturnMoved,
     RmwStores, EnableMissed, EnablePin, MissedPending, CallMoved
<1>3. CASE Handler
  BY <1>a, <1>b, <1>c, <1>3 DEF Handler, HandlerEntry, GotoMoved, HandlerDispatch,
     HandlerRead, CallMoved, HandlerDeselect, CsOff, HandlerDeliver,
     HandlerUnsolicited, HandlerWrite, Deliver
<1>4. CASE SpiWriteStep
  BY <1>a, <1>b, <1>c, <1>4 DEF SpiWriteStep, WriteEntry, GotoMoved, CallMoved,
     WriteClaim, WriteSelect, WriteCheck, PinCheck, WriteTransfer, Deliver,
     WriteDeselect, CsOff, WriteWait, ReturnMoved
<1>5. CASE Wait
  BY <1>a, <1>b, <1>c, <1>5 DEF Wait, WaitArm, GotoMoved, WaitReceived, Received,
     WaitParse, ReplyTaken, CallMoved, WaitPatch, Send, WaitExit
<1>6. CASE App
  BY <1>a, <1>b, <1>c, <1>6 DEF App, Begin, Restart, GotoMoved, StartOpen, CallMoved,
     StartEnable, StartWaitHigh, StartWaitLow, Send, AppCall, AppStop, PowerDown,
     StopWaitHigh, SpiClose
<1>7. CASE Device
  BY <1>a, <1>b, <1>c, <1>7 DEF Device, DevPower, Stays, DevReady, LowerIrq, DevOff,
     DevGrant, DevOffer, DevRelease, DevAnswer, DevAsync
<1>8. CASE UNCHANGED vars
  BY <1>a, <1>b, <1>c, <1>8 DEF vars, counts, Stays
<1>9. QED BY <1>1, <1>2, <1>3, <1>4, <1>5, <1>6, <1>7, <1>8 DEF Next, Foreground,
   Finished

\* Only a device with WLAN_EN boots; its first request has no transfer before the first
\* packet, and it owes and offers nothing until then.
LEMMA BootStep == Safe /\ [Next]_vars => BootRegion'
<1> SUFFICES ASSUME Safe, [Next]_vars PROVE BootRegion'
  OBVIOUS
<1>a. GotoMoved /\ CallMoved /\ ReturnMoved /\ Stays
  BY Moved DEF Safe, ReleaseInv, StackMoved
<1>b. Belongs /\ Up
  BY WhereFrom, Powered DEF Safe
<1>c. BootRegion /\ PowerRegion
  BY DEF Safe, SafeInv
<1> USE DEF TopLabels, At, cpu, spi, hci, line, dev, BootRegion, Powering, Starting,
   Writing, SwLabels
<1>1. CASE IrqHandler
  BY <1>a, <1>b, <1>c, <1>1 DEF IrqHandler, IsrMissed, Isr, Stays, Up, Belongs,
     IsrPowerUp, IsrWrite, IsrDeselect, Deliver, IsrRead, ReadPacket, IsrIgnored
<1>2. CASE FlagLoad \/ FlagStore \/ EnableMissed \/ EnablePin
  BY <1>a, <1>b, <1>c, <1>2 DEF FlagLoad, GotoMoved, Up, RmwLoads, FlagStore,
     ReturnMoved, RmwStores, EnableMissed, EnablePin, MissedPending, CallMoved
<1>3. CASE Handler
  BY <1>a, <1>b, <1>c, <1>3 DEF Handler, HandlerEntry, GotoMoved, Up, HandlerDispatch,
     HandlerRead, CallMoved, Belongs, ReadPacket, HandlerDeselect, CsOff,
     HandlerDeliver, HandlerUnsolicited, HandlerWrite, Deliver
<1>4. CASE SpiWriteStep
  <2>1. CASE WriteEntry \/ WriteClaim \/ WriteSelect \/ WriteCheck
    BY <1>a, <1>b, <1>c, <2>1 DEF WriteEntry, GotoMoved, CallMoved, Up, WriteClaim,
       WriteSelect, WriteCheck, PinCheck
  <2>2. CASE WriteTransfer \/ WriteDeselect \/ WriteWait
    BY <1>a, <1>b, <1>c, <2>2 DEF WriteTransfer, GotoMoved, Up, Belongs, Deliver,
       Granted, WriteDeselect, CsOff, WriteWait, ReturnMoved
  <2>3. QED BY <1>4, <2>1, <2>2 DEF SpiWriteStep
<1>5. CASE Wait
  BY <1>a, <1>b, <1>c, <1>5 DEF Wait, WaitArm, GotoMoved, Up, WaitReceived, Received,
     WaitParse, ReplyTaken, CallMoved, WaitPatch, Send, WaitExit
<1>6. CASE App
  BY <1>a, <1>b, <1>c, <1>6 DEF App, Begin, Restart, GotoMoved, Up, Belongs,
     StartOpen, CallMoved, StartEnable, StartWaitHigh, StartWaitLow, Send, AppCall,
     AppStop, PowerDown, StopWaitHigh, SpiClose
<1>7. CASE Device
  BY <1>a, <1>b, <1>c, <1>7 DEF Device, DevPower, Stays, Up, DevReady, LowerIrq,
     DevOff, DevGrant, DevOffer, DevRelease, DevAnswer, DevAsync
<1>8. CASE UNCHANGED vars
  BY <1>a, <1>b, <1>c, <1>8 DEF vars, counts, Stays
<1>9. QED BY <1>1, <1>2, <1>3, <1>4, <1>5, <1>6, <1>7, <1>8 DEF Next, Foreground,
   Finished

\* A request stays served only until CS rises (PromptRelease), so an edge is always that
\* of a request that has had no transfer.
LEMMA LineStep == Safe /\ PromptRelease /\ [Next]_vars => LineRegion'
<1> SUFFICES ASSUME Safe /\ PromptRelease, [Next]_vars PROVE LineRegion'
  OBVIOUS
<1>a. GotoMoved /\ CallMoved /\ ReturnMoved /\ Stays
  BY Moved DEF Safe, ReleaseInv, StackMoved
<1>b. Belongs /\ Up
  BY WhereFrom, Powered DEF Safe
<1>c. LineRegion /\ PromptRelease
  BY DEF Safe, SafeInv
<1>d. RequestRegion /\ ClaimRegion
  BY DEF Safe, SafeInv, ReleaseInv
<1>e. BootRegion /\ StateRegion /\ served \in BOOLEAN /\ cs \in BOOLEAN
  BY DEF Safe, SafeInv, ReleaseInv, TypeOK, DriverTypes, DeviceTypes
<1> USE DEF TopLabels, At, cpu, spi, hci, line, dev, LineRegion, ServedHere,
   Disabling, Writing
<1>1. CASE IrqHandler
  BY <1>a, <1>b, <1>c, <1>d, <1>e, <1>1 DEF IrqHandler, IsrMissed, Isr, Stays,
     IsrPowerUp, IsrWrite, IsrDeselect, ClaimRegion, IsrRead, IsrIgnored
<1>2. CASE FlagLoad \/ FlagStore \/ EnableMissed \/ EnablePin
  BY <1>a, <1>b, <1>c, <1>d, <1>e, <1>2 DEF FlagLoad, GotoMoved, RmwLoads, FlagStore,
     ReturnMoved, RmwStores, EnableMissed, EnablePin, MissedPending, CallMoved
<1>3. CASE Handler
  BY <1>a, <1>b, <1>c, <1>d, <1>e, <1>3 DEF Handler, HandlerEntry, GotoMoved,
     HandlerDispatch, RequestRegion, Request, HandlerRead, CallMoved, HandlerDeselect,
     CsOff, StateRegion, HandlerDeliver, HandlerUnsolicited, HandlerWrite, Granted,
     Belongs
<1>4. CASE SpiWriteStep
  BY <1>a, <1>b, <1>c, <1>d, <1>e, <1>4 DEF SpiWriteStep, WriteEntry, GotoMoved,
     CallMoved, Belongs, SwLabels, WriteClaim, WriteSelect, WriteCheck, PinCheck, Up,
     WriteTransfer, RequestRegion, Request, Granted, WriteDeselect, CsOff, WriteWait,
     ReturnMoved
<1>5. CASE Wait
  BY <1>a, <1>b, <1>c, <1>d, <1>e, <1>5 DEF Wait, WaitArm, GotoMoved, WaitReceived,
     Received, WaitParse, ReplyTaken, CallMoved, WaitPatch, Send, WaitExit
<1>6. CASE App
  BY <1>a, <1>b, <1>c, <1>d, <1>e, <1>6 DEF App, Begin, Restart, GotoMoved, Belongs,
     StartOpen, CallMoved, Starting, StartEnable, StartWaitHigh, StartWaitLow, Send,
     AppCall, AppStop, PowerDown, StopWaitHigh, SpiClose
<1>7. CASE Device
  BY <1>a, <1>b, <1>c, <1>d, <1>e, <1>7 DEF Device, DevPower, Stays, Up, BootRegion,
     DevReady, LowerIrq, DevOff, DevGrant, DevOffer, DevRelease, DevAnswer, DevAsync
<1>8. CASE UNCHANGED vars
  BY <1>a, <1>b, <1>c, <1>d, <1>e, <1>8 DEF vars, counts, Stays
<1>9. QED BY <1>1, <1>2, <1>3, <1>4, <1>5, <1>6, <1>7, <1>8 DEF Next, Foreground,
   Finished

\* While CS is high the only request is that of a packet offered.
LEMMA OfferStep == Safe /\ PromptRelease /\ [Next]_vars => OfferRegion'
<1> SUFFICES ASSUME Safe /\ PromptRelease, [Next]_vars PROVE OfferRegion'
  OBVIOUS
<1>a. GotoMoved /\ CallMoved /\ ReturnMoved /\ Stays
  BY Moved DEF Safe, ReleaseInv, StackMoved
<1>b. Belongs /\ Up
  BY WhereFrom, Powered DEF Safe
<1>c. LineRegion /\ OfferRegion /\ RequestRegion /\ PromptRelease
  BY DEF Safe, SafeInv
<1>d. PowerRegion /\ BootRegion
  BY DEF Safe, SafeInv
<1>e. pc = "irq_idle" => ulSpiState = "READ_EOT"
  BY DEF Safe, ReleaseInv, StateRegion
<1> USE DEF TopLabels, At, cpu, spi, hci, line, dev, OfferRegion
<1>1. CASE IrqHandler
  BY <1>a, <1>b, <1>c, <1>d, <1>1 DEF IrqHandler, IsrMissed, Isr, Stays, IsrPowerUp,
     IsrWrite, IsrDeselect, IsrRead, IsrIgnored
<1>2. CASE FlagLoad \/ FlagStore \/ EnableMissed \/ EnablePin
  BY <1>a, <1>b, <1>c, <1>d, <1>2 DEF FlagLoad, GotoMoved, RmwLoads, FlagStore,
     ReturnMoved, RmwStores, EnableMissed, EnablePin, MissedPending, CallMoved
<1>3. CASE Handler
  BY <1>a, <1>b, <1>c, <1>d, <1>3 DEF Handler, HandlerEntry, GotoMoved,
     HandlerDispatch, HandlerRead, CallMoved, RequestRegion, Request, ReadPacket,
     HandlerDeselect, CsOff, LineRegion, ServedHere, HandlerDeliver,
     HandlerUnsolicited, HandlerWrite, Granted, Deliver, Up
<1>4. CASE SpiWriteStep
  BY <1>a, <1>b, <1>c, <1>d, <1>4 DEF SpiWriteStep, WriteEntry, GotoMoved, CallMoved,
     WriteClaim, WriteSelect, WriteCheck, PinCheck, WriteTransfer, RequestRegion,
     Request, Granted, Deliver, Up, WriteDeselect, CsOff, LineRegion, ServedHere,
     WriteWait, ReturnMoved
<1>5. CASE Wait
  BY <1>a, <1>b, <1>c, <1>d, <1>5 DEF Wait, WaitArm, GotoMoved, WaitReceived,
     Received, WaitParse, ReplyTaken, CallMoved, WaitPatch, Send, WaitExit
<1>6. CASE App
  BY <1>a, <1>b, <1>c, <1>d, <1>6 DEF App, Begin, Restart, GotoMoved, PowerRegion,
     Belongs, StartOpen, CallMoved, StartEnable, StartWaitHigh, StartWaitLow, Send,
     AppCall, AppStop, PowerDown, StopWaitHigh, SpiClose
<1>7. CASE Device
  <2>1. CASE DevPower \/ DevReady \/ DevOff \/ DevGrant
    BY <1>a, <1>b, <1>c, <1>d, <2>1 DEF DevPower, Stays, Up, DevReady, LowerIrq,
       DevOff, DevGrant
  <2>2. CASE DevOffer \/ DevRelease
    BY <1>a, <1>b, <1>c, <1>d, <2>2 DEF DevOffer, LowerIrq, Stays, DevRelease, Up
  <2>3. CASE DevAnswer
    BY <1>a, <1>b, <1>c, <1>d, <2>3 DEF DevAnswer, Stays, Up
  <2>4. CASE DevAsync
    BY <1>a, <1>b, <1>c, <1>d, <2>4 DEF DevAsync, Stays, Up
  <2>5. QED BY <1>7, <2>1, <2>2, <2>3, <2>4 DEF Device
<1>8. CASE UNCHANGED vars
  BY <1>a, <1>b, <1>c, <1>d, <1>8 DEF vars, counts, Stays
<1>9. QED BY <1>1, <1>2, <1>3, <1>4, <1>5, <1>6, <1>7, <1>8 DEF Next, Foreground,
   Finished

\* From the test of the pin to the transfer the request is there: nothing serves it in
\* between, because its edge has been taken.
LEMMA RequestStep == Safe /\ PromptRelease /\ [Next]_vars => RequestRegion'
<1> SUFFICES ASSUME Safe /\ PromptRelease, [Next]_vars PROVE RequestRegion'
  OBVIOUS
<1>a. GotoMoved /\ CallMoved /\ ReturnMoved /\ Stays
  BY Moved DEF Safe, ReleaseInv, StackMoved
<1>b. Belongs /\ Up
  BY WhereFrom, Powered DEF Safe
<1>c. RequestRegion /\ LineRegion /\ PromptRelease
  BY DEF Safe, SafeInv
<1>d. PowerRegion /\ BootRegion /\ NestRegion /\ OfferRegion
  BY DEF Safe, SafeInv
<1>e. StateRegion /\ CsRegion
  BY DEF Safe, ReleaseInv
<1> USE DEF TopLabels, At, cpu, spi, hci, line, dev, RequestRegion, Request
<1>1. CASE IrqHandler
  BY <1>a, <1>b, <1>c, <1>d, <1>e, <1>1 DEF IrqHandler, IsrMissed, Isr, Stays,
     IsrPowerUp, IsrWrite, IsrDeselect, IsrRead, IsrIgnored
<1>2. CASE FlagLoad \/ FlagStore \/ EnableMissed \/ EnablePin
  BY <1>a, <1>b, <1>c, <1>d, <1>e, <1>2 DEF FlagLoad, GotoMoved, RmwLoads, FlagStore,
     ReturnMoved, RmwStores, EnableMissed, EnablePin, MissedPending, CallMoved,
     LineRegion, ServedHere, Disabling
<1>3. CASE Handler
  BY <1>a, <1>b, <1>c, <1>d, <1>e, <1>3 DEF Handler, HandlerEntry, GotoMoved,
     HandlerDispatch, LineRegion, StateRegion, CsRegion, Starting, PowerRegion,
     Belongs, Up, OfferRegion, HandlerRead, CallMoved, HandlerDeselect, CsOff,
     HandlerDeliver, HandlerUnsolicited, HandlerWrite
<1>4. CASE SpiWriteStep
  BY <1>a, <1>b, <1>c, <1>d, <1>e, <1>4 DEF SpiWriteStep, WriteEntry, GotoMoved,
     CallMoved, Up, BootRegion, Starting, SwLabels, Powering, WriteClaim, WriteSelect,
     WriteCheck, PinCheck, LineRegion, ServedHere, Disabling, WriteTransfer,
     WriteDeselect, CsOff, WriteWait, ReturnMoved
<1>5. CASE Wait
  BY <1>a, <1>b, <1>c, <1>d, <1>e, <1>5 DEF Wait, WaitArm, GotoMoved, WaitReceived,
     Received, WaitParse, ReplyTaken, CallMoved, WaitPatch, Send, WaitExit
<1>6. CASE App
  BY <1>a, <1>b, <1>c, <1>d, <1>e, <1>6 DEF App, Begin, Restart, GotoMoved, StartOpen,
     CallMoved, StartEnable, StartWaitHigh, StartWaitLow, Send, AppCall, AppStop,
     PowerDown, StopWaitHigh, SpiClose
<1>7. CASE Device
  BY <1>a, <1>b, <1>c, <1>d, <1>e, <1>7 DEF Device, DevPower, Stays, Up, IrqLabels,
     SwLabels, DevReady, LowerIrq, DevOff, DevGrant, DevOffer, DevRelease, DevAnswer,
     DevAsync
<1>8. CASE UNCHANGED vars
  BY <1>a, <1>b, <1>c, <1>d, <1>e, <1>8 DEF vars, counts, Stays
<1>9. QED BY <1>1, <1>2, <1>3, <1>4, <1>5, <1>6, <1>7, <1>8 DEF Next, Foreground,
   Finished

\* A packet is unsent from SpiWrite's entry to its one transfer.
LEMMA UnsentStep == Safe /\ PromptRelease /\ [Next]_vars => UnsentRegion'
<1> SUFFICES ASSUME Safe /\ PromptRelease, [Next]_vars PROVE UnsentRegion'
  OBVIOUS
<1>a. GotoMoved /\ CallMoved /\ ReturnMoved /\ Stays
  BY Moved DEF Safe, ReleaseInv, StackMoved
<1>b. Belongs /\ Up
  BY WhereFrom, Powered DEF Safe
<1>c. UnsentRegion /\ ClaimRegion /\ StateRegion
  BY DEF Safe, SafeInv, ReleaseInv
<1> USE DEF TopLabels, At, cpu, spi, hci, line, dev, UnsentRegion, Disabling, Writing
<1>1. CASE IrqHandler
  <2>1. CASE IsrMissed \/ IsrPowerUp \/ IsrRead \/ IsrIgnored
    BY <1>a, <1>b, <1>c, <2>1 DEF IsrMissed, Isr, Stays, IsrPowerUp, IsrRead,
       IsrDeselect, IsrIgnored
  <2>2. CASE IsrWrite
    BY <2>2, <1>a, <1>b, DeliverMoves DEF Belongs,  UnsentRegion, IsrWrite, Stays,
       GotoMoved, Disabling, cpu
  <2>3. QED BY <1>1, <2>1, <2>2 DEF IrqHandler
<1>2. CASE FlagLoad \/ FlagStore \/ EnableMissed \/ EnablePin
  BY <1>a, <1>b, <1>c, <1>2 DEF FlagLoad, GotoMoved, RmwLoads, Belongs, FlagStore,
     ReturnMoved, RmwStores, EnableMissed, EnablePin, MissedPending, CallMoved
<1>3. CASE Handler
  <2>1. CASE HandlerEntry \/ HandlerDispatch \/ HandlerRead \/ HandlerDeselect \/
     HandlerDeliver \/ HandlerUnsolicited
    BY <1>a, <1>b, <1>c, <2>1 DEF HandlerEntry, GotoMoved, HandlerDispatch,
       HandlerRead, CallMoved, StateRegion, HandlerDeselect, CsOff, HandlerDeliver,
       HandlerUnsolicited, Belongs
  <2>2. CASE HandlerWrite
    BY <2>2, <1>a, <1>b, DeliverMoves DEF Belongs,  UnsentRegion, HandlerWrite, Stays,
       GotoMoved, Disabling, cpu
  <2>3. QED BY <1>3, <2>1, <2>2 DEF Handler
<1>4. CASE SpiWriteStep
  <2>1. CASE WriteEntry \/ WriteClaim \/ WriteSelect \/ WriteCheck \/ WriteDeselect \/
     WriteWait
    BY <1>a, <1>b, <1>c, <2>1 DEF WriteEntry, GotoMoved, CallMoved, Starting, Belongs,
       SwLabels, WriteClaim, WriteSelect, WriteCheck, PinCheck, ClaimRegion,
       WriteDeselect, CsOff, WriteWait, ReturnMoved
  <2>2. CASE WriteTransfer
    BY <2>2, <1>a, <1>b, DeliverMoves DEF Belongs,  UnsentRegion, WriteTransfer,
       Stays, GotoMoved, Disabling, cpu
  <2>3. QED BY <1>4, <2>1, <2>2 DEF SpiWriteStep
<1>5. CASE Wait
  BY <1>a, <1>b, <1>c, <1>5 DEF Wait, WaitArm, GotoMoved, WaitReceived, Received,
     WaitParse, ReplyTaken, CallMoved, Belongs, WaitPatch, Send, WaitExit
<1>6. CASE App
  BY <1>a, <1>b, <1>c, <1>6 DEF App, Begin, Restart, GotoMoved, StartOpen, CallMoved,
     Belongs, StartEnable, StartWaitHigh, StartWaitLow, Send, AppCall, AppStop,
     PowerDown, StopWaitHigh, SpiClose
<1>7. CASE Device
  BY <1>a, <1>b, <1>c, <1>7 DEF Device, DevPower, Stays, DevReady, LowerIrq, DevOff,
     DevGrant, DevOffer, DevRelease, DevAnswer, DevAsync
<1>8. CASE UNCHANGED vars
  BY <1>a, <1>b, <1>c, <1>8 DEF vars, counts, Stays
<1>9. QED BY <1>1, <1>2, <1>3, <1>4, <1>5, <1>6, <1>7, <1>8 DEF Next, Foreground,
   Finished

\* WLAN_IRQ_Handler enables the interrupt again only for an unsolicited event, which it
\* reads only inside hci_event_handler's resume, when the device offers no other packet.
LEMMA NestStep == Safe /\ PromptRelease /\ [Next]_vars => NestRegion'
<1> SUFFICES ASSUME Safe /\ PromptRelease, [Next]_vars PROVE NestRegion'
  OBVIOUS
<1>a. GotoMoved /\ CallMoved /\ ReturnMoved /\ Stays
  BY Moved DEF Safe, ReleaseInv, StackMoved
<1>b. Belongs /\ Up
  BY WhereFrom, Powered DEF Safe
<1>c. NestRegion /\ RequestRegion
  BY DEF Safe, SafeInv
<1>d. /\ OnStack("irq_done") <=> pc \in EnLabels /\ ret[1] = "irq_done"
      /\ \A l : Goto(l) /\ (OnStack("irq_done") => l \in EnLabels) => NestedOnce'
      /\ \A l, b \in Labels :
            Call(l, b) /\ ~OnStack("irq_done") /\ (b = "irq_done" => l \in EnLabels)
            => NestedOnce'
      /\ Return => NestedOnce' /\ ~OnStack("irq_done")'
      /\ UNCHANGED cpu => NestedOnce'
  BY NestMoves, <1>c DEF Safe, ReleaseInv, NestRegion
<1>e. {"en", "dis", "irq", "sw", "st_pin", "cl", "sw_idle", "irq_desel", "sw_chk", "wt_res",
       "ws_pin", "irq_done", "en_clr", "arm", "wt_exit", "stopped", "off"} \subseteq Labels
  BY DEF Labels, RmwLoads
\* What the device offers.
<1>f. UNCHANGED <<outq, devTodo>> => (Clear' <=> Clear)
  BY DEF Clear, Offered
<1>g. pc = "irq_disp" /\ ulSpiState = "IDLE" => Base = "wt_res"
  BY <1>b DEF Safe, SafeInv, EnableRegion, Writing, Belongs, TopLabels, PowerRegion,
     Starting
<1>h. pc = "irq_rx" /\ HandledAsUnsolicited(rxBuffer) => Base = "wt_res" /\ Clear
  <2>1. HAVE pc = "irq_rx" /\ HandledAsUnsolicited(rxBuffer)
  <2>2. Base = "wt_res" /\ rxBuffer = "async" /\ ~Owed
    BY <2>1, <1>c DEF NestRegion, Reading, Safe, SafeInv, ParseRegion, OwedRegion,
       HandledAsUnsolicited
  <2>3. QED BY <2>2, NothingOwed
<1>i. HandlerRegion /\ LineRegion
  BY DEF Safe, SafeInv
<1> USE DEF TopLabels, At, cpu, spi, hci, line, dev, NestRegion, Disabling, Reading
<1>1. CASE IrqHandler
  <2>1. CASE IsrMissed \/ IsrPowerUp \/ IsrIgnored
    BY <1>a, <1>c, <1>d, <1>e, <1>f, <2>1 DEF IsrMissed, Isr, Stays, IsrPowerUp,
       IsrIgnored
  <2>2. CASE IsrWrite
    BY <2>2, DeliverMoves, <1>a, <1>b, <1>c, <1>d DEF Clear, Offered, Belongs,
       EnLabels, Writing, IsrWrite, Stays, GotoMoved, cpu, dev
  <2>3. CASE IsrRead
    BY <2>3, ReadMoves, <1>a, <1>b, <1>c, <1>d, <1>e DEF Clear, IsrRead, Stays,
       CallMoved, EnLabels, Belongs
  <2>4. QED BY <1>1, <2>1, <2>2, <2>3 DEF IrqHandler
<1>2. CASE FlagLoad \/ FlagStore \/ EnableMissed \/ EnablePin
  <2>1. CASE FlagLoad \/ FlagStore \/ EnableMissed
    BY <1>a, <1>c, <1>d, <1>e, <1>f, <2>1 DEF FlagLoad, GotoMoved, EnLabels, RmwLoads,
       FlagStore, ReturnMoved, RmwStores, Belongs, EnableMissed
  <2>2. CASE EnablePin
    BY <2>2, <1>a, <1>c, <1>d, <1>e, <1>f, <1>i DEF EnablePin, MissedPending,
       GotoMoved, CallMoved, EnLabels, HandlerRegion, LineRegion, ServedHere, Request
  <2>3. QED BY <1>2, <2>1, <2>2
<1>3. CASE Handler
  <2>1. CASE HandlerEntry \/ HandlerDeselect \/ HandlerDeliver
    BY <1>a, <1>c, <1>d, <1>e, <1>f, <2>1 DEF HandlerEntry, GotoMoved, EnLabels,
       HandlerDeselect, CsOff, HandlerDeliver
  <2>2. CASE HandlerDispatch
    BY <2>2, <1>a, <1>c, <1>d, <1>f, <1>g DEF HandlerDispatch, GotoMoved, EnLabels
  <2>3. CASE HandlerRead
    BY <2>3, ReadMoves, <1>a, <1>b, <1>c, <1>d, <1>e DEF Clear, HandlerRead, Stays,
       CallMoved, EnLabels, Belongs
  <2>4. CASE HandlerUnsolicited
    BY <2>4, <1>a, <1>c, <1>d, <1>e, <1>f, <1>h DEF HandlerUnsolicited, GotoMoved,
       CallMoved, EnLabels
  <2>5. CASE HandlerWrite
    BY <2>5, DeliverMoves, <1>a, <1>b, <1>c, <1>d DEF Clear, Offered, Belongs,
       EnLabels, Writing, HandlerWrite, Stays, GotoMoved, cpu, dev
  <2>6. QED BY <1>3, <2>1, <2>2, <2>3, <2>4, <2>5 DEF Handler
<1>4. CASE SpiWriteStep
  <2>1. CASE WriteEntry \/ WriteClaim \/ WriteSelect \/ WriteCheck \/ WriteDeselect \/
     WriteWait
    BY <1>a, <1>c, <1>d, <1>e, <1>f, <2>1 DEF WriteEntry, GotoMoved, CallMoved,
       EnLabels, WriteClaim, WriteSelect, WriteCheck, PinCheck, WriteDeselect, CsOff,
       WriteWait, ReturnMoved
  <2>2. CASE WriteTransfer
    BY <2>2, DeliverMoves, <1>a, <1>b, <1>c, <1>d DEF Clear, Offered, Belongs,
       EnLabels, Writing, WriteTransfer, Stays, GotoMoved, cpu, dev
  <2>3. QED BY <1>4, <2>1, <2>2 DEF SpiWriteStep
<1>5. CASE Wait
  BY <1>a, <1>c, <1>d, <1>e, <1>f, <1>5 DEF Wait, WaitArm, GotoMoved, EnLabels,
     WaitReceived, Received, WaitParse, ReplyTaken, CallMoved, WaitPatch, Send,
     WaitExit
<1>6. CASE App
  <2>1. CASE Begin \/ Restart \/ StartOpen \/ StartEnable \/ StartWaitHigh \/
     StartWaitLow \/ AppCall \/ AppStop
    BY <1>a, <1>c, <1>d, <1>e, <1>f, <2>1 DEF Begin, Restart, GotoMoved, EnLabels,
       StartOpen, CallMoved, StartEnable, StartWaitHigh, StartWaitLow, Send, AppCall,
       AppStop, PowerDown
  <2>2. CASE StopWaitHigh \/ SpiClose
    BY <2>2, <1>a, <1>b, <1>c, <1>d, <1>f DEF StopWaitHigh, SpiClose, GotoMoved,
       EnLabels, Belongs
  <2>3. QED BY <1>6, <2>1, <2>2 DEF App
<1>7. CASE Device
  <2>1. CASE DevPower \/ DevReady \/ DevGrant \/ DevOffer \/ DevRelease
    BY <1>a, <1>c, <1>d, <1>e, <1>f, <2>1 DEF DevPower, Stays, DevReady, LowerIrq,
       DevGrant, DevOffer, DevRelease
  <2>2. CASE DevOff
    BY <2>2, <1>a, <1>b, <1>c, <1>d DEF DevOff, Stays, Up
  <2>3. CASE DevAnswer
    BY <2>3, <1>a, <1>c, <1>d DEF DevAnswer, Stays, Clear
  <2>4. CASE DevAsync
    <3>1. Offered' = Offered \cup {"async"} /\ UNCHANGED devTodo
      BY <2>4, OfferedMoves DEF DevAsync, Safe, TypeOK, DeviceTypes
    <3>2. QED BY <2>4, <3>1, <1>a, <1>c, <1>d DEF DevAsync, Stays, Clear
  <2>5. QED BY <1>7, <2>1, <2>2, <2>3, <2>4 DEF Device
<1>8. CASE UNCHANGED vars
  BY <1>a, <1>c, <1>d, <1>e, <1>f, <1>8 DEF vars, counts, Stays
<1>9. QED BY <1>1, <1>2, <1>3, <1>4, <1>5, <1>6, <1>7, <1>8 DEF Next, Foreground,
   Finished

\* The interrupt is off from SpiWrite's claim to its enable and while a packet is held;
\* when it is on and a write waits, the handler called by the enable finds WRITE_IRQ.
LEMMA EnableStep == Safe /\ PromptRelease /\ [Next]_vars => EnableRegion'
<1> SUFFICES ASSUME Safe /\ PromptRelease, [Next]_vars PROVE EnableRegion'
  OBVIOUS
<1>a. GotoMoved /\ CallMoved /\ ReturnMoved /\ Stays
  BY Moved DEF Safe, ReleaseInv, StackMoved
<1>b. Belongs /\ Up
  BY WhereFrom, Powered DEF Safe
<1>c. EnableRegion /\ RequestRegion /\ LineRegion /\ NestRegion /\ PromptRelease
  BY DEF Safe, SafeInv
<1>d. ClaimRegion /\ StateRegion
  BY DEF Safe, ReleaseInv
\* An interrupt comes only where nothing is served and no request is being handled.
<1>e. IrqHandler =>
         /\ ~served /\ edge /\ irqLow
         /\ pc \notin {"irq", "irq_proc", "irq_proc_w", "irq_disp"} \/ ~Writing
  BY <1>c DEF IrqHandler, IsrMissed, IsrPowerUp, IsrWrite, IsrRead, IsrIgnored, Isr,
     LineRegion, RequestRegion, Request, Writing
<1>f. Writing /\ pc \in {"en_missed", "en_pin"} => ulSpiState \in {"IDLE", "WRITE_IRQ"}
  BY <1>b, <1>d DEF Belongs, Up, Starting, Powering, StateRegion, Writing, Safe,
     TypeOK, DriverTypes, States, OnStack, TopLabels, EnLabels
<1>g. pc \in {"en", "en_w", "en_missed", "en_pin"} /\ ret[1] = "sw_chk" => Writing
  BY <1>b DEF Belongs, EnLabels
<1> USE DEF TopLabels, At, cpu, spi, hci, line, dev, EnableRegion, Reading, Request,
   Writing
<1>1. CASE IrqHandler
  BY <1>a, <1>b, <1>c, <1>d, <1>e, <1>f, <1>g, <1>1 DEF IrqHandler, IsrMissed, Isr,
     Stays, IrqHandler, IsrPowerUp, IsrWrite, IsrDeselect, IsrRead, IsrIgnored
<1>2. CASE FlagLoad \/ FlagStore \/ EnableMissed \/ EnablePin
  BY <1>a, <1>b, <1>c, <1>d, <1>e, <1>f, <1>g, <1>2 DEF FlagLoad, GotoMoved, RmwLoads,
     FlagStore, ReturnMoved, RmwStores, EnableMissed, EnablePin, MissedPending,
     CallMoved, LineRegion, ServedHere, Disabling, Belongs, EnLabels, NestRegion
<1>3. CASE Handler
  BY <1>a, <1>b, <1>c, <1>d, <1>e, <1>f, <1>g, <1>3 DEF Handler, HandlerEntry,
     GotoMoved, HandlerDispatch, HandlerRead, CallMoved, HandlerDeselect, CsOff,
     HandlerDeliver, HandlerUnsolicited, HandlerWrite
<1>4. CASE SpiWriteStep
  BY <1>a, <1>b, <1>c, <1>d, <1>e, <1>f, <1>g, <1>4 DEF SpiWriteStep, WriteEntry,
     GotoMoved, CallMoved, WriteClaim, WriteSelect, WriteCheck, PinCheck, ClaimRegion,
     WriteTransfer, WriteDeselect, CsOff, WriteWait, ReturnMoved
<1>5. CASE Wait
  BY <1>a, <1>b, <1>c, <1>d, <1>e, <1>f, <1>g, <1>5 DEF Wait, WaitArm, GotoMoved,
     WaitReceived, Received, WaitParse, ReplyTaken, CallMoved, WaitPatch, Send,
     WaitExit
<1>6. CASE App
  BY <1>a, <1>b, <1>c, <1>d, <1>e, <1>f, <1>g, <1>6 DEF App, Begin, Restart,
     GotoMoved, StartOpen, CallMoved, StartEnable, StartWaitHigh, StartWaitLow, Send,
     AppCall, AppStop, PowerDown, StopWaitHigh, SpiClose
<1>7. CASE Device
  BY <1>a, <1>b, <1>c, <1>d, <1>e, <1>f, <1>g, <1>7 DEF Device, DevPower, Stays,
     DevReady, LowerIrq, DevOff, DevGrant, DevOffer, DevRelease, DevAnswer, DevAsync
<1>8. CASE UNCHANGED vars
  BY <1>a, <1>b, <1>c, <1>d, <1>e, <1>f, <1>g, <1>8 DEF vars, counts, Stays
<1>9. QED BY <1>1, <1>2, <1>3, <1>4, <1>5, <1>6, <1>7, <1>8 DEF Next, Foreground,
   Finished

\* PROCESS is set while WLAN_IRQ_Handler runs, up to the pin test of the enable inside it:
\* the one interrupt that may come before is a read that leaves no request behind.
LEMMA HandlerStep == Safe /\ PromptRelease /\ [Next]_vars => HandlerRegion'
<1> SUFFICES ASSUME Safe /\ PromptRelease, [Next]_vars PROVE HandlerRegion'
  OBVIOUS
<1>a. GotoMoved /\ CallMoved /\ ReturnMoved /\ Stays
  BY Moved DEF Safe, ReleaseInv, StackMoved
<1>b. Belongs /\ Up
  BY WhereFrom, Powered DEF Safe
<1>c. HandlerRegion /\ EnableRegion /\ RequestRegion /\ LineRegion /\ NestRegion /\ PromptRelease
  BY DEF Safe, SafeInv
<1>d. StateRegion
  BY DEF Safe, ReleaseInv
<1>e. OnStack("irq_done") <=> pc \in EnLabels /\ ret[1] = "irq_done"
  BY NestMoves, <1>c DEF Safe, ReleaseInv, NestRegion
<1>f. pc = "irq_disp" /\ ulSpiState = "IDLE" => Base # "ws_pin"
  BY DEF Safe, SafeInv, PowerRegion, Starting
\* An interrupt comes only where nothing is served and no request is being handled.
<1>g. IrqHandler =>
         /\ ~served /\ edge /\ irqLow
         /\ ~Disabling("irq_desel") /\ pc # "irq_read"
         /\ pc = "irq_disp" => Base = "ws_pin"
  BY <1>c DEF IrqHandler, IsrMissed, IsrPowerUp, IsrWrite, IsrRead, IsrIgnored, Isr,
     LineRegion, RequestRegion, Request, ServedHere
<1>h. IrqHandler /\ "ENABLE" \in intReg =>
         ~Reading /\ (pc \in {"en", "en_w"} => ret[1] # "irq_done")
  BY <1>c DEF EnableRegion
<1>i. IrqHandler /\ "ENABLE" \in intReg /\ pc \in {"en_missed", "en_pin"} /\ ret[1] = "irq_done"
         => Base = "wt_res" /\ Clear /\ ulSpiState = "IDLE"
  BY <1>b, <1>c, <1>d, <1>e DEF NestRegion, Belongs, Up, Starting, Powering,
     StateRegion, Writing, Safe, TypeOK, DriverTypes, States, OnStack, TopLabels,
     EnLabels, SwLabels
<1> USE DEF TopLabels, At, cpu, spi, hci, line, dev, HandlerRegion, Reading, Request,
   Disabling
<1>1. CASE IrqHandler
  <2>1. CASE IsrMissed \/ IsrPowerUp \/ IsrWrite \/ IsrIgnored
    BY <1>a, <1>b, <1>c, <1>f, <1>g, <1>h, <1>i, <2>1 DEF IsrMissed, Isr, Stays,
       IrqHandler, IsrPowerUp, IsrWrite, IsrDeselect, IsrIgnored
  <2>2. CASE IsrRead
    <3>1. Clear => HandledAsUnsolicited(rxBuffer')
      BY <2>2, ReadMoves DEF HandledAsUnsolicited
    <3>2. QED BY <2>2, <3>1, <1>a, <1>c, <1>g, <1>h, <1>i DEF IsrRead, Isr,
       IsrDeselect, IrqHandler, Stays, Resumed
  <2>3. QED BY <1>1, <2>1, <2>2 DEF IrqHandler
<1>2. CASE FlagLoad \/ FlagStore \/ EnableMissed \/ EnablePin
  BY <1>a, <1>b, <1>c, <1>f, <1>g, <1>h, <1>i, <1>2 DEF FlagLoad, GotoMoved, RmwLoads,
     FlagStore, ReturnMoved, RmwStores, EnLabels, EnableMissed, EnablePin,
     MissedPending, CallMoved
<1>3. CASE Handler
  BY <1>a, <1>b, <1>c, <1>f, <1>g, <1>h, <1>i, <1>3 DEF Handler, HandlerEntry,
     GotoMoved, HandlerDispatch, HandlerRead, CallMoved, HandlerDeselect, CsOff,
     HandlerDeliver, HandlerUnsolicited, HandlerWrite
<1>4. CASE SpiWriteStep
  BY <1>a, <1>b, <1>c, <1>f, <1>g, <1>h, <1>i, <1>4 DEF SpiWriteStep, WriteEntry,
     GotoMoved, CallMoved, WriteClaim, WriteSelect, WriteCheck, PinCheck,
     WriteTransfer, WriteDeselect, CsOff, WriteWait, ReturnMoved
<1>5. CASE Wait
  BY <1>a, <1>b, <1>c, <1>f, <1>g, <1>h, <1>i, <1>5 DEF Wait, WaitArm, GotoMoved,
     WaitReceived, Received, WaitParse, ReplyTaken, CallMoved, WaitPatch, Send,
     WaitExit
<1>6. CASE App
  BY <1>a, <1>b, <1>c, <1>f, <1>g, <1>h, <1>i, <1>6 DEF App, Begin, Restart,
     GotoMoved, StartOpen, CallMoved, StartEnable, StartWaitHigh, StartWaitLow, Send,
     AppCall, AppStop, PowerDown, StopWaitHigh, SpiClose, Belongs
<1>7. CASE Device
  BY <1>a, <1>b, <1>c, <1>f, <1>g, <1>h, <1>i, <1>7 DEF Device, DevPower, Stays,
     DevReady, LowerIrq, DevOff, DevGrant, DevOffer, DevRelease, DevAnswer, DevAsync
<1>8. CASE UNCHANGED vars
  BY <1>a, <1>b, <1>c, <1>f, <1>g, <1>h, <1>i, <1>8 DEF vars, counts, Stays
<1>9. QED BY <1>1, <1>2, <1>3, <1>4, <1>5, <1>6, <1>7, <1>8 DEF Next, Foreground,
   Finished

\* The device offers at most one answer, with its data behind it, and only for the
\* command under way.
LEMMA QueueStep == Safe /\ PromptRelease /\ [Next]_vars => QueueRegion'
<1> SUFFICES ASSUME Safe /\ PromptRelease, [Next]_vars PROVE QueueRegion'
  OBVIOUS
<1>a. Belongs /\ Up
  BY WhereFrom, Powered DEF Safe
<1>b. QueueRegion /\ OwedRegion /\ ParseRegion
  BY DEF Safe, SafeInv
<1>c. /\ UNCHANGED <<outq, rxBuffer>> => (QueueShape' <=> QueueShape)
      /\ UNCHANGED outq => Offered' = Offered
  BY DEF QueueShape, Offered
<1>d. outq \in Seq(Packets) /\ wlanEn \in BOOLEAN
  BY DEF Safe, TypeOK, DeviceTypes, DriverTypes
\* A new command is given only when nothing of the last one is left.
<1>e. /\ pc \in {"ws_low", "app"} => Clear
      /\ pc = "wt_exit" /\ ~usRxEventOpcode /\ ~usRxDataPending /\ cmd = "START" => Clear
      /\ unsent = 1 => Clear
  BY <1>a, <1>b DEF OwedRegion, ParseRegion, Belongs, TopLabels
<1> USE DEF At, cpu, spi, hci, line, dev, QueueRegion
<1>1. CASE IrqHandler
  <2>1. CASE IsrMissed \/ IsrPowerUp \/ IsrIgnored
    BY <1>b, <1>c, <2>1 DEF IsrMissed, Isr, IsrPowerUp, IsrIgnored
  <2>2. CASE IsrWrite
    BY <2>2, DeliverMoves, <1>b, <1>c, <1>e DEF Clear, IsrWrite
  <2>3. CASE IsrRead
    BY <2>3, ReadMoves, <1>b DEF Clear, IsrRead
  <2>4. QED BY <1>1, <2>1, <2>2, <2>3 DEF IrqHandler
<1>2. CASE FlagLoad \/ FlagStore \/ EnableMissed \/ EnablePin
  BY <1>b, <1>c, <1>2 DEF FlagLoad, FlagStore, EnableMissed, EnablePin, MissedPending
<1>3. CASE Handler
  <2>1. CASE HandlerEntry \/ HandlerDispatch \/ HandlerDeselect \/ HandlerDeliver \/
     HandlerUnsolicited
    BY <1>b, <1>c, <2>1 DEF HandlerEntry, HandlerDispatch, HandlerDeselect, CsOff,
       HandlerDeliver, HandlerUnsolicited
  <2>2. CASE HandlerRead
    BY <2>2, ReadMoves, <1>b DEF Clear, HandlerRead
  <2>3. CASE HandlerWrite
    BY <2>3, DeliverMoves, <1>b, <1>c, <1>e DEF Clear, HandlerWrite
  <2>4. QED BY <1>3, <2>1, <2>2, <2>3 DEF Handler
<1>4. CASE SpiWriteStep
  <2>1. CASE WriteEntry \/ WriteClaim \/ WriteSelect \/ WriteCheck \/ WriteDeselect \/
     WriteWait
    BY <1>b, <1>c, <2>1 DEF WriteEntry, WriteClaim, WriteSelect, WriteCheck, PinCheck,
       WriteDeselect, CsOff, WriteWait
  <2>2. CASE WriteTransfer
    BY <2>2, DeliverMoves, <1>b, <1>c, <1>e DEF Clear, WriteTransfer
  <2>3. QED BY <1>4, <2>1, <2>2 DEF SpiWriteStep
<1>5. CASE Wait
  <2>1. CASE WaitArm \/ WaitReceived \/ WaitParse
    BY <1>b, <1>c, <2>1 DEF WaitArm, WaitReceived, Received, WaitParse, ReplyTaken
  <2>2. CASE WaitPatch
    BY <2>2, <1>b, <1>c, <1>e DEF WaitPatch, Send, Clear
  <2>3. CASE WaitExit
    BY <2>3, <1>b, <1>c, <1>e DEF WaitExit, Send, Clear
  <2>4. QED BY <1>5, <2>1, <2>2, <2>3 DEF Wait
<1>6. CASE App
  <2>1. CASE Begin \/ Restart \/ StartOpen \/ StartEnable \/ StartWaitHigh \/ AppStop
     \/ StopWaitHigh \/ SpiClose
    BY <1>b, <1>c, <2>1 DEF Begin, Restart, StartOpen, StartEnable, StartWaitHigh,
       AppStop, PowerDown, StopWaitHigh, SpiClose
  <2>2. CASE StartWaitLow
    BY <2>2, <1>b, <1>c, <1>e DEF StartWaitLow, Send, Clear
  <2>3. CASE AppCall
    BY <2>3, <1>b, <1>c, <1>e DEF AppCall, Send, Clear
  <2>4. QED BY <1>6, <2>1, <2>2, <2>3 DEF App
<1>7. CASE Device
  <2>1. CASE DevPower \/ DevReady \/ DevGrant \/ DevOffer \/ DevRelease
    BY <1>b, <1>c, <2>1 DEF DevPower, DevReady, LowerIrq, DevGrant, DevOffer,
       DevRelease
  <2>2. CASE DevOff
    <3>1. Offered' = {} /\ QueueShape'
      BY <2>2, <1>b, <1>d, OfferedMoves DEF DevOff, QueueShape
    <3>2. QED BY <2>2, <3>1, <1>b DEF DevOff
  <2>3. CASE DevAnswer
    <3>1. devTodo # "none" /\ devTodo' = "none" /\ Offered \subseteq {"async"}
      BY <2>3, <1>b DEF DevAnswer
    <3>2. QueueShape'
      BY <2>3, <3>1, <1>b, <1>d, ShapeAppend DEF DevAnswer
    <3>3. \/ Offered' = Offered \cup {"reply"}
          \/ devTodo = "START" /\ Offered' = Offered \cup {"patch"}
          \/ devTodo = "RECV" /\ Offered' = Offered \cup {"replyData", "data"}
      BY <2>3, <1>d, OfferedMoves DEF DevAnswer
    <3>4. QED BY <2>3, <3>1, <3>2, <3>3, <1>b DEF DevAnswer
  <2>4. CASE DevAsync
    <3>1. Offered' = Offered \cup {"async"} /\ QueueShape'
      BY <2>4, <1>b, <1>d, OfferedMoves, ShapeAppend DEF DevAsync
    <3>2. QED BY <2>4, <3>1, <1>b DEF DevAsync
  <2>5. QED BY <1>7, <2>1, <2>2, <2>3, <2>4 DEF Device
<1>8. CASE UNCHANGED vars
  BY <1>b, <1>c, <1>8 DEF vars, counts
<1>9. QED BY <1>1, <1>2, <1>3, <1>4, <1>5, <1>6, <1>7, <1>8 DEF Next, Foreground,
   Finished

\* A command is given only when nothing of the last one is left, and what the device owes
\* is awaited by the function that sent it.
LEMMA OwedStep == Safe /\ PromptRelease /\ [Next]_vars => OwedRegion'
<1> SUFFICES ASSUME Safe /\ PromptRelease, [Next]_vars PROVE OwedRegion'
  OBVIOUS
<1>a. GotoMoved /\ CallMoved /\ ReturnMoved /\ Stays
  BY Moved DEF Safe, ReleaseInv, StackMoved
<1>b. Belongs /\ Up
  BY WhereFrom, Powered DEF Safe
<1>c. OwedRegion /\ ParseRegion /\ WaitRegion /\ UnsentRegion /\ NestRegion
  BY DEF Safe, SafeInv
<1>d. pc = "irq_idle" => ulSpiState = "READ_EOT"
  BY DEF Safe, ReleaseInv, StateRegion
<1>e. outq \in Seq(Packets) /\ unsent \in {0, 1}
  BY <1>c DEF Safe, TypeOK, DeviceTypes, UnsentRegion
<1>f. UNCHANGED <<outq, devTodo>> => (Owed' <=> Owed) /\ (Clear' <=> Clear)
  BY DEF Owed, Clear, Offered
<1>g. Clear => ~Owed
  BY DEF Owed, Clear
<1> USE DEF TopLabels, At, cpu, spi, hci, line, dev, OwedRegion
<1>1. CASE IrqHandler
  <2>1. CASE IsrMissed \/ IsrPowerUp \/ IsrIgnored
    BY <1>a, <1>b, <1>c, <1>f, <2>1 DEF IsrMissed, Isr, Stays, IsrPowerUp, IsrIgnored
  <2>2. CASE IsrWrite
    <3>1. unsent = 1 => Writing /\ unsent' = 0 /\ Clear /\ ~usEventOrDataReceived
      BY <2>2, DeliverMoves, <1>c
    <3>2. unsent # 1 => UNCHANGED <<unsent, outq, devTodo>>
      BY <2>2, DeliverMoves
    <3>3. Base' = Base /\ UNCHANGED usEventOrDataReceived
      BY <2>2, <1>a DEF IsrWrite, Stays, GotoMoved
    <3>4. QED BY <3>1, <3>2, <3>3, <1>c, <1>e, <1>f DEF Writing
  <2>3. CASE IsrRead
    <3>1. /\ Owed' => Owed
          /\ Clear => Clear' /\ rxBuffer' = "async"
          /\ rxBuffer' # "async" => ~Owed'
      BY <2>3, ReadMoves DEF Owed, Clear
    <3>2. rxBuffer' = "async" => usEventOrDataReceived' = FALSE
      BY <2>3 DEF IsrRead, HandledAsUnsolicited
    <3>3. QED BY <2>3, <3>1, <3>2, <1>a, <1>c, <1>e DEF IsrRead, Stays
  <2>4. QED BY <1>1, <2>1, <2>2, <2>3 DEF IrqHandler
<1>2. CASE FlagLoad \/ FlagStore \/ EnableMissed \/ EnablePin
  BY <1>a, <1>b, <1>c, <1>f, <1>2 DEF FlagLoad, GotoMoved, RmwLoads, FlagStore,
     ReturnMoved, RmwStores, Belongs, EnableMissed, EnablePin, MissedPending,
     CallMoved
<1>3. CASE Handler
  <2>1. CASE HandlerEntry \/ HandlerDispatch \/ HandlerDeselect \/ HandlerUnsolicited
    BY <1>a, <1>b, <1>c, <1>f, <2>1 DEF HandlerEntry, GotoMoved, HandlerDispatch,
       HandlerDeselect, CsOff, HandlerUnsolicited, CallMoved
  <2>2. CASE HandlerRead
    <3>1. /\ Owed' => Owed
          /\ Clear => Clear'
      BY <2>2, ReadMoves DEF Owed, Clear
    <3>2. QED BY <2>2, <3>1, <1>a, <1>b, <1>c DEF HandlerRead, CallMoved, Belongs
  <2>3. CASE HandlerDeliver
    BY <2>3, <1>a, <1>c, <1>d, <1>f DEF HandlerDeliver, GotoMoved, NestRegion,
       Reading, UnsentRegion, Disabling
  <2>4. CASE HandlerWrite
    <3>1. unsent = 1 => Writing /\ unsent' = 0 /\ Clear /\ ~usEventOrDataReceived
      BY <2>4, DeliverMoves, <1>c
    <3>2. unsent # 1 => UNCHANGED <<unsent, outq, devTodo>>
      BY <2>4, DeliverMoves
    <3>3. Base' = Base /\ UNCHANGED usEventOrDataReceived
      BY <2>4, <1>a DEF HandlerWrite, Stays, GotoMoved
    <3>4. QED BY <3>1, <3>2, <3>3, <1>c, <1>e, <1>f DEF Writing
  <2>5. QED BY <1>3, <2>1, <2>2, <2>3, <2>4 DEF Handler
<1>4. CASE SpiWriteStep
  <2>1. CASE WriteEntry \/ WriteClaim \/ WriteSelect \/ WriteCheck \/ WriteDeselect \/
     WriteWait
    BY <1>a, <1>b, <1>c, <1>f, <2>1 DEF WriteEntry, GotoMoved, CallMoved, WriteClaim,
       WriteSelect, WriteCheck, PinCheck, WriteDeselect, CsOff, WriteWait,
       ReturnMoved, Belongs
  <2>2. CASE WriteTransfer
    <3>1. unsent = 1 => Writing /\ unsent' = 0 /\ Clear /\ ~usEventOrDataReceived
      BY <2>2, DeliverMoves, <1>c
    <3>2. unsent # 1 => UNCHANGED <<unsent, outq, devTodo>>
      BY <2>2, DeliverMoves
    <3>3. Base' = Base /\ UNCHANGED usEventOrDataReceived
      BY <2>2, <1>a DEF WriteTransfer, Stays, GotoMoved
    <3>4. QED BY <3>1, <3>2, <3>3, <1>c, <1>e, <1>f DEF Writing
  <2>3. QED BY <1>4, <2>1, <2>2 DEF SpiWriteStep
<1>5. CASE Wait
  <2>1. CASE WaitArm
    BY <2>1, <1>a, <1>b, <1>c, <1>e, <1>f, <1>g DEF WaitArm, GotoMoved, CallMoved,
       Send, Received, Belongs, ParseRegion, WaitRegion
  <2>2. CASE WaitReceived
    BY <2>2, <1>a, <1>b, <1>c, <1>e, <1>f, <1>g DEF WaitReceived, GotoMoved,
       CallMoved, Send, Received, Belongs, ParseRegion, WaitRegion
  <2>3. CASE WaitParse
    BY <2>3, <1>a, <1>b, <1>c, <1>e, <1>f, <1>g DEF WaitParse, GotoMoved, CallMoved,
       Send, Received, Belongs, ParseRegion, WaitRegion
  <2>4. CASE WaitPatch
    BY <2>4, <1>a, <1>b, <1>c, <1>e, <1>f, <1>g DEF WaitPatch, GotoMoved, CallMoved,
       Send, Received, Belongs, ParseRegion, WaitRegion
  <2>5. CASE WaitExit
    BY <2>5, <1>a, <1>b, <1>c, <1>e, <1>f, <1>g DEF WaitExit, GotoMoved, CallMoved,
       Send, Received, Belongs, ParseRegion, WaitRegion
  <2>6. QED BY <1>5, <2>1, <2>2, <2>3, <2>4, <2>5 DEF Wait
<1>6. CASE App
  <2>1. CASE Begin \/ Restart \/ StartOpen \/ StartEnable \/ StartWaitHigh \/ AppStop
     \/ StopWaitHigh \/ SpiClose
    BY <1>a, <1>b, <1>c, <1>f, <2>1 DEF Begin, Restart, GotoMoved, Belongs, StartOpen,
       CallMoved, StartEnable, StartWaitHigh, AppStop, PowerDown, StopWaitHigh,
       SpiClose
  <2>2. CASE StartWaitLow
    BY <2>2, <1>a, <1>b, <1>c, <1>e, <1>f, <1>g DEF StartWaitLow, GotoMoved,
       CallMoved, Send, Received, Belongs, ParseRegion, WaitRegion
  <2>3. CASE AppCall
    BY <2>3, <1>a, <1>b, <1>c, <1>e, <1>f, <1>g DEF AppCall, GotoMoved, CallMoved,
       Send, Received, Belongs, ParseRegion, WaitRegion
  <2>4. QED BY <1>6, <2>1, <2>2, <2>3 DEF App
<1>7. CASE Device
  <2>1. CASE DevPower \/ DevReady \/ DevGrant \/ DevOffer \/ DevRelease
    BY <1>a, <1>b, <1>c, <1>f, <2>1 DEF DevPower, Stays, DevReady, LowerIrq, DevGrant,
       DevOffer, DevRelease
  <2>2. CASE DevOff
    <3>1. Clear' /\ ~Owed'
      BY <2>2, <1>e, OfferedMoves DEF DevOff, Owed, Clear
    <3>2. QED BY <2>2, <3>1, <1>a, <1>c DEF DevOff, Stays
  <2>3. CASE DevAnswer
    <3>1. Owed /\ ~Clear
      BY <2>3 DEF DevAnswer, Owed, Clear
    <3>2. QED BY <2>3, <3>1, <1>a, <1>c DEF DevAnswer, Stays
  <2>4. CASE DevAsync
    <3>1. Offered' = Offered \cup {"async"}
      BY <2>4, <1>e, OfferedMoves DEF DevAsync
    <3>2. (Owed' <=> Owed) /\ (Clear' <=> Clear)
      BY <2>4, <3>1 DEF DevAsync, Owed, Clear
    <3>3. QED BY <2>4, <3>2, <1>a, <1>c DEF DevAsync, Stays
  <2>5. QED BY <1>7, <2>1, <2>2, <2>3, <2>4 DEF Device
<1>8. CASE UNCHANGED vars
  BY <1>a, <1>b, <1>c, <1>f, <1>8 DEF vars, counts, Stays
<1>9. QED BY <1>1, <1>2, <1>3, <1>4, <1>5, <1>6, <1>7, <1>8 DEF Next, Foreground,
   Finished

\* What hci_event_handler waits for: an event while one is owed, data only after the
\* event that announces it.
LEMMA WaitStep == Safe /\ PromptRelease /\ [Next]_vars => WaitRegion'
<1> SUFFICES ASSUME Safe /\ PromptRelease, [Next]_vars PROVE WaitRegion'
  OBVIOUS
<1>a. GotoMoved /\ CallMoved /\ ReturnMoved /\ Stays
  BY Moved DEF Safe, ReleaseInv, StackMoved
<1>b. Belongs /\ Up
  BY WhereFrom, Powered DEF Safe
<1>c. OwedRegion /\ ParseRegion /\ WaitRegion
  BY DEF Safe, SafeInv
<1>d. /\ usRxEventOpcode \in BOOLEAN /\ usRxDataPending \in BOOLEAN
      /\ outq \in Seq(Packets)
  BY DEF Safe, TypeOK, DeviceTypes, DriverTypes
<1>f. UNCHANGED <<outq, devTodo>> => (Owed' <=> Owed)
  BY DEF Owed, Offered
<1>g. Clear => ~Owed
  BY DEF Owed, Clear
<1> USE DEF TopLabels, At, cpu, spi, hci, line, dev, WaitRegion, Send, ReplyTaken
<1>1. CASE IrqHandler
  <2>1. CASE IsrMissed \/ IsrPowerUp \/ IsrIgnored
    BY <1>a, <1>b, <1>c, <1>d, <1>f, <2>1 DEF IsrMissed, Isr, Stays, IsrPowerUp,
       IsrIgnored
  <2>2. CASE IsrWrite
    <3>1. pc # "wt_exit" /\ (unsent = 1 => Writing)
      BY <2>2, DeliverMoves, <1>b DEF IsrWrite, At, Belongs
    <3>2. unsent # 1 => UNCHANGED <<outq, devTodo>>
      BY <2>2, DeliverMoves
    <3>3. Base' = Base /\ UNCHANGED <<usRxDataPending, usRxEventOpcode, cmd>>
      BY <2>2, <1>a DEF IsrWrite, Stays, GotoMoved
    <3>4. pc' = pc \/ pc' \in {"irq_wdesel", "sw_desel"}
      BY <2>2 DEF IsrWrite, Goto
    <3>5. QED BY <3>1, <3>2, <3>3, <3>4, <1>c, <1>f DEF Writing
  <2>3. CASE IsrRead
    <3>1. Owed' => Owed
      BY <2>3, ReadMoves DEF Owed
    <3>2. QED BY <2>3, <3>1, <1>a, <1>c DEF IsrRead, Stays, CallMoved
  <2>4. QED BY <1>1, <2>1, <2>2, <2>3 DEF IrqHandler
<1>2. CASE FlagLoad \/ FlagStore \/ EnableMissed \/ EnablePin
  BY <1>a, <1>b, <1>c, <1>d, <1>f, <1>2 DEF FlagLoad, GotoMoved, RmwLoads, FlagStore,
     ReturnMoved, RmwStores, Belongs, EnableMissed, EnablePin, MissedPending,
     CallMoved
<1>3. CASE Handler
  <2>1. CASE HandlerEntry \/ HandlerDispatch \/ HandlerDeselect \/ HandlerDeliver \/
     HandlerUnsolicited
    BY <1>a, <1>b, <1>c, <1>d, <1>f, <2>1 DEF HandlerEntry, GotoMoved,
       HandlerDispatch, HandlerDeselect, CsOff, HandlerDeliver, HandlerUnsolicited,
       CallMoved
  <2>2. CASE HandlerRead
    <3>1. Owed' => Owed
      BY <2>2, ReadMoves DEF Owed
    <3>2. QED BY <2>2, <3>1, <1>a, <1>c DEF HandlerRead, Stays, CallMoved
  <2>3. CASE HandlerWrite
    <3>1. pc # "wt_exit" /\ (unsent = 1 => Writing)
      BY <2>3, DeliverMoves, <1>b DEF HandlerWrite, At, Belongs
    <3>2. unsent # 1 => UNCHANGED <<outq, devTodo>>
      BY <2>3, DeliverMoves
    <3>3. Base' = Base /\ UNCHANGED <<usRxDataPending, usRxEventOpcode, cmd>>
      BY <2>3, <1>a DEF HandlerWrite, Stays, GotoMoved
    <3>4. pc' = pc \/ pc' \in {"irq_wdesel", "sw_desel"}
      BY <2>3 DEF HandlerWrite, Goto
    <3>5. QED BY <3>1, <3>2, <3>3, <3>4, <1>c, <1>f DEF Writing
  <2>4. QED BY <1>3, <2>1, <2>2, <2>3 DEF Handler
<1>4. CASE SpiWriteStep
  <2>1. CASE WriteEntry \/ WriteClaim \/ WriteSelect \/ WriteCheck \/ WriteDeselect \/
     WriteWait
    BY <1>a, <1>b, <1>c, <1>d, <1>f, <2>1 DEF WriteEntry, GotoMoved, CallMoved,
       WriteClaim, WriteSelect, WriteCheck, PinCheck, WriteDeselect, CsOff, WriteWait,
       ReturnMoved, Belongs
  <2>2. CASE WriteTransfer
    <3>1. pc # "wt_exit" /\ (unsent = 1 => Writing)
      BY <2>2, DeliverMoves, <1>b DEF WriteTransfer, At, Belongs
    <3>2. unsent # 1 => UNCHANGED <<outq, devTodo>>
      BY <2>2, DeliverMoves
    <3>3. Base' = Base /\ UNCHANGED <<usRxDataPending, usRxEventOpcode, cmd>>
      BY <2>2, <1>a DEF WriteTransfer, Stays, GotoMoved
    <3>4. pc' = pc \/ pc' \in {"irq_wdesel", "sw_desel"}
      BY <2>2 DEF WriteTransfer, Goto
    <3>5. QED BY <3>1, <3>2, <3>3, <3>4, <1>c, <1>f DEF Writing
  <2>3. QED BY <1>4, <2>1, <2>2 DEF SpiWriteStep
<1>5. CASE Wait
  BY <1>a, <1>b, <1>c, <1>d, <1>f, <1>5 DEF Wait, WaitArm, GotoMoved, Belongs,
     OwedRegion, WaitReceived, Received, WaitParse, CallMoved, WaitPatch, ParseRegion,
     WaitExit
<1>6. CASE App
  BY <1>a, <1>b, <1>c, <1>d, <1>f, <1>6 DEF App, Begin, Restart, GotoMoved, Belongs,
     StartOpen, CallMoved, StartEnable, StartWaitHigh, StartWaitLow, AppCall, AppStop,
     PowerDown, StopWaitHigh, SpiClose
<1>7. CASE Device
  <2>1. CASE DevPower \/ DevReady \/ DevGrant \/ DevOffer \/ DevRelease
    BY <1>a, <1>b, <1>c, <1>d, <1>f, <2>1 DEF DevPower, Stays, DevReady, LowerIrq,
       DevGrant, DevOffer, DevRelease
  <2>2. CASE DevOff
    <3>1. ~Owed'
      BY <2>2, <1>d, OfferedMoves DEF DevOff, Owed
    <3>2. QED BY <2>2, <3>1, <1>a, <1>c DEF DevOff, Stays
  <2>3. CASE DevAnswer
    <3>1. Owed
      BY <2>3 DEF DevAnswer, Owed
    <3>2. QED BY <2>3, <3>1, <1>a, <1>c DEF DevAnswer, Stays
  <2>4. CASE DevAsync
    <3>1. Offered' = Offered \cup {"async"}
      BY <2>4, <1>d, OfferedMoves DEF DevAsync
    <3>2. Owed' <=> Owed
      BY <2>4, <3>1 DEF DevAsync, Owed
    <3>3. QED BY <2>4, <3>2, <1>a, <1>c DEF DevAsync, Stays
  <2>5. QED BY <1>7, <2>1, <2>2, <2>3, <2>4 DEF Device
<1>8. CASE UNCHANGED vars
  BY <1>a, <1>b, <1>c, <1>d, <1>f, <1>8 DEF vars, counts, Stays
<1>9. QED BY <1>1, <1>2, <1>3, <1>4, <1>5, <1>6, <1>7, <1>8 DEF Next, Foreground,
   Finished

\* The buffer parsed is a packet of the call under way: its answer, its data, the patch
\* request of a start, or an unsolicited event.
LEMMA ParseStep == Safe /\ PromptRelease /\ [Next]_vars => ParseRegion'
<1> SUFFICES ASSUME Safe /\ PromptRelease, [Next]_vars PROVE ParseRegion'
  OBVIOUS
<1>a. GotoMoved /\ CallMoved /\ ReturnMoved /\ Stays
  BY Moved DEF Safe, ReleaseInv, StackMoved
<1>b. Belongs /\ Up
  BY WhereFrom, Powered DEF Safe
<1>c. ParseRegion /\ OwedRegion /\ WaitRegion /\ NestRegion /\ EnableRegion
  BY DEF Safe, SafeInv
<1>d. /\ usRxEventOpcode \in BOOLEAN /\ usRxDataPending \in BOOLEAN
      /\ usEventOrDataReceived \in BOOLEAN /\ outq \in Seq(Packets)
      /\ parsed \in Packets \cup {"none"}
  BY DEF Safe, TypeOK, CpuTypes, DeviceTypes, DriverTypes
<1>f. UNCHANGED <<outq, devTodo>> => (Clear' <=> Clear)
  BY DEF Clear, Offered
\* No interrupt comes while WLAN_IRQ_Handler holds a packet, except to be missed.
<1>g. edge => ~Disabling("irq_desel")
  BY DEF Safe, SafeInv, LineRegion, ServedHere
<1>h. edge /\ "ENABLE" \in intReg => ~Reading
  BY <1>c DEF EnableRegion
<1> USE DEF TopLabels, At, cpu, spi, hci, line, dev, ParseRegion, Send, Reading,
   Disabling
<1>1. CASE IrqHandler
  <2>1. CASE IsrMissed \/ IsrPowerUp \/ IsrIgnored
    BY <1>a, <1>b, <1>c, <1>d, <1>f, <1>g, <1>h, <2>1 DEF IsrMissed, Isr, Stays,
       IsrPowerUp, IsrIgnored
  <2>2. CASE IsrWrite
    <3>1. /\ pc \notin {"wt_exit", "wt_parse"} /\ (unsent = 1 => Writing)
          /\ unsent # 1 => UNCHANGED <<outq, devTodo>>
      BY <2>2, DeliverMoves, <1>b DEF IsrWrite, At, Belongs
    <3>2. /\ Base' = Base
          /\ UNCHANGED <<usEventOrDataReceived, usRxDataPending, usRxEventOpcode, cmd,
             parsed, rxBuffer>>
      BY <2>2, <1>a DEF IsrWrite, Stays, GotoMoved
    <3>3. \/ /\ pc \in {"irq_write", "sw_first", "sw_xfer"}
             /\ pc' \in {"irq_wdesel", "sw_desel"}
          \/ UNCHANGED <<pc, ret>> /\ ~Disabling("irq_desel") /\ ~Reading
      BY <2>2, <1>a, <1>g, <1>h DEF IsrWrite, At, Goto, Isr
    <3>4. QED BY <3>1, <3>2, <3>3, <1>c, <1>f DEF Writing
  <2>3. CASE IsrRead
    <3>1. rxBuffer' \in Offered /\ Offered \subseteq Packets
      BY <2>3, ReadMoves, OfferedMoves, <1>d
    <3>2. /\ rxBuffer' = "replyData" => cmd = "RECV"
          /\ rxBuffer' = "patch" => cmd = "START"
          /\ rxBuffer' # "none"
      BY <3>1 DEF Safe, SafeInv, QueueRegion, Packets, Events
    <3>3. Clear => Clear' /\ usEventOrDataReceived' = FALSE
      BY <2>3, ReadMoves DEF Clear, IsrRead, HandledAsUnsolicited
    <3>4. ~Disabling("irq_desel") /\ ~Reading
      BY <2>3, <1>g, <1>h DEF IsrRead, Isr
    <3>5. QED BY <2>3, <3>2, <3>3, <3>4, <1>a, <1>c DEF IsrRead, Stays
  <2>4. QED BY <1>1, <2>1, <2>2, <2>3 DEF IrqHandler
<1>2. CASE FlagLoad \/ FlagStore \/ EnableMissed \/ EnablePin
  BY <1>a, <1>b, <1>c, <1>d, <1>f, <1>g, <1>h, <1>2 DEF FlagLoad, GotoMoved, RmwLoads,
     Belongs, FlagStore, ReturnMoved, RmwStores, WaitRegion, EnableMissed, EnablePin,
     MissedPending, CallMoved
<1>3. CASE Handler
  <2>1. CASE HandlerEntry \/ HandlerDispatch \/ HandlerDeselect \/ HandlerDeliver
    BY <1>a, <1>b, <1>c, <1>d, <1>f, <1>g, <1>h, <2>1 DEF HandlerEntry, GotoMoved,
       Belongs, HandlerDispatch, HandlerDeselect, CsOff, HandlerDeliver
  <2>2. CASE HandlerRead
    <3>1. rxBuffer' \in Offered /\ Offered \subseteq Packets \ {"garbage"}
      BY <2>2, ReadMoves, OfferedMoves, <1>d DEF Safe, SafeInv, QueueRegion
    <3>2. Base = "wt_res" /\ pc = "irq_read" /\ ~Owed /\ cmd' = cmd /\ UNCHANGED
       usEventOrDataReceived
      BY <2>2, <1>c DEF HandlerRead, At, NestRegion, OwedRegion
    <3>3. Clear => Clear' /\ rxBuffer' = "async"
      BY <2>2, ReadMoves DEF Clear
    <3>4. rxBuffer' \in {"async", "data"}
      BY <3>1, <3>2 DEF Owed, Packets, Events
    <3>5. QED BY <2>2, <3>2, <3>3, <3>4, <1>a, <1>b, <1>c DEF HandlerRead, CallMoved,
       Belongs
  <2>3. CASE HandlerUnsolicited
    <3>1. parsed # "replyData" => HandledAsUnsolicited(rxBuffer) /\ Base = "wt_res"
      BY <2>3, <1>c DEF HandlerUnsolicited, At, HandledAsUnsolicited, NestRegion
    <3>2. QED BY <2>3, <3>1, <1>a, <1>c, <1>f DEF HandlerUnsolicited, GotoMoved, CallMoved
  <2>4. CASE HandlerWrite
    <3>1. /\ pc \notin {"wt_exit", "wt_parse"} /\ (unsent = 1 => Writing)
          /\ unsent # 1 => UNCHANGED <<outq, devTodo>>
      BY <2>4, DeliverMoves, <1>b DEF HandlerWrite, At, Belongs
    <3>2. /\ Base' = Base
          /\ UNCHANGED <<usEventOrDataReceived, usRxDataPending, usRxEventOpcode, cmd,
             parsed, rxBuffer>>
      BY <2>4, <1>a DEF HandlerWrite, Stays, GotoMoved
    <3>3. \/ /\ pc \in {"irq_write", "sw_first", "sw_xfer"}
             /\ pc' \in {"irq_wdesel", "sw_desel"}
          \/ UNCHANGED <<pc, ret>> /\ ~Disabling("irq_desel") /\ ~Reading
      BY <2>4, <1>a, <1>g, <1>h DEF HandlerWrite, At, Goto, Isr
    <3>4. QED BY <3>1, <3>2, <3>3, <1>c, <1>f DEF Writing
  <2>5. QED BY <1>3, <2>1, <2>2, <2>3, <2>4 DEF Handler
<1>4. CASE SpiWriteStep
  <2>1. CASE WriteEntry \/ WriteClaim \/ WriteSelect \/ WriteCheck \/ WriteDeselect
    BY <1>a, <1>b, <1>c, <1>d, <1>f, <1>g, <1>h, <2>1 DEF WriteEntry, GotoMoved,
       CallMoved, Belongs, WriteClaim, WriteSelect, WriteCheck, PinCheck,
       WriteDeselect, CsOff
  <2>2. CASE WriteTransfer
    <3>1. /\ pc \notin {"wt_exit", "wt_parse"} /\ (unsent = 1 => Writing)
          /\ unsent # 1 => UNCHANGED <<outq, devTodo>>
      BY <2>2, DeliverMoves, <1>b DEF WriteTransfer, At, Belongs
    <3>2. /\ Base' = Base
          /\ UNCHANGED <<usEventOrDataReceived, usRxDataPending, usRxEventOpcode, cmd,
             parsed, rxBuffer>>
      BY <2>2, <1>a DEF WriteTransfer, Stays, GotoMoved
    <3>3. \/ /\ pc \in {"irq_write", "sw_first", "sw_xfer"}
             /\ pc' \in {"irq_wdesel", "sw_desel"}
          \/ UNCHANGED <<pc, ret>> /\ ~Disabling("irq_desel") /\ ~Reading
      BY <2>2, <1>a, <1>g, <1>h DEF WriteTransfer, At, Goto, Isr
    <3>4. QED BY <3>1, <3>2, <3>3, <1>c, <1>f DEF Writing
  <2>3. CASE WriteWait
    <3>1. pc = "sw_wait" /\ (ret[1] = "wt_exit" => Base = "wt_exit")
      BY <2>3, Places DEF WriteWait, TopLabels, Safe, ReleaseInv
    <3>2. QED BY <2>3, <3>1, <1>a, <1>c, <1>f DEF WriteWait, ReturnMoved, WaitRegion
  <2>4. QED BY <1>4, <2>1, <2>2, <2>3 DEF SpiWriteStep
<1>5. CASE Wait
  <2>1. CASE WaitArm \/ WaitReceived \/ WaitPatch \/ WaitExit
    BY <1>a, <1>b, <1>c, <1>d, <1>f, <1>g, <1>h, <2>1 DEF WaitArm, GotoMoved, Belongs,
       WaitReceived, Received, WaitPatch, CallMoved, WaitExit
  <2>2. CASE WaitParse
    <3>1. pc = "wt_parse" /\ Base = "wt_parse" /\ Base' = "wt_res" /\ ~Owed /\ pc' = "en"
      BY <2>2, <1>a, <1>b, <1>c DEF WaitParse, OwedRegion, CallMoved, Belongs
    <3>2. rxBuffer # "replyData" => Clear
      BY <3>1, NothingOwed
    <3>3. QED BY <2>2, <3>1, <3>2, <1>c, <1>d, <1>f DEF WaitParse, ReplyTaken, WaitRegion
  <2>3. QED BY <1>5, <2>1, <2>2 DEF Wait
<1>6. CASE App
  BY <1>a, <1>b, <1>c, <1>d, <1>f, <1>g, <1>h, <1>6 DEF App, Begin, Restart,
     GotoMoved, Belongs, StartOpen, CallMoved, StartEnable, StartWaitHigh,
     StartWaitLow, OwedRegion, AppCall, AppStop, PowerDown, StopWaitHigh, SpiClose
<1>7. CASE Device
  <2>1. CASE DevPower \/ DevReady \/ DevGrant \/ DevOffer \/ DevRelease
    BY <1>a, <1>b, <1>c, <1>d, <1>f, <1>g, <1>h, <2>1 DEF DevPower, Stays, DevReady,
       LowerIrq, DevGrant, DevOffer, DevRelease
  <2>2. CASE DevOff
    <3>1. Clear'
      BY <2>2, <1>d, OfferedMoves DEF DevOff, Clear
    <3>2. QED BY <2>2, <3>1, <1>a, <1>c DEF DevOff, Stays
  <2>3. CASE DevAnswer
    <3>1. ~Clear
      BY <2>3 DEF DevAnswer, Clear
    <3>2. QED BY <2>3, <3>1, <1>a, <1>c DEF DevAnswer, Stays
  <2>4. CASE DevAsync
    <3>1. Offered' = Offered \cup {"async"}
      BY <2>4, <1>d, OfferedMoves DEF DevAsync
    <3>2. Clear' <=> Clear
      BY <2>4, <3>1 DEF DevAsync, Clear
    <3>3. QED BY <2>4, <3>2, <1>a, <1>c DEF DevAsync, Stays
  <2>5. QED BY <1>7, <2>1, <2>2, <2>3, <2>4 DEF Device
<1>8. CASE UNCHANGED vars
  BY <1>a, <1>b, <1>c, <1>d, <1>f, <1>g, <1>h, <1>8 DEF vars, counts, Stays
<1>9. QED BY <1>1, <1>2, <1>3, <1>4, <1>5, <1>6, <1>7, <1>8 DEF Next, Foreground,
   Finished

-----------------------------------------------------------------------------
\* The invariant holds at power-up and after every step.
LEMMA SafeInit == Init => SafeInv
<1> SUFFICES ASSUME Init PROVE SafeInv
  OBVIOUS
<1>1. Base = "off" /\ Offered = {} /\ \A x : ~OnStack(x)
  BY DEF Init, Base, Offered, OnStack
<1>2. NestedOnce /\ QueueShape
  BY DEF Init, NestedOnce, QueueShape
<1>3. PowerRegion /\ BootRegion /\ LineRegion /\ OfferRegion /\ RequestRegion
  BY <1>1 DEF Init, PowerRegion, BootRegion, LineRegion, OfferRegion, RequestRegion,
     Powering, Starting, ServedHere, Disabling, Writing
<1>4. UnsentRegion /\ NestRegion /\ EnableRegion /\ HandlerRegion
  BY <1>1, <1>2 DEF Init, UnsentRegion, NestRegion, EnableRegion, HandlerRegion, Disabling,
     Reading
<1>5. QueueRegion /\ OwedRegion /\ WaitRegion /\ ParseRegion
  BY <1>1, <1>2 DEF Init, QueueRegion, OwedRegion, WaitRegion, ParseRegion, Owed, Clear,
     Disabling, Reading
<1>6. QED BY <1>3, <1>4, <1>5 DEF SafeInv

LEMMA SafeHolds ==
    /\ Init => Safe
    /\ Safe /\ PromptRelease /\ [Next]_vars => Safe'
<1>1. Init => Safe
  BY TypeInit, ReleaseInit, SafeInit DEF Safe, BufferRegion, Init
<1>2. Safe /\ [Next]_vars => (TypeOK /\ ReleaseInv /\ BufferRegion)'
  BY TypeStep, ReleaseStep, BufferStep DEF Safe, ReleaseInv
<1>3. Safe /\ PromptRelease /\ [Next]_vars => SafeInv'
  BY PowerStep, BootStep, LineStep, OfferStep, RequestStep, UnsentStep, NestStep,
     EnableStep,
     HandlerStep, QueueStep, OwedStep, WaitStep, ParseStep DEF SafeInv
<1>4. QED BY <1>1, <1>2, <1>3 DEF Safe

LEMMA SafeDriver == Safe => DriverSafe
<1> SUFFICES ASSUME Safe PROVE DriverSafe
  OBVIOUS
<1>1. Belongs /\ UnsentRegion /\ RequestRegion /\ QueueRegion /\ NestRegion
  BY WhereFrom DEF Safe, SafeInv
<1>2. ExactlyOnce
  BY <1>1 DEF ExactlyOnce, UnsentRegion, Belongs, Disabling, TopLabels
<1>3. WriteGranted
  BY <1>1 DEF WriteGranted, RequestRegion, Request, Granted
<1>4. NoSpuriousRead
  BY <1>1 DEF NoSpuriousRead, QueueRegion
<1>5. HandlerNotNested
  <2>1. OnStack("irq_done") => pc \in EnLabels
    BY <1>1, NestMoves DEF Safe, ReleaseInv, NestRegion
  <2>2. QED BY <2>1 DEF HandlerNotNested, OnStack, EnLabels, Safe, TypeOK, CpuTypes
<1>6. QED BY <1>2, <1>3, <1>4, <1>5 DEF DriverSafe

\* With a device that lets go of IRQ at once, SpiWrite, the interrupt and the handler called
\* by WlanInterruptEnable hand each packet over exactly once, write under CS only on request,
\* read only what is offered, and the handler is not entered again from itself.
THEOREM SafelyDriven == ASSUME PromptRelease PROVE Spec => []DriverSafe
BY SafeHolds, SafeDriver, PTL DEF Spec

LEMMA SafeBus == Safe /\ (IsrRead \/ IsrWrite) => pc \notin Clocking
BY DEF Safe, SafeInv, RequestRegion, Request, IsrRead, IsrWrite, Isr, Clocking

\* An interrupt that reads or writes never comes while the foreground is clocking bytes: the
\* foreground clocks only under a request whose edge it has already seen.
THEOREM BusSafe == ASSUME PromptRelease PROVE Spec => BusExclusive
<1>1. Safe => [IsrRead \/ IsrWrite => pc \notin Clocking]_vars
  BY SafeBus
<1>2. QED BY <1>1, SafeHolds, PTL DEF Spec, BusExclusive

-----------------------------------------------------------------------------
(* The refinement of HciCall.                                                *)

\* Phase as a function of the state it reads.
PhaseOf(u, t, p, w) ==
    IF u = 1 THEN "sending" ELSE IF t # "none" THEN "executing" ELSE IF p = "app" THEN "ready"
    ELSE IF ~w \/ p \in {"ws_high", "ws_low"} THEN "down" ELSE "answered"

LEMMA PhaseIs ==
    /\ unsent \in {0, 1} => Phase = PhaseOf(unsent, devTodo, pc, wlanEn)
    /\ unsent' \in {0, 1} => Phase' = PhaseOf(unsent', devTodo', pc', wlanEn')
BY DEF Phase, PhaseOf

\* Every step is one of HciCall's, or leaves the phase.
LEMMA LinkStep == Safe /\ PromptRelease /\ [Next]_vars => [Link!Next]_Phase
<1> SUFFICES ASSUME Safe /\ PromptRelease, [Next]_vars PROVE [Link!Next]_Phase
  OBVIOUS
<1>a. GotoMoved /\ CallMoved /\ ReturnMoved /\ Stays
  BY Moved DEF Safe, ReleaseInv, StackMoved
<1>b. Belongs /\ Up
  BY WhereFrom, Powered DEF Safe
<1>c. OwedRegion /\ ParseRegion /\ PowerRegion /\ UnsentRegion
  BY DEF Safe, SafeInv
<1>d. /\ unsent \in {0, 1} /\ unsent' \in {0, 1}
      /\ wlanEn \in BOOLEAN /\ wlanEn' \in BOOLEAN
  BY SafeHolds DEF Safe, SafeInv, UnsentRegion, TypeOK, DriverTypes
<1>e. /\ Phase = PhaseOf(unsent, devTodo, pc, wlanEn)
      /\ Phase' = PhaseOf(unsent', devTodo', pc', wlanEn')
  BY <1>d, PhaseIs
<1>f. /\ devTodo # "none" => unsent = 0 /\ Base \in {"arm", "wt", "wt_exit"} /\ wlanEn
      /\ unsent = 1 => devTodo = "none"
  BY <1>c, <1>d DEF OwedRegion, PowerRegion, Owed, Clear
<1> USE DEF TopLabels, At, cpu, spi, hci, line, dev, PhaseOf, Link!Next, Link!Start,
   Link!Call, Link!Accept, Link!Answer, Link!More, Link!Done, Link!Stop, Link!Move,
   Send
<1>1. CASE IrqHandler
  <2>1. CASE IsrMissed \/ IsrPowerUp \/ IsrRead \/ IsrIgnored
    BY <1>a, <1>b, <1>d, <1>e, <1>f, <2>1 DEF IsrMissed, Isr, Stays, IsrPowerUp,
       IsrRead, IsrDeselect, IsrIgnored
  <2>2. CASE IsrWrite
    <3>1. /\ unsent = 1 => unsent' = 0 /\ devTodo' # "none"
          /\ unsent # 1 => UNCHANGED <<unsent, devTodo>>
      BY <2>2, DeliverMoves DEF Safe, TypeOK, CpuTypes, Calls
    <3>2. /\ UNCHANGED wlanEn
          /\ pc' = pc \/ (pc \notin TopLabels /\ pc' \in {"irq_wdesel", "sw_desel"})
      BY <2>2 DEF IsrWrite, At, Goto
    <3>3. wlanEn \/ pc' = pc
      BY <2>2, <1>b DEF IsrWrite, At, Up, SwLabels
    <3>4. QED BY <3>1, <3>2, <3>3, <1>d, <1>e
  <2>3. QED BY <1>1, <2>1, <2>2 DEF IrqHandler
<1>2. CASE FlagLoad \/ FlagStore \/ EnableMissed \/ EnablePin
  BY <1>a, <1>b, <1>d, <1>e, <1>f, <1>2 DEF FlagLoad, GotoMoved, RmwLoads, Belongs,
     FlagStore, ReturnMoved, RmwStores, EnableMissed, EnablePin, MissedPending,
     CallMoved
<1>3. CASE Handler
  <2>1. CASE HandlerEntry \/ HandlerDispatch \/ HandlerRead \/ HandlerDeselect \/
     HandlerDeliver \/ HandlerUnsolicited
    BY <1>a, <1>b, <1>d, <1>e, <1>f, <2>1 DEF HandlerEntry, GotoMoved, Belongs,
       HandlerDispatch, HandlerRead, CallMoved, HandlerDeselect, CsOff,
       HandlerDeliver, HandlerUnsolicited
  <2>2. CASE HandlerWrite
    <3>1. /\ unsent = 1 => unsent' = 0 /\ devTodo' # "none"
          /\ unsent # 1 => UNCHANGED <<unsent, devTodo>>
      BY <2>2, DeliverMoves DEF Safe, TypeOK, CpuTypes, Calls
    <3>2. /\ UNCHANGED wlanEn
          /\ pc' = pc \/ (pc \notin TopLabels /\ pc' \in {"irq_wdesel", "sw_desel"})
      BY <2>2 DEF HandlerWrite, At, Goto
    <3>3. wlanEn \/ pc' = pc
      BY <2>2, <1>b DEF HandlerWrite, At, Up, SwLabels
    <3>4. QED BY <3>1, <3>2, <3>3, <1>d, <1>e
  <2>3. QED BY <1>3, <2>1, <2>2 DEF Handler
<1>4. CASE SpiWriteStep
  <2>1. CASE WriteEntry \/ WriteClaim \/ WriteSelect \/ WriteCheck \/ WriteDeselect \/
     WriteWait
    BY <1>a, <1>b, <1>d, <1>e, <1>f, <2>1 DEF WriteEntry, GotoMoved, CallMoved,
       Belongs, WriteClaim, WriteSelect, WriteCheck, PinCheck, WriteDeselect, CsOff,
       WriteWait, ReturnMoved
  <2>2. CASE WriteTransfer
    <3>1. /\ unsent = 1 => unsent' = 0 /\ devTodo' # "none"
          /\ unsent # 1 => UNCHANGED <<unsent, devTodo>>
      BY <2>2, DeliverMoves DEF Safe, TypeOK, CpuTypes, Calls
    <3>2. /\ UNCHANGED wlanEn
          /\ pc' = pc \/ (pc \notin TopLabels /\ pc' \in {"irq_wdesel", "sw_desel"})
      BY <2>2 DEF WriteTransfer, At, Goto
    <3>3. wlanEn \/ pc' = pc
      BY <2>2, <1>b DEF WriteTransfer, At, Up, SwLabels
    <3>4. QED BY <3>1, <3>2, <3>3, <1>d, <1>e
  <2>3. QED BY <1>4, <2>1, <2>2 DEF SpiWriteStep
<1>5. CASE Wait
  <2>1. CASE WaitArm
    BY <2>1, <1>a, <1>b, <1>c, <1>d, <1>e, <1>f DEF WaitArm, GotoMoved, CallMoved,
       Belongs, OwedRegion, ParseRegion, PowerRegion, Powering, Clear
  <2>2. CASE WaitReceived
    BY <2>2, <1>a, <1>b, <1>c, <1>d, <1>e, <1>f DEF WaitReceived, GotoMoved,
       CallMoved, Belongs, OwedRegion, ParseRegion, PowerRegion, Powering, Clear
  <2>3. CASE WaitParse
    BY <2>3, <1>a, <1>b, <1>c, <1>d, <1>e, <1>f DEF WaitParse, GotoMoved, CallMoved,
       Belongs, OwedRegion, ParseRegion, PowerRegion, Powering, Clear
  <2>4. CASE WaitPatch
    BY <2>4, <1>a, <1>b, <1>c, <1>d, <1>e, <1>f DEF WaitPatch, GotoMoved, CallMoved,
       Belongs, OwedRegion, ParseRegion, PowerRegion, Powering, Clear
  <2>5. CASE WaitExit
    BY <2>5, <1>a, <1>b, <1>c, <1>d, <1>e, <1>f DEF WaitExit, GotoMoved, CallMoved,
       Belongs, OwedRegion, ParseRegion, PowerRegion, Powering, Clear
  <2>6. QED BY <1>5, <2>1, <2>2, <2>3, <2>4, <2>5 DEF Wait
<1>6. CASE App
  <2>1. CASE StopWaitHigh \/ SpiClose
    BY <1>a, <1>b, <1>d, <1>e, <1>f, <2>1 DEF StopWaitHigh, SpiClose, GotoMoved,
       Belongs
  <2>2. CASE Begin \/ Restart
    BY <2>2, <1>a, <1>b, <1>c, <1>d, <1>e, <1>f DEF Begin, Restart, GotoMoved,
       CallMoved, Belongs, OwedRegion, ParseRegion, PowerRegion, Powering, Clear
  <2>3. CASE StartOpen
    BY <2>3, <1>a, <1>b, <1>c, <1>d, <1>e, <1>f DEF StartOpen, GotoMoved, CallMoved,
       Belongs, OwedRegion, ParseRegion, PowerRegion, Powering, Clear
  <2>4. CASE StartEnable \/ StartWaitHigh
    BY <2>4, <1>a, <1>b, <1>c, <1>d, <1>e, <1>f DEF StartEnable, StartWaitHigh,
       GotoMoved, CallMoved, Belongs, OwedRegion, ParseRegion, PowerRegion, Powering,
       Clear
  <2>5. CASE StartWaitLow
    BY <2>5, <1>a, <1>b, <1>c, <1>d, <1>e, <1>f DEF StartWaitLow, GotoMoved,
       CallMoved, Belongs, OwedRegion, ParseRegion, PowerRegion, Powering, Clear
  <2>6. CASE AppCall
    BY <2>6, <1>a, <1>b, <1>c, <1>d, <1>e, <1>f DEF AppCall, GotoMoved, CallMoved,
       Belongs, OwedRegion, ParseRegion, PowerRegion, Powering, Clear
  <2>7. CASE AppStop
    BY <2>7, <1>a, <1>b, <1>c, <1>d, <1>e, <1>f DEF AppStop, PowerDown, GotoMoved,
       CallMoved, Belongs, OwedRegion, ParseRegion, PowerRegion, Powering, Clear
  <2>8. QED BY <1>6, <2>1, <2>2, <2>3, <2>4, <2>5, <2>6, <2>7 DEF App
<1>7. CASE Device
  BY <1>a, <1>b, <1>d, <1>e, <1>f, <1>7 DEF Device, DevPower, Stays, DevReady,
     LowerIrq, DevOff, DevGrant, DevOffer, DevRelease, DevAnswer, Belongs, DevAsync
<1>8. CASE UNCHANGED vars
  BY <1>a, <1>b, <1>d, <1>e, <1>f, <1>8 DEF vars, counts, Stays
<1>9. QED BY <1>1, <1>2, <1>3, <1>4, <1>5, <1>6, <1>7, <1>8 DEF Next, Foreground,
   Finished

\* The link implements HciCall: a packet is handed over once, the device answers it, and
\* only then does the call go on or return; a stop comes between calls.
THEOREM LinkRefined == ASSUME PromptRelease PROVE Spec => LinkSafe
<1>1. Init => Link!Init
  BY DEF Init, Link!Init, Phase
<1>2. QED BY <1>1, SafeHolds, LinkStep, PTL DEF Spec, LinkSafe, Link!Spec
=============================================================================
