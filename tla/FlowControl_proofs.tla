------------------------- MODULE FlowControl_proofs -------------------------
(***************************************************************************)
(* Proofs about FlowControl for every set of sockets, every pool and every   *)
(* choice of the labels at which no interrupt is taken.                      *)
(***************************************************************************)
EXTENDS FlowControl, TLAPS

USE DEF call, regs, answer, counter, report, buffers, peers, Goto, Finish, Enter

-----------------------------------------------------------------------------
\* Type correctness.

LEMMA TypeInit == Init => TypeOK
<1> SUFFICES ASSUME Init PROVE TypeOK
  OBVIOUS
<1>1. PlaceTypes
  BY DEF Init, PlaceTypes, Labels, Ops
<1>2. NumberTypes
  <2>1. usNumberOfFreeBuffers \in Nat
    BY FlowControlAssumption DEF Init
  <2> QED
    BY <2>1 DEF Init, NumberTypes, StatusBytes, Sent
<1>3. FlagTypes
  BY DEF Init, FlagTypes
<1> QED
  BY <1>1, <1>2, <1>3 DEF TypeOK

\* Labels and sockets.
LEMMA PlaceStep == PlaceTypes /\ [Next]_vars => PlaceTypes'
<1> SUFFICES ASSUME PlaceTypes, [Next]_vars PROVE PlaceTypes'
  OBVIOUS
<1>1. ASSUME NEW s \in Sockets,
             SendCall(s) \/ Socket(s) \/ CloseSocket(s) \/ NotDone(s)
      PROVE  PlaceTypes'
  BY <1>1 DEF PlaceTypes, Labels, Ops, SendCall, Socket, CloseSocket, NotDone
<1>2. CASE ConsumeError \/ ClearError \/ CheckActive \/ CheckFree
  BY <1>2 DEF PlaceTypes, Labels, Ops, ConsumeError, ClearError, CheckActive, CheckFree
<1>3. CASE TakeLoad \/ TakeStore
  BY <1>3 DEF PlaceTypes, Labels, Ops, TakeLoad, TakeStore
<1>4. CASE CountSent
  BY <1>4 DEF PlaceTypes, Labels, Ops, CountSent, Count
<1>5. CASE Transmit \/ Arm \/ TakeCompletion \/ SendReturn
  BY <1>5 DEF PlaceTypes, Labels, Ops, Transmit, Arm, TakeCompletion, Complete, SendReturn
<1>6. CASE SetLoad
  BY <1>6 DEF PlaceTypes, Labels, Ops, SetLoad
<1>7. CASE SetStore
  BY <1>7 DEF PlaceTypes, Labels, Ops, SetStore, StatusSet
<1>8. CASE SetEventMask \/ Restart
  BY <1>8 DEF PlaceTypes, Labels, Ops, SetEventMask, Restart
<1>9. CASE SendOk
  BY <1>9 DEF PlaceTypes, Labels, Ops, SendOk, Keep
<1>10. CASE DevFree
  BY <1>10 DEF PlaceTypes, Labels, Ops, DevFree
<1>11. ASSUME NEW n \in 1..freed, FreeBuff(n) PROVE PlaceTypes'
  BY <1>11 DEF PlaceTypes, Labels, Ops, FreeBuff, Release
<1>12. ASSUME NEW s \in Sockets, SendFail(s) \/ DevPeerGone(s) PROVE PlaceTypes'
  BY <1>12 DEF PlaceTypes, Labels, Ops, SendFail, DevPeerGone
<1>13. CASE UNCHANGED vars
  BY <1>13 DEF PlaceTypes, Labels, Ops, vars
<1> QED
  BY <1>1, <1>2, <1>3, <1>4, <1>5, <1>6, <1>7, <1>8, <1>9, <1>10, <1>11, <1>12, <1>13
     DEF Next, Foreground, Send, Device, FreeSome

\* Counters, credits and results.
LEMMA NumberStep == NumberTypes /\ [Next]_vars => NumberTypes'
<1> SUFFICES ASSUME NumberTypes, [Next]_vars PROVE NumberTypes'
  OBVIOUS
<1>1. ASSUME NEW s \in Sockets,
             SendCall(s) \/ Socket(s) \/ CloseSocket(s) \/ NotDone(s)
      PROVE  NumberTypes'
  BY <1>1 DEF NumberTypes, StatusBytes, Sent, SendCall, Socket, CloseSocket, NotDone
<1>2. CASE ConsumeError \/ ClearError \/ CheckActive \/ CheckFree
  BY <1>2 DEF NumberTypes, StatusBytes, Sent, ConsumeError, ClearError, CheckActive,
           CheckFree
<1>3. CASE TakeLoad
  BY <1>3 DEF NumberTypes, StatusBytes, Sent, TakeLoad
<1>4. CASE TakeStore
  <2>1. Taken \in Nat
    BY DEF NumberTypes, Taken
  <2> QED
    BY <1>4, <2>1 DEF NumberTypes, StatusBytes, Sent, TakeStore
<1>5. CASE CountSent
  BY <1>5 DEF NumberTypes, StatusBytes, Sent, CountSent, Count
<1>6. CASE Transmit \/ Arm \/ TakeCompletion \/ SendReturn
  BY <1>6 DEF NumberTypes, StatusBytes, Sent, Transmit, Arm, TakeCompletion, Complete,
           SendReturn
<1>7. CASE SetLoad \/ SetStore \/ SetEventMask
  BY <1>7 DEF NumberTypes, StatusBytes, Sent, SetLoad, SetStore, SetEventMask
<1>8. CASE Restart
  <2>1. Pool \in Nat
    BY FlowControlAssumption
  <2> QED
    BY <1>8, <2>1 DEF NumberTypes, StatusBytes, Sent, Restart
<1>9. CASE SendOk \/ DevFree
  BY <1>9 DEF NumberTypes, StatusBytes, Sent, SendOk, DevFree, Keep
<1>10. ASSUME NEW n \in 1..freed, FreeBuff(n) PROVE NumberTypes'
  <2>1. (usNumberOfFreeBuffers + n) % 65536 \in Nat
    BY DEF NumberTypes
  <2> QED
    BY <1>10, <2>1 DEF NumberTypes, StatusBytes, Sent, FreeBuff, Release
<1>11. ASSUME NEW s \in Sockets, SendFail(s) \/ DevPeerGone(s) PROVE NumberTypes'
  BY <1>11 DEF NumberTypes, StatusBytes, Sent, SendFail, DevPeerGone
<1>12. CASE UNCHANGED vars
  BY <1>12 DEF NumberTypes, StatusBytes, Sent, vars
<1> QED
  BY <1>1, <1>2, <1>3, <1>4, <1>5, <1>6, <1>7, <1>8, <1>9, <1>10, <1>11, <1>12
     DEF Next, Foreground, Send, Device, FreeSome

LEMMA FlagStep == FlagTypes /\ [Next]_vars => FlagTypes'
<1> SUFFICES ASSUME FlagTypes, [Next]_vars PROVE FlagTypes'
  OBVIOUS
<1>1. ASSUME NEW s \in Sockets,
             SendCall(s) \/ Socket(s) \/ CloseSocket(s) \/ NotDone(s)
      PROVE  FlagTypes'
  BY <1>1 DEF FlagTypes, SendCall, Socket, CloseSocket, NotDone
<1>2. CASE ConsumeError \/ ClearError \/ CheckActive \/ CheckFree
  BY <1>2 DEF FlagTypes, ConsumeError, ClearError, CheckActive, CheckFree
<1>3. CASE TakeLoad \/ TakeStore \/ CountSent \/ Transmit
  BY <1>3 DEF FlagTypes, TakeLoad, TakeStore, CountSent, Transmit
<1>4. CASE Arm \/ TakeCompletion \/ SendReturn
  BY <1>4 DEF FlagTypes, Arm, TakeCompletion, Complete, SendReturn
<1>5. CASE SetLoad \/ SetStore
  BY <1>5 DEF FlagTypes, SetLoad, SetStore
<1>6. CASE SetEventMask
  BY <1>6 DEF FlagTypes, SetEventMask
<1>7. CASE Restart
  BY <1>7 DEF FlagTypes, Restart
<1>8. CASE SendOk
  BY <1>8 DEF FlagTypes, SendOk, Keep
<1>9. CASE DevFree
  BY <1>9 DEF FlagTypes, DevFree
<1>10. ASSUME NEW n \in 1..freed, FreeBuff(n) PROVE FlagTypes'
  <2>1. SpiderCanShutDown' = TRUE \/ SpiderCanShutDown' = SpiderCanShutDown
    BY <1>10 DEF FreeBuff
  <2>2. UNCHANGED <<usRxEventOpcode, kept, InformHostOnTxComplete>>
    BY <1>10 DEF FreeBuff
  <2> QED
    BY <2>1, <2>2 DEF FlagTypes
<1>11. ASSUME NEW s \in Sockets, SendFail(s) \/ DevPeerGone(s) PROVE FlagTypes'
  BY <1>11 DEF FlagTypes, SendFail, DevPeerGone
<1>12. CASE UNCHANGED vars
  BY <1>12 DEF FlagTypes, vars
<1> QED
  BY <1>1, <1>2, <1>3, <1>4, <1>5, <1>6, <1>7, <1>8, <1>9, <1>10, <1>11, <1>12
     DEF Next, Foreground, Send, Device, FreeSome

\* The variables of the send path keep their types.
THEOREM TypeCorrect == Spec => []TypeOK
<1>1. TypeOK /\ [Next]_vars => TypeOK'
  BY PlaceStep, NumberStep, FlagStep DEF TypeOK
<1> QED
  BY <1>1, TypeInit, PTL DEF Spec

-----------------------------------------------------------------------------
\* Credits.

\* The decrement stores what it has loaded less one.
LEMMA CreditStep == NumberTypes /\ CreditInv /\ [Next]_vars => CreditInv'
<1> SUFFICES ASSUME NumberTypes, CreditInv, [Next]_vars PROVE CreditInv'
  OBVIOUS
<1> USE FlowControlAssumption
<1>1. ASSUME NEW s \in Sockets,
             SendCall(s) \/ Socket(s) \/ CloseSocket(s) \/ NotDone(s)
      PROVE  CreditInv'
  BY <1>1 DEF NumberTypes, CreditInv, NoOverrun, InFlight, SendCall, Socket, CloseSocket,
           NotDone
<1>2. CASE ConsumeError \/ ClearError \/ CheckActive
  BY <1>2 DEF NumberTypes, CreditInv, NoOverrun, InFlight, ConsumeError, ClearError,
           CheckActive
<1>3. CASE CheckFree
  BY <1>3 DEF NumberTypes, CreditInv, NoOverrun, InFlight, CheckFree
<1>4. CASE TakeLoad
  BY <1>4 DEF NumberTypes, CreditInv, NoOverrun, InFlight, TakeLoad
<1>5. CASE TakeStore
  <2>1. usNumberOfFreeBuffers' = credit - 1
    BY <1>5 DEF TakeStore, Taken, NumberTypes, CreditInv, NoOverrun, InFlight
  <2> QED
    BY <1>5, <2>1 DEF NumberTypes, CreditInv, NoOverrun, InFlight, TakeStore
<1>6. CASE CountSent
  BY <1>6 DEF NumberTypes, CreditInv, NoOverrun, InFlight, CountSent, Count
<1>7. CASE Transmit
  BY <1>7 DEF NumberTypes, CreditInv, NoOverrun, InFlight, Transmit
<1>8. CASE Arm \/ TakeCompletion \/ SendReturn
  BY <1>8 DEF NumberTypes, CreditInv, NoOverrun, InFlight, Arm, TakeCompletion, Complete,
           SendReturn
<1>9. CASE SetLoad \/ SetStore \/ SetEventMask
  BY <1>9 DEF NumberTypes, CreditInv, NoOverrun, InFlight, SetLoad, SetStore, SetEventMask
<1>10. CASE Restart
  BY <1>10 DEF NumberTypes, CreditInv, NoOverrun, InFlight, Restart
<1>11. CASE SendOk
  BY <1>11 DEF NumberTypes, CreditInv, NoOverrun, InFlight, SendOk, Keep
<1>12. CASE DevFree
  BY <1>12 DEF NumberTypes, CreditInv, NoOverrun, InFlight, DevFree
<1>13. ASSUME NEW n \in 1..freed, FreeBuff(n) PROVE CreditInv'
  <2>1. usNumberOfFreeBuffers' = usNumberOfFreeBuffers + n
    BY <1>13 DEF FreeBuff, NumberTypes, CreditInv, NoOverrun, InFlight
  <2> QED
    BY <1>13, <2>1 DEF NumberTypes, CreditInv, NoOverrun, InFlight, FreeBuff
<1>14. ASSUME NEW s \in Sockets, SendFail(s) \/ DevPeerGone(s) PROVE CreditInv'
  BY <1>14 DEF NumberTypes, CreditInv, NoOverrun, InFlight, SendFail, DevPeerGone
<1>15. CASE UNCHANGED vars
  BY <1>15 DEF NumberTypes, CreditInv, NoOverrun, InFlight, vars
<1> QED
  BY <1>1, <1>2, <1>3, <1>4, <1>5, <1>6, <1>7, <1>8, <1>9, <1>10, <1>11, <1>12, <1>13,
     <1>14, <1>15
     DEF Next, Foreground, Send, Device, FreeSome

LEMMA CreditInit == Init => CreditInv
  BY FlowControlAssumption DEF Init, CreditInv, NoOverrun, InFlight

\* The credits under the interrupt's updates, for any Masked.
LEMMA CreditCorrect == Spec => [](NumberTypes /\ CreditInv)
<1>1. TypeOK => NumberTypes
  BY DEF TypeOK
<1> QED
  BY <1>1, CreditInit, CreditStep, TypeCorrect, PTL DEF Spec

\* The device is never sent a packet it has no buffer for, even though the
\* decrement of the credits races with the interrupt that adds to them.
THEOREM NeverOverrun == Spec => []NoOverrun
<1>1. CreditInv => NoOverrun
  BY DEF CreditInv
<1> QED
  BY <1>1, CreditCorrect, PTL

\* If no interrupt is taken inside the decrement, no credit is lost either.
THEOREM Conserved == ASSUME "dec_w" \in Masked PROVE Spec => []BuffersConserved
<1>1. Init => ExactInv
  BY FlowControlAssumption DEF Init, ExactInv, BuffersConserved, InFlight
<1>2. NumberTypes /\ CreditInv /\ ExactInv /\ [Next]_vars => ExactInv'
  <2> SUFFICES ASSUME NumberTypes, CreditInv, ExactInv, [Next]_vars PROVE ExactInv'
    OBVIOUS
  <2> USE FlowControlAssumption
  <2>1. ASSUME NEW s \in Sockets,
               SendCall(s) \/ Socket(s) \/ CloseSocket(s) \/ NotDone(s)
        PROVE  ExactInv'
    BY <2>1 DEF NumberTypes, ExactInv, BuffersConserved, InFlight, SendCall, Socket,
             CloseSocket, NotDone
  <2>2. CASE ConsumeError \/ ClearError \/ CheckActive
    BY <2>2 DEF NumberTypes, ExactInv, BuffersConserved, InFlight, ConsumeError, ClearError,
             CheckActive
  <2>3. CASE CheckFree
    BY <2>3 DEF NumberTypes, ExactInv, BuffersConserved, InFlight, CheckFree
  <2>4. CASE TakeLoad
    BY <2>4 DEF NumberTypes, ExactInv, BuffersConserved, InFlight, TakeLoad
  <2>5. CASE TakeStore
    <3>1. usNumberOfFreeBuffers' = credit - 1
      BY <2>5 DEF TakeStore, Taken, NumberTypes, CreditInv, NoOverrun, InFlight
    <3> QED
      BY <2>5, <3>1 DEF NumberTypes, ExactInv, BuffersConserved, InFlight, TakeStore
  <2>6. CASE CountSent
    BY <2>6 DEF NumberTypes, ExactInv, BuffersConserved, InFlight, CountSent, Count
  <2>7. CASE Transmit
    BY <2>7 DEF NumberTypes, ExactInv, BuffersConserved, InFlight, Transmit
  <2>8. CASE Arm \/ TakeCompletion \/ SendReturn
    BY <2>8 DEF NumberTypes, ExactInv, BuffersConserved, InFlight, Arm, TakeCompletion,
             Complete, SendReturn
  <2>9. CASE SetLoad \/ SetStore \/ SetEventMask
    BY <2>9 DEF NumberTypes, ExactInv, BuffersConserved, InFlight, SetLoad, SetStore,
             SetEventMask
  <2>10. CASE Restart
    BY <2>10 DEF NumberTypes, ExactInv, BuffersConserved, InFlight, Restart
  <2>11. CASE SendOk
    BY <2>11 DEF NumberTypes, ExactInv, BuffersConserved, InFlight, SendOk, Keep
  <2>12. CASE DevFree
    BY <2>12 DEF NumberTypes, ExactInv, BuffersConserved, InFlight, DevFree
  <2>13. ASSUME NEW n \in 1..freed, FreeBuff(n) PROVE ExactInv'
    <3>1. usNumberOfFreeBuffers' = usNumberOfFreeBuffers + n /\ pc # "dec_w"
      BY <2>13 DEF FreeBuff, Irq, NumberTypes, CreditInv, NoOverrun, InFlight
    <3> QED
      BY <2>13, <3>1 DEF NumberTypes, ExactInv, BuffersConserved, InFlight, FreeBuff
  <2>14. ASSUME NEW s \in Sockets, SendFail(s) \/ DevPeerGone(s) PROVE ExactInv'
    BY <2>14 DEF NumberTypes, ExactInv, BuffersConserved, InFlight, SendFail, DevPeerGone
  <2>15. CASE UNCHANGED vars
    BY <2>15 DEF NumberTypes, ExactInv, BuffersConserved, InFlight, vars
  <2> QED
    BY <2>1, <2>2, <2>3, <2>4, <2>5, <2>6, <2>7, <2>8, <2>9, <2>10, <2>11, <2>12, <2>13,
       <2>14, <2>15
       DEF Next, Foreground, Send, Device, FreeSome
<1>3. ExactInv => BuffersConserved
  BY DEF ExactInv
<1> QED
  BY <1>1, <1>2, <1>3, CreditCorrect, PTL DEF Spec

-----------------------------------------------------------------------------
\* The packet counters.

LEMMA CountStep == NumberTypes /\ CountInv /\ [Next]_vars => CountInv'
<1> SUFFICES ASSUME NumberTypes, CountInv, [Next]_vars PROVE CountInv'
  OBVIOUS
<1>1. ASSUME NEW s \in Sockets,
             SendCall(s) \/ Socket(s) \/ CloseSocket(s) \/ NotDone(s)
      PROVE  CountInv'
  BY <1>1 DEF NumberTypes, CountInv, SendCall, Socket, CloseSocket, NotDone
<1>2. CASE ConsumeError \/ ClearError \/ CheckActive \/ CheckFree
  BY <1>2 DEF NumberTypes, CountInv, ConsumeError, ClearError, CheckActive, CheckFree
<1>3. CASE TakeLoad \/ TakeStore
  BY <1>3 DEF NumberTypes, CountInv, TakeLoad, TakeStore
<1>4. CASE CountSent
  BY <1>4 DEF NumberTypes, CountInv, CountSent, Count
<1>5. CASE Transmit
  BY <1>5 DEF NumberTypes, CountInv, Transmit
<1>6. CASE Arm \/ TakeCompletion \/ SendReturn
  BY <1>6 DEF NumberTypes, CountInv, Arm, TakeCompletion, Complete, SendReturn
<1>7. CASE SetLoad \/ SetStore \/ SetEventMask
  BY <1>7 DEF NumberTypes, CountInv, SetLoad, SetStore, SetEventMask
<1>8. CASE Restart
  BY <1>8 DEF NumberTypes, CountInv, Restart
<1>9. CASE SendOk
  BY <1>9 DEF NumberTypes, CountInv, SendOk, Keep
<1>10. CASE DevFree
  BY <1>10 DEF NumberTypes, CountInv, DevFree
<1>11. ASSUME NEW n \in 1..freed, FreeBuff(n) PROVE CountInv'
  BY <1>11 DEF NumberTypes, CountInv, FreeBuff, Release
<1>12. ASSUME NEW s \in Sockets, SendFail(s) \/ DevPeerGone(s) PROVE CountInv'
  BY <1>12 DEF NumberTypes, CountInv, SendFail, DevPeerGone
<1>13. CASE UNCHANGED vars
  BY <1>13 DEF NumberTypes, CountInv, vars
<1> QED
  BY <1>1, <1>2, <1>3, <1>4, <1>5, <1>6, <1>7, <1>8, <1>9, <1>10, <1>11, <1>12, <1>13
     DEF Next, Foreground, Send, Device, FreeSome

\* An event that reports buffers raises HCI_EVENT_CC3000_CAN_SHUT_DOWN only
\* when the counters agree.
LEMMA FreeBuffRaises ==
    ASSUME NEW n, FreeBuff(n)
    PROVE  \/ SpiderCanShutDown' = TRUE /\ TxComplete
           \/ SpiderCanShutDown' = SpiderCanShutDown
  BY DEF FreeBuff

\* HCI_EVENT_CC3000_CAN_SHUT_DOWN is raised only by an event that reports
\* buffers, when the counters agree.
LEMMA RaisedByFree ==
    ASSUME [Next]_vars, ~SpiderCanShutDown, SpiderCanShutDown'
    PROVE  \E n \in 1..freed : FreeBuff(n) /\ NumberOfReleasedPackets' = NumberOfSentPackets
<1>1. ASSUME NEW s \in Sockets,
             \/ SendCall(s) \/ Socket(s) \/ CloseSocket(s) \/ NotDone(s)
             \/ SendFail(s) \/ DevPeerGone(s)
      PROVE  FALSE
  BY <1>1 DEF SendCall, Socket, CloseSocket, NotDone, SendFail, DevPeerGone
<1>2. ~(ConsumeError \/ ClearError \/ CheckActive \/ CheckFree)
  BY DEF ConsumeError, ClearError, CheckActive, CheckFree
<1>3. ~(TakeLoad \/ TakeStore \/ CountSent \/ Transmit \/ Arm
         \/ TakeCompletion \/ SendReturn)
  BY DEF TakeLoad, TakeStore, CountSent, Transmit, Arm, TakeCompletion, Complete, SendReturn
<1>4. ~(SetLoad \/ SetStore \/ SetEventMask \/ Restart)
  BY DEF SetLoad, SetStore, SetEventMask, Restart
<1>5. ~(SendOk \/ DevFree \/ UNCHANGED vars)
  BY DEF SendOk, DevFree, vars
<1>6. PICK n \in 1..freed : FreeBuff(n)
  BY <1>1, <1>2, <1>3, <1>4, <1>5 DEF Next, Foreground, Send, Device, FreeSome
<1>7. \/ SpiderCanShutDown' = TRUE /\ TxComplete
      \/ SpiderCanShutDown' = SpiderCanShutDown
  BY <1>6, FreeBuffRaises
<1>8. TxComplete
  BY <1>7
<1>9. NumberOfReleasedPackets' = NumberOfSentPackets
  BY <1>8 DEF TxComplete
<1> QED
  BY <1>6, <1>9

\* The device is reported idle only when it is.
THEOREM ShutDownSafe == Spec => ShutDownWhenIdle
<1>1. Init => CountInv
  BY DEF Init, CountInv
<1>2. NumberTypes /\ CountInv /\ CountInv' /\ [Next]_vars =>
          [~SpiderCanShutDown /\ SpiderCanShutDown' =>
              held' = 0 /\ freed' = 0 /\ pc # "xmit"]_vars
  <2> SUFFICES ASSUME NumberTypes, CountInv, CountInv', [Next]_vars,
                      ~SpiderCanShutDown, SpiderCanShutDown'
               PROVE  held' = 0 /\ freed' = 0 /\ pc # "xmit"
    OBVIOUS
  <2>1. PICK n \in 1..freed : FreeBuff(n) /\ NumberOfReleasedPackets' = NumberOfSentPackets
    BY RaisedByFree
  <2>2. /\ pc' = pc /\ NumberOfSentPackets' = NumberOfSentPackets
        /\ held' = held /\ freed' = freed - n
    BY <2>1 DEF FreeBuff
  <2> QED
    BY <2>1, <2>2 DEF NumberTypes, CountInv
<1> QED
  BY <1>1, <1>2, CountStep, CreditCorrect, PTL DEF Spec, ShutDownWhenIdle

-----------------------------------------------------------------------------
\* socket_active_status.

\* If no interrupt is taken between the load and the store of
\* set_socket_active_status, only socket makes a socket active again.
THEOREM MarksKept == ASSUME "set_w" \in Masked PROVE Spec => InactiveKept
<1> DEFINE Kept == \A s \in inactive \ inactive' : pc = "set_w" /\ op = "socket" /\ s = sock
<1>1. Init => MarkInv
  BY DEF Init, MarkInv
<1>2. ASSUME MarkInv, [Next]_vars PROVE MarkInv' /\ Kept
  <2>1. ASSUME NEW s \in Sockets,
               SendCall(s) \/ Socket(s) \/ CloseSocket(s) \/ NotDone(s)
        PROVE  MarkInv' /\ Kept
    BY <2>1 DEF MarkInv, SendCall, Socket, CloseSocket, NotDone
  <2>2. CASE ConsumeError \/ ClearError \/ CheckActive \/ CheckFree
    BY <2>2 DEF MarkInv, ConsumeError, ClearError, CheckActive, CheckFree
  <2>3. CASE TakeLoad \/ TakeStore \/ CountSent \/ Transmit \/ Arm
           \/ TakeCompletion \/ SendReturn
    BY <2>3 DEF MarkInv, TakeLoad, TakeStore, CountSent, Transmit, Arm, TakeCompletion,
             Complete, SendReturn
  <2>4. CASE SetLoad
    BY <2>4 DEF MarkInv, SetLoad
  <2>5. CASE SetStore
    BY <1>2, <2>5 DEF MarkInv, SetStore, StatusSet
  <2>6. CASE SetEventMask \/ Restart
    BY <2>6 DEF MarkInv, SetEventMask, Restart
  <2>7. ASSUME NEW n \in 1..freed, FreeBuff(n) PROVE MarkInv' /\ Kept
    BY <1>2, <2>7 DEF MarkInv, FreeBuff
  <2>8. CASE SendOk \/ DevFree
    BY <1>2, <2>8 DEF MarkInv, SendOk, DevFree
  <2>9. ASSUME NEW s \in Sockets, SendFail(s) PROVE MarkInv' /\ Kept
    BY <2>9 DEF MarkInv, SendFail, Irq
  <2>10. ASSUME NEW s \in Sockets, DevPeerGone(s) PROVE MarkInv' /\ Kept
    BY <1>2, <2>10 DEF MarkInv, DevPeerGone
  <2>11. CASE UNCHANGED vars
    BY <1>2, <2>11 DEF MarkInv, vars
  <2> HIDE DEF Kept
  <2> QED
    BY <1>2, <2>1, <2>2, <2>3, <2>4, <2>5, <2>6, <2>7, <2>8, <2>9, <2>10, <2>11
       DEF Next, Foreground, Send, Device, FreeSome
<1> QED
  BY <1>1, <1>2, PTL DEF Spec, InactiveKept
=============================================================================
