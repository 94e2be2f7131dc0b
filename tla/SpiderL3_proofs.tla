---------------------------- MODULE SpiderL3_proofs ----------------------------
(***************************************************************************)
(* Proofs about SpiderL3 for every number of undelivered events. Those of the  *)
(* second half are about a device that connects only when it is asked to.      *)
(***************************************************************************)
EXTENDS SpiderL3, TLAPS

USE DEF flags, device, Goto, Done, AtCommand, Commands

-----------------------------------------------------------------------------
\* Type correctness.

LEMMA TypeInit == Init => TypeOK
<1> SUFFICES ASSUME Init PROVE TypeOK
  OBVIOUS
<1>1. PlaceTypes
  BY DEF Init, PlaceTypes, Labels
<1>2. FlagTypes /\ DeviceTypes
  BY DEF Init, FlagTypes, DeviceTypes
<1>3. QueueTypes
  BY SpiderL3Assumption DEF Init, QueueTypes
<1> QED
  BY <1>1, <1>2, <1>3 DEF TypeOK

LEMMA PlaceStep == PlaceTypes /\ [Next]_vars => PlaceTypes'
<1> SUFFICES ASSUME PlaceTypes, [Next]_vars PROVE PlaceTypes'
  OBVIOUS
<1> USE DEF PlaceTypes, Labels
<1>1. CASE Begin \/ Close \/ BeginMask
  BY <1>1 DEF Begin, Close, BeginMask
<1>2. CASE Connect \/ AutoConnect \/ Disconnect \/ AckFinish
  BY <1>2 DEF Connect, AutoConnect, Disconnect, AckFinish, Enter
<1>3. CASE AutoWait \/ DisconnectWait \/ DisconnectClear
  BY <1>3 DEF AutoWait, DisconnectWait, DisconnectClear
<1>4. ASSUME NEW ok \in BOOLEAN, ConnectCommand(ok) \/ DisconnectCommand(ok) PROVE PlaceTypes'
  BY <1>4 DEF ConnectCommand, DisconnectCommand
<1>5. ASSUME NEW ok \in BOOLEAN, AutoPolicy(ok) PROVE PlaceTypes'
  BY <1>5 DEF AutoPolicy, TakesUp
<1>6. CASE ConnectPolicy \/ SmartConfig \/ ConfigPolicy
  BY <1>6 DEF ConnectPolicy, SmartConfig, ConfigPolicy
<1>7. CASE ConfigDelProfile \/ ConfigWait \/ ConfigKey
  BY <1>7 DEF ConfigDelProfile, ConfigWait, ConfigKey
<1>8. ASSUME NEW ok \in BOOLEAN, ConfigStart(ok) PROVE PlaceTypes'
  BY <1>8 DEF ConfigStart
<1>9. CASE ConfigFinish \/ ConfigStop \/ ConfigMask
  BY <1>9 DEF ConfigFinish, ConfigStop, ConfigMask
<1>10. CASE ConfigAuto \/ ConfigRestart
  BY <1>10 DEF ConfigAuto, TakesUp, ConfigRestart
<1>11. ASSUME NEW ok \in BOOLEAN, Ack(ok) PROVE PlaceTypes'
  BY <1>11 DEF Ack
<1>12. CASE Deliver
  BY <1>12 DEF Deliver
<1>13. CASE Associate \/ Lease
  BY <1>13 DEF Associate, Lease
<1>14. CASE Drop \/ Phone
  BY <1>14 DEF Drop, Phone
<1>15. CASE UNCHANGED vars
  BY <1>15 DEF vars
<1> QED
  BY <1>1, <1>2, <1>3, <1>4, <1>5, <1>6, <1>7, <1>8, <1>9, <1>10, <1>11, <1>12, <1>13,
     <1>14, <1>15
     DEF Next, Call, Step

LEMMA FlagStep == FlagTypes /\ [Next]_vars => FlagTypes'
<1> SUFFICES ASSUME FlagTypes, [Next]_vars PROVE FlagTypes'
  OBVIOUS
<1> USE DEF FlagTypes
<1>1. CASE Begin \/ Close \/ BeginMask
  BY <1>1 DEF Begin, Close, BeginMask, PowerOn, PowerOff, ClearFlags
<1>2. CASE Connect \/ AutoConnect \/ Disconnect \/ AckFinish
  BY <1>2 DEF Connect, AutoConnect, Disconnect, AckFinish, Enter
<1>3. CASE AutoWait \/ DisconnectWait \/ DisconnectClear
  BY <1>3 DEF AutoWait, DisconnectWait, DisconnectClear, ClearFlags
<1>4. ASSUME NEW ok \in BOOLEAN, ConnectCommand(ok) \/ DisconnectCommand(ok) PROVE FlagTypes'
  BY <1>4 DEF ConnectCommand, DisconnectCommand
<1>5. ASSUME NEW ok \in BOOLEAN, AutoPolicy(ok) PROVE FlagTypes'
  BY <1>5 DEF AutoPolicy, TakesUp
<1>6. CASE ConnectPolicy \/ SmartConfig \/ ConfigPolicy
  BY <1>6 DEF ConnectPolicy, SmartConfig, ConfigPolicy, ClearFlags
<1>7. CASE ConfigDelProfile \/ ConfigWait \/ ConfigKey
  BY <1>7 DEF ConfigDelProfile, ConfigWait, ConfigKey
<1>8. ASSUME NEW ok \in BOOLEAN, ConfigStart(ok) PROVE FlagTypes'
  BY <1>8 DEF ConfigStart
<1>9. CASE ConfigFinish \/ ConfigStop \/ ConfigMask
  BY <1>9 DEF ConfigFinish, ConfigStop, ConfigMask, PowerOff
<1>10. CASE ConfigAuto \/ ConfigRestart
  BY <1>10 DEF ConfigAuto, TakesUp, ConfigRestart, PowerOn
<1>11. ASSUME NEW ok \in BOOLEAN, Ack(ok) PROVE FlagTypes'
  BY <1>11 DEF Ack
<1>12. CASE Deliver
  BY <1>12 DEF Deliver, Callback
<1>13. CASE Associate \/ Lease
  BY <1>13 DEF Associate, Lease
<1>14. CASE Drop \/ Phone
  BY <1>14 DEF Drop, Phone
<1>15. CASE UNCHANGED vars
  BY <1>15 DEF vars
<1> QED
  BY <1>1, <1>2, <1>3, <1>4, <1>5, <1>6, <1>7, <1>8, <1>9, <1>10, <1>11, <1>12, <1>13,
     <1>14, <1>15
     DEF Next, Call, Step

LEMMA DeviceStep == DeviceTypes /\ [Next]_vars => DeviceTypes'
<1> SUFFICES ASSUME DeviceTypes, [Next]_vars PROVE DeviceTypes'
  OBVIOUS
<1> USE DEF DeviceTypes
<1>1. CASE Begin \/ Close \/ BeginMask
  BY <1>1 DEF Begin, Close, BeginMask, PowerOn, PowerOff, ClearFlags
<1>2. CASE Connect \/ AutoConnect \/ Disconnect \/ AckFinish
  BY <1>2 DEF Connect, AutoConnect, Disconnect, AckFinish, Enter
<1>3. CASE AutoWait \/ DisconnectWait \/ DisconnectClear
  BY <1>3 DEF AutoWait, DisconnectWait, DisconnectClear, ClearFlags
<1>4. ASSUME NEW ok \in BOOLEAN, ConnectCommand(ok) \/ DisconnectCommand(ok) PROVE DeviceTypes'
  BY <1>4 DEF ConnectCommand, DisconnectCommand
<1>5. ASSUME NEW ok \in BOOLEAN, AutoPolicy(ok) PROVE DeviceTypes'
  BY <1>5 DEF AutoPolicy, TakesUp
<1>6. CASE ConnectPolicy \/ SmartConfig \/ ConfigPolicy
  BY <1>6 DEF ConnectPolicy, SmartConfig, ConfigPolicy, ClearFlags
<1>7. CASE ConfigDelProfile \/ ConfigWait \/ ConfigKey
  BY <1>7 DEF ConfigDelProfile, ConfigWait, ConfigKey
<1>8. ASSUME NEW ok \in BOOLEAN, ConfigStart(ok) PROVE DeviceTypes'
  BY <1>8 DEF ConfigStart
<1>9. CASE ConfigFinish \/ ConfigStop \/ ConfigMask
  BY <1>9 DEF ConfigFinish, ConfigStop, ConfigMask, PowerOff
<1>10. CASE ConfigAuto \/ ConfigRestart
  BY <1>10 DEF ConfigAuto, TakesUp, ConfigRestart, PowerOn
<1>11. ASSUME NEW ok \in BOOLEAN, Ack(ok) PROVE DeviceTypes'
  BY <1>11 DEF Ack
<1>12. CASE Deliver
  BY <1>12 DEF Deliver, Callback
<1>13. CASE Associate \/ Lease
  BY <1>13 DEF Associate, Lease
<1>14. CASE Drop \/ Phone
  BY <1>14 DEF Drop, Phone
<1>15. CASE UNCHANGED vars
  BY <1>15 DEF vars
<1> QED
  BY <1>1, <1>2, <1>3, <1>4, <1>5, <1>6, <1>7, <1>8, <1>9, <1>10, <1>11, <1>12, <1>13,
     <1>14, <1>15
     DEF Next, Call, Step

\* The events while they are reported and delivered.
LEMMA QueueStep == QueueTypes /\ [Next]_vars => QueueTypes'
<1> SUFFICES ASSUME QueueTypes, [Next]_vars PROVE QueueTypes'
  OBVIOUS
<1> USE SpiderL3Assumption DEF QueueTypes
<1>1. ASSUME NEW e \in Kinds, Report(e) PROVE QueueTypes'
  BY <1>1 DEF Report
<1>2. CASE Associate \/ Lease \/ Drop \/ Phone
  BY <1>1, <1>2 DEF Associate, Lease, Drop, Phone, Kinds
<1>3. CASE Deliver
  BY <1>3 DEF Deliver
<1>4. CASE events' = <<>> \/ events' = <<"DISCONNECT">>
  <2>1. <<>> \in Seq(Kinds) /\ <<"DISCONNECT">> \in Seq(Kinds)
    BY DEF Kinds
  <2>2. Len(<<>>) <= MaxEvents /\ Len(<<"DISCONNECT">>) <= MaxEvents
    OBVIOUS
  <2> QED
    BY <1>4, <2>1, <2>2
<1>5. CASE events' = events
  BY <1>5
<1>6. CASE Call \/ Step
  <2>1. events' = <<>> \/ events' = <<"DISCONNECT">> \/ events' = events
    BY <1>6
       DEF Call, Begin, Close, Connect, AutoConnect, Disconnect, SmartConfig, AckFinish,
           PowerOn, PowerOff, Enter,
           Step, BeginMask, ConnectPolicy, ConnectCommand, AutoWait, AutoPolicy,
           DisconnectCommand, DisconnectWait, DisconnectClear, ConfigPolicy,
           ConfigDelProfile, ConfigWait, ConfigKey, ConfigStart, ConfigFinish,
           ConfigAuto, ConfigStop, ConfigRestart, ConfigMask, Ack
  <2> QED
    BY <2>1, <1>4, <1>5
<1>7. CASE UNCHANGED vars
  BY <1>5, <1>7 DEF vars
<1> QED
  BY <1>2, <1>3, <1>6, <1>7 DEF Next

LEMMA TypeStep == TypeOK /\ [Next]_vars => TypeOK'
  BY PlaceStep, FlagStep, DeviceStep, QueueStep DEF TypeOK

\* The variables of the sketch and of the device keep their types.
THEOREM TypeCorrect == Spec => []TypeOK
  BY TypeInit, TypeStep, PTL DEF Spec

-----------------------------------------------------------------------------
\* Power.

\* A device that is off reports nothing, and only Spider_begin and the restart of
\* Spider_SmartConfig find it off.
Powered ==
    /\ ~running => station = "down" /\ events = <<>> /\ pc \in {"idle", "sc_restart"}
    /\ HW_Initialed /\ ~running => pc = "sc_restart"
    /\ pc = "sc_restart" => ~running

LEMMA PoweredStep == Powered /\ [Next]_vars => Powered'
<1> SUFFICES ASSUME Powered, [Next]_vars PROVE Powered'
  OBVIOUS
<1> USE DEF Powered
<1>1. CASE Begin \/ Close \/ BeginMask
  BY <1>1 DEF Begin, Close, BeginMask, PowerOn, PowerOff
<1>2. CASE Connect \/ AutoConnect \/ Disconnect \/ AckFinish
  BY <1>2 DEF Connect, AutoConnect, Disconnect, AckFinish, Enter
<1>3. CASE AutoWait \/ DisconnectWait \/ DisconnectClear
  BY <1>3 DEF AutoWait, DisconnectWait, DisconnectClear
<1>4. ASSUME NEW ok \in BOOLEAN, ConnectCommand(ok) \/ DisconnectCommand(ok) PROVE Powered'
  BY <1>4 DEF ConnectCommand, DisconnectCommand
<1>5. ASSUME NEW ok \in BOOLEAN, AutoPolicy(ok) PROVE Powered'
  BY <1>5 DEF AutoPolicy, TakesUp
<1>6. CASE ConnectPolicy \/ SmartConfig \/ ConfigPolicy
  BY <1>6 DEF ConnectPolicy, SmartConfig, ConfigPolicy
<1>7. CASE ConfigDelProfile \/ ConfigWait \/ ConfigKey
  BY <1>7 DEF ConfigDelProfile, ConfigWait, ConfigKey
<1>8. ASSUME NEW ok \in BOOLEAN, ConfigStart(ok) PROVE Powered'
  BY <1>8 DEF ConfigStart
<1>9. CASE ConfigFinish \/ ConfigStop \/ ConfigMask
  BY <1>9 DEF ConfigFinish, ConfigStop, ConfigMask, PowerOff
<1>10. CASE ConfigAuto \/ ConfigRestart
  BY <1>10 DEF ConfigAuto, TakesUp, ConfigRestart, PowerOn
<1>11. ASSUME NEW ok \in BOOLEAN, Ack(ok) PROVE Powered'
  BY <1>11 DEF Ack
<1>12. CASE Deliver
  BY <1>12 DEF Deliver
<1>13. CASE Associate \/ Lease
  BY <1>13 DEF Associate, Lease, Report
<1>14. CASE Drop \/ Phone
  BY <1>14 DEF Drop, Phone, Report
<1>15. CASE UNCHANGED vars
  BY <1>15 DEF vars
<1> QED
  BY <1>1, <1>2, <1>3, <1>4, <1>5, <1>6, <1>7, <1>8, <1>9, <1>10, <1>11, <1>12, <1>13,
     <1>14, <1>15
     DEF Next, Call, Step

\* No function waits for an answer of a device that is not powered.
THEOREM Reached == Spec => []CommandsReachDevice
<1>1. Spec => []Powered
  <2>1. Init => Powered
    BY DEF Init, Powered
  <2> QED
    BY <2>1, PoweredStep, PTL DEF Spec
<1>2. Powered => CommandsReachDevice
  BY DEF Powered, CommandsReachDevice
<1> QED
  BY <1>1, <1>2, PTL

-----------------------------------------------------------------------------
\* The phone.

\* SIMPLE_CONFIG_DONE is on its way or in SmartConfigFinished only once in a call, and
\* in no later one.
Heard ==
    /\ config => pc = "sc_finish" /\ ~SmartConfigFinished
    /\ \A i \in DOMAIN events : events[i] = "SIMPLE_CONFIG_DONE" =>
         /\ pc = "sc_finish" /\ configured /\ ~config /\ ~SmartConfigFinished
         /\ \A j \in DOMAIN events : events[j] = "SIMPLE_CONFIG_DONE" => i = j
    /\ pc \in {"sc_policy", "sc_del", "sc_wait", "sc_key", "sc_start"} => ~SmartConfigFinished
    /\ pc = "sc_finish" /\ SmartConfigFinished => configured

LEMMA HeardStep == QueueTypes /\ FlagTypes /\ Powered /\ Heard /\ [Next]_vars => Heard'
<1> SUFFICES ASSUME QueueTypes, FlagTypes, Powered, Heard, [Next]_vars PROVE Heard'
  OBVIOUS
<1> USE DEF Powered, Heard
<1>1. CASE Begin \/ Close \/ BeginMask
  BY <1>1 DEF Begin, Close, BeginMask, PowerOn, PowerOff, ClearFlags
<1>2. CASE Connect \/ AutoConnect \/ Disconnect \/ AckFinish
  BY <1>2 DEF Connect, AutoConnect, Disconnect, AckFinish, Enter
<1>3. CASE AutoWait \/ DisconnectWait \/ DisconnectClear
  BY <1>3 DEF AutoWait, DisconnectWait, DisconnectClear, ClearFlags
<1>4. ASSUME NEW ok \in BOOLEAN, ConnectCommand(ok) \/ DisconnectCommand(ok) PROVE Heard'
  BY <1>4 DEF ConnectCommand, DisconnectCommand
<1>5. ASSUME NEW ok \in BOOLEAN, AutoPolicy(ok) PROVE Heard'
  BY <1>5 DEF AutoPolicy, TakesUp
<1>6. CASE ConnectPolicy \/ SmartConfig \/ ConfigPolicy
  BY <1>6 DEF ConnectPolicy, SmartConfig, ConfigPolicy, ClearFlags
<1>7. CASE ConfigDelProfile \/ ConfigWait \/ ConfigKey
  BY <1>7 DEF ConfigDelProfile, ConfigWait, ConfigKey
<1>8. ASSUME NEW ok \in BOOLEAN, ConfigStart(ok) PROVE Heard'
  BY <1>8 DEF ConfigStart
<1>9. CASE ConfigFinish \/ ConfigStop \/ ConfigMask
  BY <1>9 DEF ConfigFinish, ConfigStop, ConfigMask, PowerOff
<1>10. CASE ConfigAuto \/ ConfigRestart
  BY <1>10 DEF ConfigAuto, TakesUp, ConfigRestart, PowerOn
<1>11. ASSUME NEW ok \in BOOLEAN, Ack(ok) PROVE Heard'
  BY <1>11 DEF Ack
<1>12. CASE Deliver
  <2>1. /\ events \in Seq(Kinds) /\ Len(events) > 0 /\ events' = Tail(events)
        /\ Len(events') = Len(events) - 1
        /\ \A i \in DOMAIN events' : events'[i] = events[i + 1] /\ i + 1 \in DOMAIN events
        /\ Head(events) = events[1] /\ 1 \in DOMAIN events
        /\ DOMAIN events = 1..Len(events) /\ DOMAIN events' = 1..Len(events')
    BY <1>12 DEF QueueTypes, Deliver
  <2>2. /\ SmartConfigFinished' <=> (events[1] = "SIMPLE_CONFIG_DONE" \/ SmartConfigFinished)
        /\ pc' = pc /\ config' = config /\ configured' = configured
    BY <1>12, <2>1 DEF Deliver, Callback
  <2>3. ASSUME NEW i \in DOMAIN events', events'[i] = "SIMPLE_CONFIG_DONE"
        PROVE  /\ pc' = "sc_finish" /\ configured' /\ ~config' /\ ~SmartConfigFinished'
               /\ \A j \in DOMAIN events' : events'[j] = "SIMPLE_CONFIG_DONE" => i = j
    <3>1. events[i + 1] = "SIMPLE_CONFIG_DONE" /\ i + 1 \in DOMAIN events /\ i \in Nat \ {0}
      BY <2>1, <2>3
    <3>2. /\ pc = "sc_finish" /\ configured /\ ~config /\ ~SmartConfigFinished
          /\ \A j \in DOMAIN events : events[j] = "SIMPLE_CONFIG_DONE" => i + 1 = j
      BY <3>1 DEF Heard
    <3>3. events[1] # "SIMPLE_CONFIG_DONE"
      BY <2>1, <3>1, <3>2
    <3>4. \A j \in DOMAIN events' : events'[j] = "SIMPLE_CONFIG_DONE" => i = j
      BY <2>1, <3>1, <3>2
    <3> QED
      BY <2>2, <3>2, <3>3, <3>4
  <2>4. events[1] = "SIMPLE_CONFIG_DONE" => pc = "sc_finish" /\ configured /\ ~config
    BY <2>1 DEF Heard
  <2> QED
    BY <2>2, <2>3, <2>4 DEF Heard
<1>13. CASE Associate \/ Lease
  BY <1>13 DEF Associate, Lease, Report
<1>14. CASE Drop \/ Phone
  BY <1>14 DEF Drop, Phone, Report
<1>15. CASE UNCHANGED vars
  BY <1>15 DEF vars
<1> QED
  BY <1>1, <1>2, <1>3, <1>4, <1>5, <1>6, <1>7, <1>8, <1>9, <1>10, <1>11, <1>12, <1>13,
     <1>14, <1>15
     DEF Next, Call, Step

LEMMA HeardCorrect == Spec => [](TypeOK /\ Powered /\ Heard)
<1>1. Init => TypeOK /\ Powered /\ Heard
  <2>1. Init => Powered /\ Heard
    BY DEF Init, Powered, Heard
  <2> QED
    BY <2>1, TypeInit
<1>2. TypeOK /\ Powered /\ Heard /\ [Next]_vars => (TypeOK /\ Powered /\ Heard)'
  BY TypeStep, PoweredStep, HeardStep DEF TypeOK
<1> QED
  BY <1>1, <1>2, PTL DEF Spec

\* Spider_SmartConfig goes on only when the phone was heard during the same call,
\* however the events and the calls before it fall.
THEOREM Fresh == Spec => FinishedFresh
<1>1. Heard => [ConfigFinish => configured]_vars
  BY DEF Heard, ConfigFinish
<1> QED
  BY <1>1, HeardCorrect, PTL DEF FinishedFresh

-----------------------------------------------------------------------------
\* What the flags say once the first n events have been delivered.

\* A flag that event sets and DISCONNECT clears.
Ends(flag, event, s, n) ==
    \/ flag /\ \A k \in 1..n : s[k] # "DISCONNECT"
    \/ \E i \in 1..n : s[i] = event /\ \A k \in (i + 1)..n : s[k] # "DISCONNECT"

LEMMA EndsNow ==
    ASSUME NEW f \in BOOLEAN, NEW e, NEW s
    PROVE  Ends(f, e, s, 0) <=> f
  BY DEF Ends

\* An event that comes later changes nothing of what comes before it.
LEMMA EndsBefore ==
    ASSUME NEW f \in BOOLEAN, NEW e, NEW s \in Seq(Kinds), NEW x \in Kinds,
           NEW n \in 0..Len(s)
    PROVE  Ends(f, e, Append(s, x), n) <=> Ends(f, e, s, n)
<1>1. \A k \in 1..n : Append(s, x)[k] = s[k]
  OBVIOUS
<1>2. \A i \in 1..n : \A k \in (i + 1)..n : k \in 1..n
  OBVIOUS
<1> QED
  BY <1>1, <1>2 DEF Ends

\* The last event decides, if it is about the flag.
LEMMA EndsAppend ==
    ASSUME NEW f \in BOOLEAN, NEW e \in Kinds \ {"DISCONNECT"}, NEW s \in Seq(Kinds),
           NEW x \in Kinds
    PROVE  Ends(f, e, Append(s, x), Len(s) + 1) <=>
               x = e \/ (x # "DISCONNECT" /\ Ends(f, e, s, Len(s)))
<1> DEFINE n == Len(s)
           t == Append(s, x)
<1>1. n \in Nat /\ t[n + 1] = x /\ \A k \in 1..n : t[k] = s[k]
  OBVIOUS
<1>2. 1..(n + 1) = (1..n) \cup {n + 1} /\ n + 1 \notin 1..n
  BY <1>1
<1>3. \A i \in 1..n : (i + 1)..(n + 1) = ((i + 1)..n) \cup {n + 1} /\ (i + 1)..n \subseteq 1..n
  BY <1>1
<1>4. (n + 1 + 1)..(n + 1) = {}
  BY <1>1
<1> HIDE DEF n, t
<1>5. Ends(f, e, t, n + 1) <=> x = e \/ (x # "DISCONNECT" /\ Ends(f, e, s, n))
  BY <1>1, <1>2, <1>3, <1>4 DEF Ends
<1> QED
  BY <1>5 DEF n, t

\* To deliver the first event changes the flag and not how it ends.
LEMMA EndsTail ==
    ASSUME NEW f \in BOOLEAN, NEW e \in Kinds \ {"DISCONNECT"},
           NEW s \in Seq(Kinds), NEW n \in Nat, n < Len(s)
    PROVE  Ends(Head(s) = e \/ (f /\ Head(s) # "DISCONNECT"), e, Tail(s), n) <=>
               Ends(f, e, s, n + 1)
<1> DEFINE t == Tail(s)
           g == s[1] = e \/ (f /\ s[1] # "DISCONNECT")
<1>1. Head(s) = s[1] /\ \A k \in 1..n : t[k] = s[k + 1]
  OBVIOUS
<1>2. \A k \in 1..n : k + 1 \in 2..(n + 1)
  OBVIOUS
<1>3. \A k \in 2..(n + 1) : k - 1 \in 1..n /\ t[k - 1] = s[k]
  BY <1>1
<1> HIDE DEF t
<1>4. \A k \in 1..(n + 1) : k = 1 \/ k \in 2..(n + 1)
  OBVIOUS
<1>5. ASSUME Ends(g, e, t, n) PROVE Ends(f, e, s, n + 1)
  <2>1. CASE g /\ \A k \in 1..n : t[k] # "DISCONNECT"
    <3>1. \A k \in 2..(n + 1) : s[k] # "DISCONNECT"
      BY <2>1, <1>3
    <3>2. CASE s[1] = e
      BY <3>1, <3>2 DEF Ends
    <3>3. CASE f /\ s[1] # "DISCONNECT"
      BY <3>1, <3>3, <1>4 DEF Ends
    <3> QED
      BY <2>1, <3>2, <3>3
  <2>2. ASSUME NEW i \in 1..n, t[i] = e, \A k \in (i + 1)..n : t[k] # "DISCONNECT"
        PROVE  Ends(f, e, s, n + 1)
    <3>1. i + 1 \in 1..(n + 1) /\ s[i + 1] = e
      BY <2>2, <1>1
    <3>2. ASSUME NEW k \in (i + 1 + 1)..(n + 1) PROVE s[k] # "DISCONNECT"
      <4>1. k \in 2..(n + 1) /\ k - 1 \in (i + 1)..n
        OBVIOUS
      <4> QED
        BY <4>1, <1>3, <2>2
    <3> QED
      BY <3>1, <3>2 DEF Ends
  <2> QED
    BY <1>5, <2>1, <2>2 DEF Ends
<1>6. ASSUME Ends(f, e, s, n + 1) PROVE Ends(g, e, t, n)
  <2>1. CASE f /\ \A k \in 1..(n + 1) : s[k] # "DISCONNECT"
    <3>1. \A k \in 1..n : t[k] # "DISCONNECT" /\ k + 1 \in 1..(n + 1)
      BY <2>1, <1>1
    <3> QED
      BY <2>1, <3>1 DEF Ends
  <2>2. ASSUME NEW i \in 1..(n + 1), s[i] = e,
               \A k \in (i + 1)..(n + 1) : s[k] # "DISCONNECT"
        PROVE  Ends(g, e, t, n)
    <3>1. ASSUME NEW k \in i..n, k \in 1..n PROVE t[k] # "DISCONNECT"
      <4>1. k + 1 \in (i + 1)..(n + 1)
        OBVIOUS
      <4> QED
        BY <4>1, <1>1, <2>2, <3>1
    <3>2. CASE i = 1
      BY <2>2, <3>1, <3>2 DEF Ends
    <3>3. CASE i # 1
      <4>1. i - 1 \in 1..n /\ t[i - 1] = e /\ (i - 1) + 1 = i
        BY <2>2, <3>3, <1>3
      <4>2. \A k \in i..n : k \in 1..n
        OBVIOUS
      <4> QED
        BY <4>1, <4>2, <3>1 DEF Ends
    <3> QED
      BY <3>2, <3>3
  <2> QED
    BY <1>6, <2>1, <2>2 DEF Ends
<1> QED
  BY <1>1, <1>5, <1>6 DEF t

\* A flag that is cleared ends set only if it would have anyway.
LEMMA EndsCleared ==
    ASSUME NEW f \in BOOLEAN, NEW e, NEW s, NEW n, Ends(FALSE, e, s, n)
    PROVE  Ends(f, e, s, n)
  BY DEF Ends

-----------------------------------------------------------------------------
\* What the flags say and what the device knows.

\* Once every event is delivered the flags say what the device is connected to.
Exact ==
    /\ station # "down" <=> Ends(SpiderConnected, "CONNECT", events, Len(events))
    /\ station = "addressed" <=> Ends(SpiderDHCP, "DHCP", events, Len(events))

\* Flags that were cleared too early belong to a connection that is about to end.
Known ==
    /\ station = "down" => Exact
    /\ Exact \/ leaving \/ pc \in {"sc_policy", "sc_del"}

\* A device that was told to leave does not connect again before the flags are cleared, or
\* Spider_SmartConfig has turned the device off.
Left ==
    /\ pc \in {"di_wait", "di_clr"} => ~joining /\ (leaving \/ station = "down")
    /\ pc \in {"sc_del", "sc_wait", "sc_key", "sc_start"} => ~auto
    /\ pc \in {"sc_wait", "sc_key", "sc_start", "sc_finish", "sc_auto", "sc_stop"} => ~joining
    /\ pc \in {"sc_finish", "sc_auto", "sc_stop"} => station = "down"
    /\ pc = "sc_stop" => events = <<>>

\* A connection begins without the address of the one before it.
Clean ==
    \A i \in 1..Len(events) :
        events[i] = "CONNECT" => ~Ends(SpiderDHCP, "DHCP", events, i - 1)

LEMMA ExactReports ==
    TypeOK /\ Exact /\ (Associate \/ Lease \/ Phone) => Exact'
<1> SUFFICES ASSUME TypeOK, Exact, Associate \/ Lease \/ Phone PROVE Exact'
  OBVIOUS
<1>1. /\ SpiderConnected \in BOOLEAN /\ SpiderDHCP \in BOOLEAN
      /\ events \in Seq(Kinds) /\ station \in {"down", "associated", "addressed"}
  BY DEF TypeOK, FlagTypes, DeviceTypes, QueueTypes
<1>2. SpiderConnected' = SpiderConnected /\ SpiderDHCP' = SpiderDHCP
  BY DEF Associate, Lease, Phone
<1>3. ASSUME NEW x \in Kinds, events' = Append(events, x), x # "DISCONNECT"
      PROVE  /\ Ends(SpiderConnected', "CONNECT", events', Len(events')) <=>
                    x = "CONNECT" \/ Ends(SpiderConnected, "CONNECT", events, Len(events))
             /\ Ends(SpiderDHCP', "DHCP", events', Len(events')) <=>
                    x = "DHCP" \/ Ends(SpiderDHCP, "DHCP", events, Len(events))
  <2>1. Len(events') = Len(events) + 1
    BY <1>1, <1>3
  <2>2. "CONNECT" \in Kinds \ {"DISCONNECT"} /\ "DHCP" \in Kinds \ {"DISCONNECT"}
    BY DEF Kinds
  <2> QED
    BY <1>1, <1>2, <1>3, <2>1, <2>2, EndsAppend
<1>4. CASE Associate
  <2>1. events' = Append(events, "CONNECT") /\ station = "down" /\ station' = "associated"
    BY <1>4 DEF Associate, Report
  <2> QED
    BY <2>1, <1>3 DEF Exact, Kinds
<1>5. CASE Lease
  <2>1. events' = Append(events, "DHCP") /\ station = "associated" /\ station' = "addressed"
    BY <1>5 DEF Lease, Report
  <2> QED
    BY <2>1, <1>3 DEF Exact, Kinds
<1>6. CASE Phone
  <2>1. events' = Append(events, "SIMPLE_CONFIG_DONE") /\ station' = station
    BY <1>6 DEF Phone, Report
  <2> QED
    BY <2>1, <1>3 DEF Exact, Kinds
<1> QED
  BY <1>4, <1>5, <1>6

\* The loss of a connection is told whatever the flags say.
LEMMA ExactDrop == TypeOK /\ Drop => Exact'
<1> SUFFICES ASSUME TypeOK, Drop PROVE Exact'
  OBVIOUS
<1>1. /\ SpiderConnected \in BOOLEAN /\ SpiderDHCP \in BOOLEAN /\ events \in Seq(Kinds)
      /\ SpiderConnected' = SpiderConnected /\ SpiderDHCP' = SpiderDHCP
      /\ station' = "down" /\ events' = Append(events, "DISCONNECT")
      /\ {"CONNECT", "DHCP", "DISCONNECT"} \subseteq Kinds
  BY DEF TypeOK, FlagTypes, QueueTypes, Drop, Report, Kinds
<1>2. Len(events') = Len(events) + 1
  BY <1>1
<1>3. /\ ~Ends(SpiderConnected', "CONNECT", events', Len(events'))
      /\ ~Ends(SpiderDHCP', "DHCP", events', Len(events'))
  BY <1>1, <1>2, EndsAppend
<1> QED
  BY <1>1, <1>3 DEF Exact

LEMMA ExactDeliver == TypeOK /\ Exact /\ Deliver => Exact'
<1> SUFFICES ASSUME TypeOK, Exact, Deliver PROVE Exact'
  OBVIOUS
<1>1. /\ SpiderConnected \in BOOLEAN /\ SpiderDHCP \in BOOLEAN
      /\ events \in Seq(Kinds) /\ events # <<>> /\ events' = Tail(events)
      /\ station' = station
  BY DEF TypeOK, FlagTypes, QueueTypes, Deliver
<1>2. /\ SpiderConnected' = (Head(events) = "CONNECT"
                                \/ (SpiderConnected /\ Head(events) # "DISCONNECT"))
      /\ SpiderDHCP' = (Head(events) = "DHCP"
                                \/ (SpiderDHCP /\ Head(events) # "DISCONNECT"))
  BY DEF Deliver, Callback
<1>3. /\ Len(events') \in Nat /\ Len(events') < Len(events)
      /\ Len(events') + 1 = Len(events)
  BY <1>1
<1>4. "CONNECT" \in Kinds \ {"DISCONNECT"} /\ "DHCP" \in Kinds \ {"DISCONNECT"}
  BY DEF Kinds
<1>5. /\ Ends(SpiderConnected', "CONNECT", events', Len(events')) <=>
             Ends(SpiderConnected, "CONNECT", events, Len(events))
      /\ Ends(SpiderDHCP', "DHCP", events', Len(events')) <=>
             Ends(SpiderDHCP, "DHCP", events, Len(events))
  BY <1>1, <1>2, <1>3, <1>4, EndsTail
<1> QED
  BY <1>1, <1>5 DEF Exact

LEMMA ExactSame ==
    Exact /\ UNCHANGED <<SpiderConnected, SpiderDHCP, station, events>> => Exact'
  BY DEF Exact

\* Flags cleared while nothing is connected, or when no event is on its way.
LEMMA ExactCleared ==
    TypeOK /\ station = "down" /\ Exact /\ ClearFlags /\ UNCHANGED <<station, events>> => Exact'
  BY EndsCleared DEF TypeOK, FlagTypes, Exact, ClearFlags

LEMMA ExactNothing ==
    ASSUME station' = "down", events' = <<>> \/ events' = <<"DISCONNECT">>,
           events' = <<>> => ~SpiderConnected' /\ ~SpiderDHCP'
    PROVE  Exact'
<1>1. CASE events' = <<>>
  BY <1>1 DEF Exact, Ends
<1>2. CASE events' = <<"DISCONNECT">>
  BY <1>2 DEF Exact, Ends
<1> QED
  BY <1>1, <1>2

LEMMA ExactStopped ==
    ASSUME Exact, station = "down", events = <<>>
    PROVE  ~SpiderConnected /\ ~SpiderDHCP
  BY DEF Exact, Ends

-----------------------------------------------------------------------------
\* From here on the device connects only when it is asked to.

LEMMA LeftStep ==
    ASSUME ~ConnectsUnasked, Heard, Left, [Next]_vars
    PROVE  Left'
<1> USE DEF Left
<1>1. CASE Begin \/ Close \/ BeginMask
  BY <1>1 DEF Begin, Close, BeginMask, PowerOn, PowerOff
<1>2. CASE Connect \/ AutoConnect \/ Disconnect \/ AckFinish
  BY <1>2 DEF Connect, AutoConnect, Disconnect, AckFinish, Enter
<1>3. CASE AutoWait \/ DisconnectWait \/ DisconnectClear
  BY <1>3 DEF AutoWait, DisconnectWait, DisconnectClear
<1>4. ASSUME NEW ok \in BOOLEAN, ConnectCommand(ok) \/ DisconnectCommand(ok) PROVE Left'
  BY <1>4 DEF ConnectCommand, DisconnectCommand
<1>5. ASSUME NEW ok \in BOOLEAN, AutoPolicy(ok) PROVE Left'
  BY ~ConnectsUnasked, <1>5 DEF AutoPolicy, TakesUp
<1>6. CASE ConnectPolicy \/ SmartConfig \/ ConfigPolicy
  BY <1>6 DEF ConnectPolicy, SmartConfig, ConfigPolicy
<1>7. CASE ConfigDelProfile \/ ConfigWait \/ ConfigKey
  BY <1>7 DEF ConfigDelProfile, ConfigWait, ConfigKey
<1>8. ASSUME NEW ok \in BOOLEAN, ConfigStart(ok) PROVE Left'
  BY <1>8 DEF ConfigStart
<1>9. CASE ConfigFinish \/ ConfigStop \/ ConfigMask
  BY <1>9 DEF ConfigFinish, ConfigStop, ConfigMask, PowerOff
<1>10. CASE ConfigAuto \/ ConfigRestart
  BY <1>10 DEF ConfigAuto, TakesUp, ConfigRestart, PowerOn
<1>11. ASSUME NEW ok \in BOOLEAN, Ack(ok) PROVE Left'
  BY <1>11 DEF Ack
<1>12. CASE Deliver
  BY <1>12 DEF Deliver
<1>13. CASE Associate \/ Lease
  BY <1>13 DEF Associate, Lease, Report
<1>14. CASE Drop \/ Phone
  <2>1. CASE Drop
    BY <2>1 DEF Drop
  <2>2. CASE Phone
    <3>1. pc = "sc_finish"
      BY <2>2 DEF Heard, Phone
    <3> QED
      BY <2>2, <3>1 DEF Phone
  <2> QED
    BY <1>14, <2>1, <2>2
<1>15. CASE UNCHANGED vars
  BY <1>15 DEF vars
<1> QED
  BY <1>1, <1>2, <1>3, <1>4, <1>5, <1>6, <1>7, <1>8, <1>9, <1>10, <1>11, <1>12, <1>13,
     <1>14, <1>15
     DEF Next, Call, Step

LEMMA KnownStep ==
    ASSUME ~ConnectsUnasked, TypeOK, Powered, Heard, Left, Known, [Next]_vars
    PROVE  Known'
<1> DEFINE Same == UNCHANGED <<SpiderConnected, SpiderDHCP, station, events>>
<1>1. CASE Begin
  <2>1. station' = "down" /\ events' = <<>> /\ ~SpiderConnected' /\ ~SpiderDHCP'
    BY <1>1 DEF Begin, Powered, PowerOn, ClearFlags
  <2>2. Exact'
    BY <2>1, ExactNothing
  <2> QED
    BY <2>2 DEF Known
<1>2. CASE Close
  <2>1. station' = "down" /\ events' = <<>> /\ ~SpiderConnected' /\ ~SpiderDHCP'
    BY <1>2 DEF Close, PowerOff, ClearFlags
  <2>2. Exact'
    BY <2>1, ExactNothing
  <2> QED
    BY <2>2 DEF Known
<1>3. ASSUME Same, leaving => leaving', pc \notin {"sc_policy", "sc_del"} PROVE Known'
  BY <1>3, ExactSame DEF Known
<1>4. CASE Connect \/ AutoConnect \/ Disconnect \/ AckFinish
  BY <1>3, <1>4 DEF Connect, AutoConnect, Disconnect, AckFinish, Enter
<1>5. CASE SmartConfig
  <2>1. pc' = "sc_policy" /\ ClearFlags /\ UNCHANGED <<station, events>>
    BY <1>5 DEF SmartConfig
  <2>2. station' = "down" => Exact'
    BY <2>1, ExactCleared DEF Known
  <2> QED
    BY <2>1, <2>2 DEF Known
<1>6. CASE BeginMask \/ ConnectPolicy \/ AutoWait \/ DisconnectWait
  BY <1>3, <1>6 DEF BeginMask, ConnectPolicy, AutoWait, DisconnectWait
<1>7. ASSUME NEW ok \in BOOLEAN,
             ConnectCommand(ok) \/ AutoPolicy(ok) \/ DisconnectCommand(ok) \/ Ack(ok)
      PROVE  Known'
  <2>1. CASE ConnectCommand(ok) \/ AutoPolicy(ok)
    BY <1>3, <2>1 DEF ConnectCommand, AutoPolicy
  <2>2. CASE DisconnectCommand(ok)
    BY <1>3, <2>2 DEF DisconnectCommand
  <2>3. CASE Ack(ok)
    <3>1. Same /\ leaving' = leaving
      BY <2>3 DEF Ack
    <3>2. pc \in {"ack1", "ack2", "ack3"}
      BY <2>3 DEF Ack
    <3> QED
      BY <1>3, <3>1, <3>2
  <2> QED
    BY <1>7, <2>1, <2>2, <2>3
<1>8. CASE DisconnectClear
  <2>1. /\ leaving' = leaving /\ (leaving \/ station = "down")
        /\ ClearFlags /\ UNCHANGED <<station, events>>
    BY <1>8 DEF DisconnectClear, Left
  <2>2. station = "down" => Exact'
    BY <2>1, ExactCleared DEF Known
  <2> QED
    BY <2>1, <2>2 DEF Known
<1>9. CASE ConfigPolicy
  <2>1. pc' = "sc_del" /\ Same
    BY <1>9 DEF ConfigPolicy
  <2> QED
    BY <2>1, ExactSame DEF Known
<1>10. CASE ConfigDelProfile
  <2>1. leaving' = (station # "down") /\ Same
    BY <1>10 DEF ConfigDelProfile
  <2> QED
    BY <2>1, ExactSame DEF Known
<1>11. CASE ConfigWait \/ ConfigKey
  BY <1>3, <1>11 DEF ConfigWait, ConfigKey
<1>12. ASSUME NEW ok \in BOOLEAN, ConfigStart(ok) PROVE Known'
  <2>1. CASE ok
    <3>1. /\ events = <<>> /\ station' = "down"
          /\ UNCHANGED <<SpiderConnected, SpiderDHCP>>
          /\ events' = IF station = "down" THEN <<>> ELSE <<"DISCONNECT">>
      BY <1>12, <2>1 DEF ConfigStart
    <3>2. station = "down" => ~SpiderConnected /\ ~SpiderDHCP
      BY <3>1, ExactStopped DEF Known
    <3>3. Exact'
      BY <3>1, <3>2, ExactNothing
    <3> QED
      BY <3>3 DEF Known
  <2>2. CASE ~ok
    BY <1>3, <1>12, <2>2 DEF ConfigStart
  <2> QED
    BY <2>1, <2>2
<1>13. CASE ConfigFinish \/ ConfigAuto \/ ConfigRestart \/ ConfigMask
  BY <1>3, <1>13 DEF ConfigFinish, ConfigAuto, ConfigRestart, ConfigMask, PowerOn
<1>14. CASE ConfigStop
  <2>1. station = "down" /\ events = <<>> /\ Exact
    BY <1>14 DEF ConfigStop, Left, Known
  <2>2. Same
    BY <1>14, <2>1 DEF ConfigStop, PowerOff
  <2> QED
    BY <2>1, <2>2, ExactSame DEF Known
<1>15. ASSUME Exact => Exact', station = "down" => Exact, station' = "down" => station = "down",
              leaving' = leaving, pc' = pc
       PROVE  Known'
  BY <1>15 DEF Known
<1>16. CASE Deliver \/ Lease \/ Phone
  BY <1>15, <1>16, ExactDeliver, ExactReports DEF Deliver, Lease, Phone, Known
<1>17. CASE Associate
  BY <1>17, ExactReports DEF Associate, Known
<1>18. CASE Drop
  BY <1>18, ExactDrop DEF Known
<1>19. CASE UNCHANGED vars
  BY <1>19, ExactSame DEF vars, Known
<1> QED
  BY <1>1, <1>2, <1>4, <1>5, <1>6, <1>7, <1>8, <1>9, <1>10, <1>11, <1>12, <1>13, <1>14,
     <1>16, <1>17, <1>18, <1>19
     DEF Next, Call, Step

LEMMA CleanStep ==
    ASSUME TypeOK, Known, Clean, [Next]_vars
    PROVE  Clean'
<1>1. /\ SpiderDHCP \in BOOLEAN /\ SpiderDHCP' \in BOOLEAN /\ events \in Seq(Kinds)
      /\ "DHCP" \in Kinds \ {"DISCONNECT"}
  BY FlagStep DEF TypeOK, FlagTypes, QueueTypes, Kinds
<1>2. ASSUME UNCHANGED <<SpiderDHCP, events>> PROVE Clean'
  BY <1>2 DEF Clean
<1>3. ASSUME ~SpiderDHCP', events' = events PROVE Clean'
  BY <1>1, <1>3, EndsCleared DEF Clean
<1>4. ASSUME events' = <<>> \/ events' = <<"DISCONNECT">> PROVE Clean'
  BY <1>4 DEF Clean
<1>5. ASSUME NEW x \in Kinds, events' = Append(events, x), SpiderDHCP' = SpiderDHCP,
             x = "CONNECT" => ~Ends(SpiderDHCP, "DHCP", events, Len(events))
      PROVE  Clean'
  <2> SUFFICES ASSUME NEW i \in 1..Len(events'), events'[i] = "CONNECT"
               PROVE  ~Ends(SpiderDHCP, "DHCP", events', i - 1)
    BY <1>5 DEF Clean
  <2>1. i - 1 \in 0..Len(events) /\ (i <= Len(events) => events'[i] = events[i])
        /\ (i > Len(events) => i = Len(events) + 1 /\ events'[i] = x)
    BY <1>1, <1>5
  <2>2. Ends(SpiderDHCP, "DHCP", events', i - 1) <=> Ends(SpiderDHCP, "DHCP", events, i - 1)
    BY <1>1, <1>5, <2>1, EndsBefore
  <2>3. CASE i <= Len(events)
    <3>1. i \in 1..Len(events) /\ events[i] = "CONNECT"
      BY <2>1, <2>3
    <3> QED
      BY <2>2, <3>1 DEF Clean
  <2>4. CASE i > Len(events)
    <3>1. x = "CONNECT" /\ i - 1 = Len(events)
      BY <1>1, <2>1, <2>4
    <3> QED
      BY <2>2, <3>1, <1>5
  <2> QED
    BY <1>1, <2>3, <2>4
<1>6. CASE Deliver
  <2>1. /\ events # <<>> /\ events' = Tail(events)
        /\ SpiderDHCP' = (Head(events) = "DHCP"
                              \/ (SpiderDHCP /\ Head(events) # "DISCONNECT"))
    BY <1>6 DEF Deliver, Callback
  <2> SUFFICES ASSUME NEW i \in 1..Len(events'), events'[i] = "CONNECT"
               PROVE  ~Ends(SpiderDHCP', "DHCP", events', i - 1)
    BY DEF Clean
  <2>2. /\ i + 1 \in 1..Len(events) /\ events[i + 1] = "CONNECT"
        /\ i - 1 \in Nat /\ i - 1 < Len(events) /\ (i - 1) + 1 = (i + 1) - 1
    BY <1>1, <2>1
  <2>3. Ends(SpiderDHCP', "DHCP", events', i - 1)
            <=> Ends(SpiderDHCP, "DHCP", events, (i - 1) + 1)
    BY <1>1, <2>1, <2>2, EndsTail
  <2>4. ~Ends(SpiderDHCP, "DHCP", events, (i + 1) - 1)
    BY <2>2 DEF Clean
  <2> QED
    BY <2>2, <2>3, <2>4
<1>7. CASE Associate
  <2>1. events' = Append(events, "CONNECT") /\ station = "down" /\ SpiderDHCP' = SpiderDHCP
    BY <1>7 DEF Associate, Report
  <2>2. ~Ends(SpiderDHCP, "DHCP", events, Len(events))
    BY <2>1 DEF Known, Exact
  <2> QED
    BY <1>5, <2>1, <2>2 DEF Kinds
<1>8. CASE Lease \/ Drop \/ Phone
  BY <1>5, <1>8 DEF Lease, Drop, Phone, Report, Kinds
<1>9. CASE Call
  BY <1>2, <1>3, <1>4, <1>9
     DEF Call, Begin, Close, Connect, AutoConnect, Disconnect, SmartConfig, AckFinish, Enter,
         PowerOn, PowerOff, ClearFlags
<1>10. CASE Step
  BY <1>2, <1>3, <1>4, <1>10
     DEF Step, BeginMask, ConnectPolicy, ConnectCommand, AutoWait, AutoPolicy,
         DisconnectCommand, DisconnectWait, DisconnectClear, ConfigPolicy,
         ConfigDelProfile, ConfigWait, ConfigKey, ConfigStart, ConfigFinish, ConfigAuto,
         ConfigStop, ConfigRestart, ConfigMask, Ack, PowerOn, PowerOff, ClearFlags
<1>11. CASE UNCHANGED vars
  BY <1>2, <1>11 DEF vars
<1> QED
  BY <1>6, <1>7, <1>8, <1>9, <1>10, <1>11 DEF Next

LEMMA ConnectionCorrect ==
    ASSUME ~ConnectsUnasked
    PROVE  Spec => [](TypeOK /\ Known /\ Clean)
<1> DEFINE Inv == TypeOK /\ Powered /\ Heard /\ Left /\ Known /\ Clean
<1>1. Init => Inv
  <2> SUFFICES ASSUME Init PROVE Inv
    OBVIOUS
  <2>1. Powered /\ Heard /\ Left
    BY DEF Init, Powered, Heard, Left
  <2>2. Exact
    BY DEF Init, Exact, Ends
  <2>3. Known /\ Clean
    BY <2>2 DEF Init, Known, Clean
  <2> QED
    BY <2>1, <2>3, TypeInit
<1>2. Inv /\ [Next]_vars => Inv'
  BY TypeStep, PoweredStep, HeardStep, LeftStep, KnownStep, CleanStep DEF TypeOK
<1>3. Spec => []Inv
  BY <1>1, <1>2, PTL DEF Spec
<1>4. Inv => TypeOK /\ Known /\ Clean
  OBVIOUS
<1> QED
  BY <1>3, <1>4, PTL

\* Between calls the flags that Spider_CheckConnected and Spider_CheckDHCP return tell
\* the truth as soon as every event is delivered: if the device connects only when it is
\* asked to, the clearing of the flags beside the interrupt loses nothing.
THEOREM Truthful == ASSUME ~ConnectsUnasked PROVE Spec => []FlagsTrue
<1>1. TypeOK /\ Known => FlagsTrue
  <2> SUFFICES ASSUME TypeOK, Known, pc = "idle", events = <<>>, ~leaving
               PROVE  /\ SpiderConnected = (station # "down")
                      /\ SpiderDHCP = (station = "addressed")
    BY DEF FlagsTrue
  <2>1. Exact /\ Len(events) = 0
    BY DEF Known
  <2>2. /\ Ends(SpiderConnected, "CONNECT", events, 0) <=> SpiderConnected
        /\ Ends(SpiderDHCP, "DHCP", events, 0) <=> SpiderDHCP
    BY EndsNow DEF TypeOK, FlagTypes
  <2>3. (SpiderConnected <=> station # "down") /\ (SpiderDHCP <=> station = "addressed")
    BY <2>1, <2>2 DEF Exact
  <2> QED
    BY <2>3 DEF TypeOK, FlagTypes
<1> QED
  BY <1>1, ConnectionCorrect, PTL

\* What a sketch is told moves as a connection does: an address is got over a connection
\* and gone with it, wherever the interrupt sets a flag and the functions clear it.
THEOREM Follows == ASSUME ~ConnectsUnasked PROVE Spec => ViewFollows
<1>1. Init => Shown!Init
  BY DEF Init, Shown!Init, View
<1>2. TypeOK /\ Clean /\ [Next]_vars => [Shown!Next]_View
  <2> SUFFICES ASSUME TypeOK, Clean, [Next]_vars PROVE [Shown!Next]_View
    OBVIOUS
  <2> USE DEF Shown!Next, Shown!Join, Shown!Lease, Shown!Leave
  <2>1. ASSUME UNCHANGED <<SpiderConnected, SpiderDHCP>> PROVE [Shown!Next]_View
    BY <2>1 DEF View
  <2>2. ASSUME ~SpiderConnected' PROVE [Shown!Next]_View
    BY <2>2 DEF View
  <2>3. CASE Deliver
    <3>1. /\ events # <<>> /\ events \in Seq(Kinds)
          /\ SpiderConnected' = (Head(events) = "CONNECT"
                                    \/ (SpiderConnected /\ Head(events) # "DISCONNECT"))
          /\ SpiderDHCP' = (Head(events) = "DHCP"
                                    \/ (SpiderDHCP /\ Head(events) # "DISCONNECT"))
      BY <2>3 DEF Deliver, Callback, TypeOK, QueueTypes
    <3>2. CASE Head(events) = "CONNECT"
      <4>1. 1 \in 1..Len(events) /\ events[1] = "CONNECT" /\ 1 - 1 = 0
        BY <3>1, <3>2
      <4>2. ~Ends(SpiderDHCP, "DHCP", events, 0)
        BY <4>1 DEF Clean
      <4>3. ~SpiderDHCP
        BY <4>2, EndsNow DEF TypeOK, FlagTypes
      <4> QED
        BY <3>1, <3>2, <4>3 DEF View
    <3>3. CASE Head(events) # "CONNECT"
      BY <3>1, <3>3 DEF View
    <3> QED
      BY <3>2, <3>3
  <2>4. CASE Associate \/ Lease \/ Drop \/ Phone
    BY <2>1, <2>4 DEF Associate, Lease, Drop, Phone
  <2>5. CASE Call
    BY <2>1, <2>2, <2>5
       DEF Call, Begin, Close, Connect, AutoConnect, Disconnect, SmartConfig, AckFinish,
           Enter, ClearFlags
  <2>6. CASE Step
    BY <2>1, <2>2, <2>6
       DEF Step, BeginMask, ConnectPolicy, ConnectCommand, AutoWait, AutoPolicy,
           DisconnectCommand, DisconnectWait, DisconnectClear, ConfigPolicy,
           ConfigDelProfile, ConfigWait, ConfigKey, ConfigStart, ConfigFinish, ConfigAuto,
           ConfigStop, ConfigRestart, ConfigMask, Ack, ClearFlags
  <2>7. CASE UNCHANGED vars
    BY <2>1, <2>7 DEF vars
  <2> QED
    BY <2>3, <2>4, <2>5, <2>6, <2>7 DEF Next
<1> QED
  BY <1>1, <1>2, ConnectionCorrect, PTL DEF Spec, ViewFollows, Shown!Spec
=============================================================================
