------------------------------ MODULE Sockets ------------------------------
(***************************************************************************)
(* The sockets as the programs on top of socket.c see them: what the device   *)
(* has open, and what the host holds for its status. A call is one step here, *)
(* answered by the device (HciApi); what a send does inside, and what becomes *)
(* of its buffer, is FlowControl's.                                          *)
(***************************************************************************)
EXTENDS Integers

CONSTANTS
    Descriptors,   \* of the device
    LateFailures   \* a failure may be reported after the socket has been closed

ASSUME SocketsAssumption == Descriptors \subseteq 0..7 /\ LateFailures \in BOOLEAN

VARIABLES
    open, listening,       \* device: descriptors a program got; those nobody can send on
    leaked,                \* device: still in use, since it refused to close them
    gone,                  \* device: connections whose peer has left
    failing,               \* device: sockets with failures of sends not yet reported
    inactive,              \* socket_active_status: descriptors whose bit is set
    slTransmitDataError,   \* tSLInformation: the last failure reported
    stray,                 \* history: a command named a descriptor not in use
    missed                 \* history: sends refused with the peer there, since the last failure

sockets == <<open, listening, leaked, gone, failing, inactive, slTransmitDataError, stray, missed>>

EFAIL == -1
SOC_IN_PROGRESS == -2
Sent == 1                  \* any length: it is positive, like the byte of a failure
StatusBytes == {0, 199}    \* of a failed completion; the driver takes 0 for none

SocketsInit ==
    /\ open = {} /\ listening = {} /\ leaked = {} /\ gone = {} /\ failing = {}
    /\ inactive = Descriptors /\ slTransmitDataError = 0
    /\ stray = FALSE
    /\ missed = 1   \* there has been no failure that could be charged

SocketsTypeOK ==
    /\ open \subseteq Descriptors /\ listening \subseteq open /\ gone \subseteq open
    /\ leaked \subseteq Descriptors \ open
    /\ failing \subseteq Descriptors /\ inactive \subseteq Descriptors
    /\ slTransmitDataError \in StatusBytes
    /\ stray \in BOOLEAN /\ missed \in Nat

\* set_socket_active_status: a number that is no descriptor changes nothing.
Active(sd)   == inactive \ {sd}
Inactive(sd) == inactive \cup ({sd} \cap Descriptors)

\* What a command that names a socket says of it. -1 is nobody's.
Named(sd) == stray' = (stray \/ sd \notin open \cup {-1})

-----------------------------------------------------------------------------
\* The descriptors the device has left to give.
Free == Descriptors \ (open \cup leaked)

\* socket returns r. Variant: an old status stays.
OpenStale(r) ==
    /\ r \in Free \cup {EFAIL}
    /\ open' = open \cup ({r} \cap Descriptors)
    /\ UNCHANGED <<listening, leaked, gone, failing, inactive, slTransmitDataError, stray, missed>>
Open(r) ==
    /\ r \in Free \cup {EFAIL}
    /\ open' = open \cup ({r} \cap Descriptors)
    /\ inactive' = Active(r)
    /\ UNCHANGED <<listening, leaked, gone, failing, slTransmitDataError, stray, missed>>

\* The device may refuse: the socket stays in use there, the host marks it inactive all the
\* same, and the programs forget it, whatever the answer. The device reports the failed sends
\* of a socket before it answers, if it reports in order.
closesocket(sd) ==
    /\ LateFailures \/ sd \notin failing
    /\ leaked' \in {leaked, leaked \cup ({sd} \cap open)}
    /\ open' = open \ {sd} /\ listening' = listening \ {sd} /\ gone' = gone \ {sd}
    /\ inactive' = Inactive(sd)
    /\ Named(sd)
    /\ UNCHANGED <<failing, slTransmitDataError, missed>>

\* setsockopt, bind, connect, select and recv change no status.
Command(sd) ==
    /\ Named(sd)
    /\ UNCHANGED <<open, listening, leaked, gone, failing, inactive, slTransmitDataError, missed>>

listen(sd) ==
    /\ listening' = listening \cup {sd}
    /\ Named(sd)
    /\ UNCHANGED <<open, leaked, gone, failing, inactive, slTransmitDataError, missed>>

\* accept returns r; without a connection it is the listening socket that is marked.
accept(sd, r) ==
    /\ r \in Free \cup {EFAIL, SOC_IN_PROGRESS}
    /\ open' = open \cup ({r} \cap Descriptors)
    /\ inactive' = IF r \in Descriptors THEN Active(r) ELSE Inactive(sd)
    /\ Named(sd)
    /\ UNCHANGED <<listening, leaked, gone, failing, slTransmitDataError, missed>>

\* HostFlowControlConsumeBuff: what a send returns, and whether it is sent at all.
SendResult(sd) ==
    IF slTransmitDataError # 0 THEN slTransmitDataError
    ELSE IF sd \in inactive \/ sd \notin Descriptors THEN EFAIL
    ELSE Sent
Refused(sd) == SendResult(sd) # Sent

\* Once the peer has gone a send fails, which the device reports later: each of those it has
\* taken (Failure).
\* Variant: the failure is returned, and kept.
SendKeepsError(sd) ==
    /\ missed' = IF Refused(sd) /\ sd \in open \ gone THEN missed + 1 ELSE missed
    /\ stray' = (stray \/ (~Refused(sd) /\ sd \notin open))
    /\ failing' = IF ~Refused(sd) /\ sd \in gone THEN failing \cup {sd} ELSE failing
    /\ UNCHANGED <<open, listening, leaked, gone, inactive, slTransmitDataError>>
send(sd) ==
    /\ slTransmitDataError' = 0
    /\ missed' = IF Refused(sd) /\ sd \in open \ gone THEN missed + 1 ELSE missed
    /\ stray' = (stray \/ (~Refused(sd) /\ sd \notin open))
    /\ failing' = IF ~Refused(sd) /\ sd \in gone THEN failing \cup {sd} ELSE failing
    /\ UNCHANGED <<open, listening, leaked, gone, inactive>>

-----------------------------------------------------------------------------
\* The device on its own.

PeerLeaves ==
    \E sd \in open \ listening :
        /\ sd \notin gone
        /\ gone' = gone \cup {sd}
        /\ UNCHANGED <<open, listening, leaked, failing, inactive, slTransmitDataError, stray, missed>>

\* hci_unsol_event_handler, the failed completion of a send on sd: the last of them, or one
\* with more to come. How many a socket has is left open.
Completion(sd) ==
    /\ sd \in failing
    /\ slTransmitDataError' \in StatusBytes
    /\ inactive' = Inactive(sd)
    /\ missed' = 0
    /\ UNCHANGED <<open, listening, leaked, gone, stray>>
LastFailure == \E sd \in failing : Completion(sd) /\ failing' = failing \ {sd}
Failure == \E sd \in failing : Completion(sd) /\ failing' \in {failing \ {sd}, failing}

-----------------------------------------------------------------------------
\* No command names a descriptor that has been closed, and so perhaps another's.
NoStray == ~stray

\* The host takes no socket in use for a dead one unless its peer has left, whatever
\* befell the connections that had the descriptor before; only a listening socket is
\* marked by an accept without a connection. One the device would not close is dead to it.
StatusTrue ==
    /\ inactive \cap open \subseteq gone \cup listening
    /\ leaked \subseteq inactive
=============================================================================
