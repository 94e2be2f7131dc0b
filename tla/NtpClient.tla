----------------------------- MODULE NtpClient -----------------------------
(***************************************************************************)
(* NTP.c, and the sketch ntp.ino that runs it: setup() calls NTP_begin once    *)
(* and does not look at what it returns, loop() calls NTP_get_time for ever.   *)
(***************************************************************************)
EXTENDS Sockets, FiniteSets

CONSTANTS
    ArpDuringWait  \* the device reports the end of ARP between setting the flag and reading it

ASSUME NtpClientAssumption == ArpDuringWait \in BOOLEAN

VARIABLES
    ntp,                  \* the call made next
    ntp_socket, first_send, SpiderARP_Flag,
    sent                  \* what sendto returned

ntp_vars == <<ntp, ntp_socket, first_send, SpiderARP_Flag, sent>>

NtpRests == {"off", "setup", "loop"}
ArpFlags == {"none", "INIT", "PROC", "DONE"}

-----------------------------------------------------------------------------
\* NTP_begin

NtpResolve ==
    /\ ntp = "setup"
    /\ ntp' \in {"socket", "loop"}
    /\ UNCHANGED <<sockets, ntp_socket, first_send, SpiderARP_Flag, sent>>

NtpSocket ==
    /\ ntp = "socket"
    /\ \E r \in Descriptors \cup {EFAIL} :
        /\ Open(r)
        /\ ntp_socket' = r
        /\ ntp' = IF r = EFAIL THEN "loop" ELSE "setsockopt"
    /\ UNCHANGED <<first_send, SpiderARP_Flag, sent>>

NtpTimeout ==
    /\ ntp = "setsockopt"
    /\ Command(ntp_socket)
    /\ ntp' \in {"loop", "undo"}
    /\ UNCHANGED <<ntp_socket, first_send, SpiderARP_Flag, sent>>

NtpUndo ==
    /\ ntp = "undo"
    /\ closesocket(ntp_socket)
    /\ ntp' = "loop" /\ ntp_socket' = -1
    /\ UNCHANGED <<first_send, SpiderARP_Flag, sent>>

-----------------------------------------------------------------------------
\* NTP_get_time

NtpSend ==
    /\ ntp = "loop"
    /\ sent' = SendResult(ntp_socket)
    /\ send(ntp_socket)
    /\ ntp' = IF first_send THEN "start" ELSE "check"
    /\ UNCHANGED <<ntp_socket, first_send, SpiderARP_Flag>>

\* Spider_Start_ARP_EVENT
NtpStart ==
    /\ ntp = "start"
    /\ SpiderARP_Flag' = "INIT"
    /\ ntp' = "wait"
    /\ UNCHANGED <<sockets, ntp_socket, first_send, sent>>

\* The loop waits while the flag says that ARP is done.
NtpWait ==
    /\ ntp = "wait" /\ SpiderARP_Flag # "DONE"
    /\ first_send' = FALSE
    /\ ntp' = "check"
    /\ UNCHANGED <<sockets, ntp_socket, SpiderARP_Flag, sent>>

NtpCheck ==
    /\ ntp = "check"
    /\ ntp' = IF sent < 0 THEN "loop" ELSE "recvfrom"
    /\ sent' = 0
    /\ UNCHANGED <<sockets, ntp_socket, first_send, SpiderARP_Flag>>

NtpRecv ==
    /\ ntp = "recvfrom"
    /\ Command(ntp_socket)
    /\ ntp' = "loop"
    /\ UNCHANGED <<ntp_socket, first_send, SpiderARP_Flag, sent>>

\* Spider_AsyncCallback, in the interrupt; the flag is looked at in the first call only
ArpEvent ==
    /\ ntp \notin {"off", "setup"} /\ first_send /\ (ntp # "wait" \/ ArpDuringWait)
    /\ SpiderARP_Flag' \in {"PROC", "DONE"}
    /\ UNCHANGED <<sockets, ntp, ntp_socket, first_send, sent>>

-----------------------------------------------------------------------------
NtpInit ==
    /\ ntp_socket = -1 /\ first_send = TRUE /\ SpiderARP_Flag = "none" /\ sent = 0

NtpNext ==
    \/ NtpResolve \/ NtpSocket \/ NtpTimeout \/ NtpUndo
    \/ NtpSend \/ NtpStart \/ NtpWait \/ NtpCheck \/ NtpRecv
=============================================================================
