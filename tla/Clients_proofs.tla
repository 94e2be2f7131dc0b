--------------------------- MODULE Clients_proofs ---------------------------
(***************************************************************************)
(* Proofs about Clients, for any number of descriptors and any set of the     *)
(* three programs: every socket that is not given up has its owner and nobody *)
(* names another's (SocketsOwned); with failures reported in order, the       *)
(* status of a socket is its own (StatusTrue), and each failed completion      *)
(* costs the connections of the programs one send at most (OnePerFailure).    *)
(***************************************************************************)
EXTENDS ClientsInv, TLAPS

(* Who owns the sockets.                                                       *)

\* The server: a socket is got, listens and is closed in the order of its states, and the
\* connection accepted is closed before the next.
LEMMA ServerOwned == OwnInv /\ ServerStep => OwnInv'
<1> SUFFICES ASSUME OwnInv, ServerStep PROVE OwnInv'
  OBVIOUS
<1>a. /\ Descriptors \subseteq Nat /\ -1 \notin Descriptors /\ -2 \notin Descriptors
      /\ MaxConns \in Nat
  BY SocketsAssumption, WebClientAssumption
<1> USE DEF OwnInv, TypeOK, ServerTypes, ClientTypes, NtpTypes, SocketsTypeOK,
   HandlesInv, PiecesInv, OwnersInv, NoStray, server_vars, client_vars, ntp_vars,
   Serving, Setting, ServerRests, NtpRests, ArpFlags, StatusBytes, EFAIL,
   SOC_IN_PROGRESS, Sent, Request, Pieces
<1>v. UNCHANGED <<client_vars, ntp_vars>>
  BY DEF ServerStep
<1>1. CASE ServerSocket
  BY <1>a, <1>1, <1>v DEF ServerSocket, Open, Free, Active
<1>2. CASE ServerSetup
  <2>1. SocketsTypeOK'
    <3>1. CASE server = "listen" /\ listen(http_server_socket)
      BY <1>a, <1>2, <1>v, <3>1 DEF listen, Named
    <3>2. CASE Command(http_server_socket)
      BY <1>a, <1>2, <1>v, <3>2 DEF Command, Named
    <3>3. QED BY <1>2, <3>1, <3>2 DEF ServerSetup
  <2>2. ServerTypes'
    BY <1>a, <1>2, <1>v DEF ServerSetup, Command, listen, Named
  <2>3. ClientTypes'
    BY <1>a, <1>2, <1>v DEF ServerSetup, Command, listen, Named
  <2>4. NtpTypes'
    BY <1>a, <1>2, <1>v DEF ServerSetup, Command, listen, Named
  <2>5. (HandlesInv /\ PiecesInv)'
    BY <1>a, <1>2, <1>v DEF ServerSetup, Command, listen, Named
  <2>6. (OwnersInv /\ NoStray)'
    BY <1>a, <1>2, <1>v DEF ServerSetup, Command, listen, Named
  <2>7. QED BY <2>1, <2>2, <2>3, <2>4, <2>5, <2>6
<1>3. CASE ServerUndo
  BY <1>a, <1>3, <1>v DEF ServerUndo, closesocket, Inactive, Named
<1>4. CASE ServerStop
  BY <1>a, <1>4, <1>v DEF ServerStop, closesocket, Inactive, Named
<1>5. CASE ServerAccept
  BY <1>a, <1>5, <1>v DEF ServerAccept, accept, Free, Active, Inactive, Named
<1>6. CASE ServerTimeout
  BY <1>a, <1>6, <1>v DEF ServerTimeout, Command, Named
<1>7. CASE ServerDrop
  <2>1. SocketsTypeOK'
    BY <1>a, <1>7, <1>v DEF ServerDrop, closesocket, Inactive, Named
  <2>2. ServerTypes'
    BY <1>a, <1>7, <1>v DEF ServerDrop, closesocket, Inactive, Named
  <2>3. ClientTypes'
    BY <1>a, <1>7, <1>v DEF ServerDrop, closesocket, Inactive, Named
  <2>4. NtpTypes'
    BY <1>a, <1>7, <1>v DEF ServerDrop, closesocket, Inactive, Named
  <2>5. (HandlesInv /\ PiecesInv)'
    BY <1>a, <1>7, <1>v DEF ServerDrop, closesocket, Inactive, Named
  <2>6. (OwnersInv /\ NoStray)'
    BY <1>a, <1>7, <1>v DEF ServerDrop, closesocket, Inactive, Named
  <2>7. QED BY <2>1, <2>2, <2>3, <2>4, <2>5, <2>6
<1>8. CASE ServerRead
  BY <1>a, <1>8, <1>v DEF ServerRead, Command, Named
<1>9. CASE ServerParsed
  BY <1>a, <1>9, <1>v DEF ServerParsed, Command, Named
<1>10. CASE ServerRespond
  <2>1. SocketsTypeOK'
    <3>1. client_socket \in Descriptors /\ send(client_socket)
      BY <1>10 DEF ServerRespond
    <3>2. QED BY <3>1 DEF send, SendResult, Refused
  <2>2. ServerTypes'
    BY <1>a, <1>10, <1>v DEF ServerRespond, send, SendResult, Refused, Piece, Pieces
  <2>3. ClientTypes'
    BY <1>a, <1>10, <1>v DEF ServerRespond, send, SendResult, Refused, Piece, Pieces
  <2>4. NtpTypes'
    BY <1>a, <1>10, <1>v DEF ServerRespond, send, SendResult, Refused, Piece, Pieces
  <2>5. (HandlesInv /\ PiecesInv)'
    BY <1>a, <1>10, <1>v DEF ServerRespond, send, SendResult, Refused, Piece, Pieces
  <2>6. (OwnersInv /\ NoStray)'
    BY <1>a, <1>10, <1>v DEF ServerRespond, send, SendResult, Refused, Piece, Pieces
  <2>7. QED BY <2>1, <2>2, <2>3, <2>4, <2>5, <2>6
<1>11. QED BY <1>1, <1>2, <1>3, <1>4, <1>5, <1>6, <1>7, <1>8, <1>9, <1>10 DEF
   ServerStep, ServerNext

\* The web client: every way through one round ends in WebClient_Close, which closes the
\* socket of the round or none.
LEMMA ClientOwned == OwnInv /\ ClientStep => OwnInv'
<1> SUFFICES ASSUME OwnInv, ClientStep PROVE OwnInv'
  OBVIOUS
<1>a. /\ Descriptors \subseteq Nat /\ -1 \notin Descriptors /\ -2 \notin Descriptors
      /\ MaxConns \in Nat
  BY SocketsAssumption, WebClientAssumption
<1> USE DEF OwnInv, TypeOK, ServerTypes, ClientTypes, NtpTypes, SocketsTypeOK,
   HandlesInv, PiecesInv, OwnersInv, NoStray, server_vars, client_vars, ntp_vars,
   Serving, Setting, ServerRests, NtpRests, ArpFlags, StatusBytes, EFAIL,
   SOC_IN_PROGRESS, Sent, Request, Pieces
<1>v. UNCHANGED <<server_vars, ntp_vars>>
  BY DEF ClientStep
<1>1. CASE ClientResolve
  BY <1>a, <1>1, <1>v DEF ClientResolve, sockets
<1>2. CASE ClientSocket
  BY <1>a, <1>2, <1>v DEF ClientSocket, Open, Free, Active
<1>3. CASE ClientTimeout
  BY <1>a, <1>3, <1>v DEF ClientTimeout, Command, Named
<1>4. CASE ClientUndo
  <2>1. SocketsTypeOK'
    BY <1>a, <1>4, <1>v DEF ClientUndo, closesocket, Inactive, Named, Undone
  <2>2. ServerTypes'
    BY <1>a, <1>4, <1>v DEF ClientUndo, closesocket, Inactive, Named, Undone
  <2>3. ClientTypes'
    BY <1>a, <1>4, <1>v DEF ClientUndo, closesocket, Inactive, Named, Undone
  <2>4. NtpTypes'
    BY <1>a, <1>4, <1>v DEF ClientUndo, closesocket, Inactive, Named, Undone
  <2>5. (HandlesInv /\ PiecesInv)'
    BY <1>a, <1>4, <1>v DEF ClientUndo, closesocket, Inactive, Named, Undone
  <2>6. (OwnersInv /\ NoStray)'
    BY <1>a, <1>4, <1>v DEF ClientUndo, closesocket, Inactive, Named, Undone
  <2>7. QED BY <2>1, <2>2, <2>3, <2>4, <2>5, <2>6
<1>5. CASE ClientConnect
  BY <1>a, <1>5, <1>v DEF ClientConnect, Command, Named, Count, Request
<1>6. CASE ClientSend
  <2>1. SocketsTypeOK'
    BY <1>a, <1>6, <1>v DEF ClientSend, send, SendResult, Refused
  <2>2. ServerTypes'
    BY <1>a, <1>6, <1>v DEF ClientSend, send, SendResult, Refused
  <2>3. ClientTypes'
    BY <1>a, <1>6, <1>v DEF ClientSend, send, SendResult, Refused
  <2>4. NtpTypes'
    BY <1>a, <1>6, <1>v DEF ClientSend, send, SendResult, Refused
  <2>5. (HandlesInv /\ PiecesInv)'
    BY <1>a, <1>6, <1>v DEF ClientSend, send, SendResult, Refused
  <2>6. (OwnersInv /\ NoStray)'
    BY <1>a, <1>6, <1>v DEF ClientSend, send, SendResult, Refused
  <2>7. QED BY <2>1, <2>2, <2>3, <2>4, <2>5, <2>6
<1>7. CASE ClientRecv
  BY <1>a, <1>7, <1>v DEF ClientRecv, Command, Named
<1>8. CASE ClientRecvEnds
  BY <1>a, <1>8, <1>v DEF ClientRecvEnds, Command, Named
<1>9. CASE ClientClose
  <2>1. SocketsTypeOK'
    BY <1>a, <1>9, <1>v DEF ClientClose, closesocket, Inactive, Named
  <2>2. ServerTypes'
    BY <1>a, <1>9, <1>v DEF ClientClose, closesocket, Inactive, Named
  <2>3. ClientTypes'
    BY <1>a, <1>9, <1>v DEF ClientClose, closesocket, Inactive, Named
  <2>4. NtpTypes'
    BY <1>a, <1>9, <1>v DEF ClientClose, closesocket, Inactive, Named
  <2>5. (HandlesInv /\ PiecesInv)'
    BY <1>a, <1>9, <1>v DEF ClientClose, closesocket, Inactive, Named
  <2>6. (OwnersInv /\ NoStray)'
    BY <1>a, <1>9, <1>v DEF ClientClose, closesocket, Inactive, Named
  <2>7. QED BY <2>1, <2>2, <2>3, <2>4, <2>5, <2>6
<1>10. QED BY <1>1, <1>2, <1>3, <1>4, <1>5, <1>6, <1>7, <1>8, <1>9 DEF ClientStep,
   ClientNext

\* The clock: a failed setup leaves -1, which is no socket and is never sent on.
LEMMA NtpOwned == OwnInv /\ NtpStep => OwnInv'
<1> SUFFICES ASSUME OwnInv, NtpStep PROVE OwnInv'
  OBVIOUS
<1>a. /\ Descriptors \subseteq Nat /\ -1 \notin Descriptors /\ -2 \notin Descriptors
      /\ MaxConns \in Nat
  BY SocketsAssumption, WebClientAssumption
<1> USE DEF OwnInv, TypeOK, ServerTypes, ClientTypes, NtpTypes, SocketsTypeOK,
   HandlesInv, PiecesInv, OwnersInv, NoStray, server_vars, client_vars, ntp_vars,
   Serving, Setting, ServerRests, NtpRests, ArpFlags, StatusBytes, EFAIL,
   SOC_IN_PROGRESS, Sent, Request, Pieces
<1>v. UNCHANGED <<server_vars, client_vars>>
  BY DEF NtpStep
<1>1. CASE NtpResolve
  BY <1>a, <1>1, <1>v DEF NtpResolve, sockets
<1>2. CASE NtpSocket
  BY <1>a, <1>2, <1>v DEF NtpSocket, Open, Free, Active
<1>3. CASE NtpTimeout
  BY <1>a, <1>3, <1>v DEF NtpTimeout, Command, Named
<1>4. CASE NtpUndo
  <2>1. SocketsTypeOK'
    BY <1>a, <1>4, <1>v DEF NtpUndo, closesocket, Inactive, Named
  <2>2. ServerTypes'
    BY <1>a, <1>4, <1>v DEF NtpUndo, closesocket, Inactive, Named
  <2>3. ClientTypes'
    BY <1>a, <1>4, <1>v DEF NtpUndo, closesocket, Inactive, Named
  <2>4. NtpTypes'
    BY <1>a, <1>4, <1>v DEF NtpUndo, closesocket, Inactive, Named
  <2>5. (HandlesInv /\ PiecesInv)'
    BY <1>a, <1>4, <1>v DEF NtpUndo, closesocket, Inactive, Named
  <2>6. (OwnersInv /\ NoStray)'
    BY <1>a, <1>4, <1>v DEF NtpUndo, closesocket, Inactive, Named
  <2>7. QED BY <2>1, <2>2, <2>3, <2>4, <2>5, <2>6
<1>5. CASE NtpSend
  <2>1. SocketsTypeOK'
    BY <1>a, <1>5, <1>v DEF NtpSend, send, SendResult, Refused
  <2>2. ServerTypes'
    BY <1>a, <1>5, <1>v DEF NtpSend, send, SendResult, Refused
  <2>3. ClientTypes'
    BY <1>a, <1>5, <1>v DEF NtpSend, send, SendResult, Refused
  <2>4. NtpTypes'
    BY <1>a, <1>5, <1>v DEF NtpSend, send, SendResult, Refused
  <2>5. (HandlesInv /\ PiecesInv)'
    BY <1>a, <1>5, <1>v DEF NtpSend, send, SendResult, Refused
  <2>6. (OwnersInv /\ NoStray)'
    BY <1>a, <1>5, <1>v DEF NtpSend, send, SendResult, Refused
  <2>7. QED BY <2>1, <2>2, <2>3, <2>4, <2>5, <2>6
<1>6. CASE NtpStart
  BY <1>a, <1>6, <1>v DEF NtpStart, sockets
<1>7. CASE NtpWait
  <2>1. SocketsTypeOK'
    BY <1>a, <1>7, <1>v DEF NtpWait, sockets
  <2>2. ServerTypes'
    BY <1>a, <1>7, <1>v DEF NtpWait, sockets
  <2>3. ClientTypes'
    BY <1>a, <1>7, <1>v DEF NtpWait, sockets
  <2>4. NtpTypes'
    BY <1>a, <1>7, <1>v DEF NtpWait, sockets
  <2>5. (HandlesInv /\ PiecesInv)'
    BY <1>a, <1>7, <1>v DEF NtpWait, sockets
  <2>6. (OwnersInv /\ NoStray)'
    BY <1>a, <1>7, <1>v DEF NtpWait, sockets
  <2>7. QED BY <2>1, <2>2, <2>3, <2>4, <2>5, <2>6
<1>8. CASE NtpCheck
  BY <1>a, <1>8, <1>v DEF NtpCheck, sockets
<1>9. CASE NtpRecv
  BY <1>a, <1>9, <1>v DEF NtpRecv, Command, Named
<1>10. QED BY <1>1, <1>2, <1>3, <1>4, <1>5, <1>6, <1>7, <1>8, <1>9 DEF NtpStep, NtpNext

\* What the device does on its own opens and closes nothing.
LEMMA DeviceOwned == OwnInv /\ Device => OwnInv'
<1> SUFFICES ASSUME OwnInv, Device PROVE OwnInv'
  OBVIOUS
<1>a. /\ Descriptors \subseteq Nat /\ -1 \notin Descriptors /\ -2 \notin Descriptors
      /\ MaxConns \in Nat
  BY SocketsAssumption, WebClientAssumption
<1> USE DEF OwnInv, TypeOK, ServerTypes, ClientTypes, NtpTypes, SocketsTypeOK,
   HandlesInv, PiecesInv, OwnersInv, NoStray, server_vars, client_vars, ntp_vars,
   Serving, Setting, ServerRests, NtpRests, ArpFlags, StatusBytes, EFAIL,
   SOC_IN_PROGRESS, Sent, Request, Pieces
<1>1. CASE PeerLeaves /\ UNCHANGED <<server_vars, client_vars, ntp_vars>>
  BY <1>a, <1>1 DEF PeerLeaves
<1>2. CASE Failure /\ UNCHANGED <<server_vars, client_vars, ntp_vars>>
  BY <1>a, <1>2 DEF Failure, Completion, Inactive
<1>3. CASE ArpEvent /\ UNCHANGED <<server_vars, client_vars>>
  BY <1>a, <1>3 DEF ArpEvent, sockets
<1>4. QED BY <1>1, <1>2, <1>3 DEF Device

\* Initially nothing is open, and every step keeps the owners.
LEMMA OwnedHolds == (Init => OwnInv) /\ (OwnInv /\ [Next]_vars => OwnInv')
<1>1. ASSUME Init PROVE OwnInv
  <2>1. -1 \notin Descriptors /\ MaxConns \in Nat
    BY SocketsAssumption, WebClientAssumption
  <2>2. /\ server \in {"INIT_SERVER", "off"} /\ client \in {"rest", "off"} /\ ntp \in {"setup", "off"}
        /\ SocketsInit /\ ServerInit /\ ClientInit /\ NtpInit
    BY <1>1 DEF Init
  <2>3. TypeOK /\ NoStray
    <3>1. SocketsTypeOK /\ NoStray
      BY <2>2 DEF SocketsInit, SocketsTypeOK, NoStray, StatusBytes
    <3>2. ServerTypes
      BY <2>2 DEF ServerInit, ServerTypes, ServerRests, EFAIL, Pieces
    <3>3. ClientTypes
      BY <2>1, <2>2 DEF ClientInit, ClientTypes, EFAIL, Request
    <3>4. NtpTypes
      BY <2>2 DEF NtpInit, NtpTypes, NtpRests, ArpFlags, EFAIL
    <3>5. QED BY <3>1, <3>2, <3>3, <3>4 DEF TypeOK
  <2>4. HandlesInv /\ PiecesInv /\ OwnersInv
    BY <2>1, <2>2 DEF SocketsInit, ServerInit, ClientInit, NtpInit, HandlesInv, PiecesInv,
       OwnersInv, Serving
  <2>5. QED BY <2>3, <2>4 DEF OwnInv
<1>2. ASSUME OwnInv, [Next]_vars PROVE OwnInv'
  <2>1. CASE UNCHANGED vars
    BY <1>2, <2>1 DEF vars, sockets, server_vars, client_vars, ntp_vars, OwnInv, TypeOK,
       SocketsTypeOK, ServerTypes, ClientTypes, NtpTypes, HandlesInv, PiecesInv, OwnersInv, NoStray
  <2>2. QED BY <1>2, <2>1, ServerOwned, ClientOwned, NtpOwned, DeviceOwned DEF Next
<1>3. QED BY <1>1, <1>2

\* The variables of the sockets and of the programs keep their types: a socket that listens or
\* has lost its peer is open, and the counts of connections and pieces stay in their bounds.
THEOREM TypeCorrect == Spec => []TypeOK
<1>1. OwnInv => TypeOK
  BY DEF OwnInv
<1>2. QED BY <1>1, OwnedHolds, PTL DEF Spec

\* Whichever call fails, closesocket among them, round after round: when no function runs the
\* programs hold every socket they got and have not given to closesocket, and no command ever
\* names another, be it in use elsewhere or leaked.
THEOREM Owned == Spec => []SocketsOwned
<1>1. ASSUME OwnInv PROVE SocketsOwned
  <2>1. NoStray /\ HandlesInv /\ OwnersInv /\ -1 \notin Descriptors /\ -2 \notin Descriptors
    BY <1>1, SocketsAssumption DEF OwnInv
  <2>2. ASSUME ~(ServerRuns \/ ClientRuns \/ NtpRuns) PROVE open = Held \ {-1}
    <3>1. /\ server \in ServerRests /\ client \in {"off", "rest"} /\ ntp \in NtpRests
          /\ host_socket = -1
      BY <2>1, <2>2 DEF ServerRuns, ClientRuns, NtpRuns, HandlesInv
    <3>2. server \in ServerRests \ {"off", "INIT_SERVER"} <=> http_server_socket \in Descriptors
      BY <2>1, <3>1 DEF HandlesInv
    <3>3. server \in {"HANDLE_REQUEST", "HANDLE_GET_RESPONSE", "CLOSE_CLIENT_CONN"}
             <=> client_socket \in Descriptors
      BY <2>1, <3>1 DEF HandlesInv, ServerRests, Serving
    <3>4. /\ ntp # "loop" => ntp_socket = -1
          /\ ntp_socket \in Descriptors \cup {-1}
      BY <2>1, <3>1 DEF HandlesInv, NtpRests
    <3>5. QED BY <2>1, <3>1, <3>2, <3>3, <3>4 DEF Held, OwnersInv
  <2>3. QED BY <2>1, <2>2 DEF SocketsOwned, NoneLost
<1>2. QED BY <1>1, OwnedHolds, PTL DEF Spec

-----------------------------------------------------------------------------
(* The status of the sockets.                                                  *)

\* Only a descriptor that nobody uses loses its mark to a new socket; an accept without a
\* connection marks the listening socket.
LEMMA ServerStatus == OwnInv /\ StatusInv /\ ~LateFailures /\ ServerStep => StatusInv'
<1> SUFFICES ASSUME OwnInv /\ StatusInv /\ ~LateFailures, ServerStep PROVE StatusInv'
  OBVIOUS
<1>a. /\ Descriptors \subseteq Nat /\ -1 \notin Descriptors /\ -2 \notin Descriptors
  BY SocketsAssumption
<1>b. /\ open \subseteq Descriptors /\ listening \subseteq open /\ gone \subseteq open
      /\ HandlesInv /\ OwnersInv /\ ~stray /\ slTransmitDataError \in {0, 199} /\ missed \in Nat
      /\ server \in ServerRests \cup Setting \cup Serving
  BY DEF OwnInv, TypeOK, SocketsTypeOK, ServerTypes, NoStray, StatusBytes, Setting, Serving
<1> USE DEF StatusInv, StatusTrue, Conns, server_vars, client_vars, ntp_vars, EFAIL,
   SOC_IN_PROGRESS
<1>v. UNCHANGED <<client_vars, ntp_vars>>
  BY DEF ServerStep
<1>1. CASE ServerSocket
  <2>1. PICK r \in Descriptors \cup {EFAIL} : Open(r) /\ http_server_socket' = r
    BY <1>1 DEF ServerSocket
  <2>2. /\ inactive' = inactive \ {r} /\ open' = open \cup ({r} \cap Descriptors)
        /\ UNCHANGED <<listening, leaked, gone, failing>> /\ r \notin leaked
    BY <1>a, <2>1 DEF Open, Free, Active, OwnInv, TypeOK, SocketsTypeOK
  <2>3. failing' \subseteq Conns' \cap gone'
    BY <1>a, <1>b, <1>v, <1>1, <2>1, <2>2 DEF ServerSocket, HandlesInv
  <2>4. StatusTrue'
    BY <2>2
  <2>5. QED BY <2>3, <2>4
<1>2. CASE ServerSetup
  BY <1>a, <1>b, <1>2, <1>v DEF ServerSetup, Command, listen, Named, HandlesInv,
     OwnersInv, Serving, Setting, ServerRests, Sent
<1>3. CASE ServerUndo
  BY <1>a, <1>b, <1>3, <1>v DEF ServerUndo, closesocket, Inactive, Named, HandlesInv,
     OwnersInv, Serving, Setting, ServerRests, Sent
<1>4. CASE ServerStop
  BY <1>a, <1>b, <1>4, <1>v DEF ServerStop, closesocket, Inactive, Named, HandlesInv,
     OwnersInv, Serving, Setting, ServerRests, Sent
<1>5. CASE ServerAccept
  <2>1. PICK r \in Descriptors \cup {EFAIL, SOC_IN_PROGRESS} :
            accept(http_server_socket, r) /\ client_socket' = r
    BY <1>5 DEF ServerAccept
  <2>2. /\ http_server_socket \in listening /\ http_server_socket \notin Conns
        /\ client_socket \notin Descriptors
        /\ UNCHANGED <<gone, failing, host_socket, ntp_socket>>
    BY <1>5, <2>1, <1>a, <1>b, <1>v DEF ServerAccept, accept, HandlesInv, OwnersInv, Conns,
       Serving, Setting
  <2>3. CASE r \in Descriptors
    <3>1. /\ inactive' = inactive \ {r} /\ open' = open \cup {r} /\ listening' = listening
          /\ leaked' = leaked /\ r \notin leaked
      BY <2>1, <2>3, <1>a DEF accept, Free, Active, EFAIL, SOC_IN_PROGRESS
    <3>2. failing' \subseteq Conns' \cap gone'
      BY <2>1, <2>2, <3>1, <1>b
    <3>3. StatusTrue'
      BY <2>2, <3>1
    <3>4. QED BY <3>2, <3>3
  <2>4. CASE r \notin Descriptors
    <3>1. /\ inactive' \subseteq inactive \cup {http_server_socket}
          /\ inactive \subseteq inactive'
          /\ open' = open /\ listening' = listening /\ leaked' = leaked
      BY <2>1, <2>4 DEF accept, Inactive
    <3>2. failing' \subseteq Conns' \cap gone'
      BY <2>1, <2>2, <3>1, <1>b
    <3>3. StatusTrue'
      BY <2>2, <3>1
    <3>4. QED BY <3>2, <3>3
  <2>5. QED BY <2>3, <2>4
<1>6. CASE ServerTimeout
  BY <1>a, <1>b, <1>6, <1>v DEF ServerTimeout, Command, Named, HandlesInv, OwnersInv,
     Serving, Setting, ServerRests, Sent
<1>7. CASE ServerDrop
  BY <1>a, <1>b, <1>7, <1>v DEF ServerDrop, closesocket, Inactive, Named, HandlesInv,
     OwnersInv, Serving, Setting, ServerRests, Sent
<1>8. CASE ServerRead
  BY <1>a, <1>b, <1>8, <1>v DEF ServerRead, Command, Named, HandlesInv, OwnersInv,
     Serving, Setting, ServerRests, Sent
<1>9. CASE ServerParsed
  BY <1>a, <1>b, <1>9, <1>v DEF ServerParsed, Command, Named, HandlesInv, OwnersInv,
     Serving, Setting, ServerRests, Sent
<1>10. CASE ServerRespond
  BY <1>a, <1>b, <1>10, <1>v DEF ServerRespond, send, SendResult, Refused, Piece,
     Pieces, HandlesInv, OwnersInv, Serving, Setting, ServerRests, Sent
<1>11. QED BY <1>1, <1>2, <1>3, <1>4, <1>5, <1>6, <1>7, <1>8, <1>9, <1>10 DEF
   ServerStep, ServerNext

\* A socket is closed only when its failure has been reported.
LEMMA ClientStatus == OwnInv /\ StatusInv /\ ~LateFailures /\ ClientStep => StatusInv'
<1> SUFFICES ASSUME OwnInv /\ StatusInv /\ ~LateFailures, ClientStep PROVE StatusInv'
  OBVIOUS
<1>a. /\ Descriptors \subseteq Nat /\ -1 \notin Descriptors /\ -2 \notin Descriptors
  BY SocketsAssumption
<1>b. /\ open \subseteq Descriptors /\ listening \subseteq open /\ gone \subseteq open
      /\ HandlesInv /\ OwnersInv /\ ~stray /\ slTransmitDataError \in {0, 199} /\ missed \in Nat
      /\ server \in ServerRests \cup Setting \cup Serving
  BY DEF OwnInv, TypeOK, SocketsTypeOK, ServerTypes, NoStray, StatusBytes, Setting, Serving
<1> USE DEF StatusInv, StatusTrue, Conns, server_vars, client_vars, ntp_vars, EFAIL,
   SOC_IN_PROGRESS
<1>v. UNCHANGED <<server_vars, ntp_vars>>
  BY DEF ClientStep
<1>1. CASE ClientResolve
  BY <1>a, <1>b, <1>1, <1>v DEF ClientResolve, sockets, HandlesInv, OwnersInv, Serving,
     Setting, ServerRests, Sent
<1>2. CASE ClientSocket
  <2>1. PICK r \in Descriptors \cup {EFAIL} : Open(r) /\ host_socket' = r
    BY <1>2 DEF ClientSocket
  <2>2. /\ inactive' = inactive \ {r} /\ open' = open \cup ({r} \cap Descriptors)
        /\ UNCHANGED <<listening, leaked, gone, failing>> /\ r \notin leaked
    BY <1>a, <2>1 DEF Open, Free, Active, OwnInv, TypeOK, SocketsTypeOK
  <2>3. failing' \subseteq Conns' \cap gone'
    BY <1>a, <1>b, <1>v, <1>2, <2>1, <2>2 DEF ClientSocket, HandlesInv
  <2>4. StatusTrue'
    BY <2>2
  <2>5. QED BY <2>3, <2>4
<1>3. CASE ClientTimeout
  BY <1>a, <1>b, <1>3, <1>v DEF ClientTimeout, Command, Named, HandlesInv, OwnersInv,
     Serving, Setting, ServerRests, Sent
<1>4. CASE ClientUndo
  BY <1>a, <1>b, <1>4, <1>v DEF ClientUndo, closesocket, Inactive, Named, Undone,
     HandlesInv, OwnersInv, Serving, Setting, ServerRests, Sent
<1>5. CASE ClientConnect
  BY <1>a, <1>b, <1>5, <1>v DEF ClientConnect, Command, Named, Count, Request,
     HandlesInv, OwnersInv, Serving, Setting, ServerRests, Sent
<1>6. CASE ClientSend
  BY <1>a, <1>b, <1>6, <1>v DEF ClientSend, send, SendResult, Refused, HandlesInv,
     OwnersInv, Serving, Setting, ServerRests, Sent
<1>7. CASE ClientRecv
  BY <1>a, <1>b, <1>7, <1>v DEF ClientRecv, Command, Named, HandlesInv, OwnersInv,
     Serving, Setting, ServerRests, Sent
<1>8. CASE ClientRecvEnds
  BY <1>a, <1>b, <1>8, <1>v DEF ClientRecvEnds, Command, Named, HandlesInv, OwnersInv,
     Serving, Setting, ServerRests, Sent
<1>9. CASE ClientClose
  BY <1>a, <1>b, <1>9, <1>v DEF ClientClose, closesocket, Inactive, Named, HandlesInv,
     OwnersInv, Serving, Setting, ServerRests, Sent
<1>10. QED BY <1>1, <1>2, <1>3, <1>4, <1>5, <1>6, <1>7, <1>8, <1>9 DEF ClientStep,
   ClientNext

\* The clock keeps its socket, and its mark once it has failed.
LEMMA NtpStatus == OwnInv /\ StatusInv /\ ~LateFailures /\ NtpStep => StatusInv'
<1> SUFFICES ASSUME OwnInv /\ StatusInv /\ ~LateFailures, NtpStep PROVE StatusInv'
  OBVIOUS
<1>a. /\ Descriptors \subseteq Nat /\ -1 \notin Descriptors /\ -2 \notin Descriptors
  BY SocketsAssumption
<1>b. /\ open \subseteq Descriptors /\ listening \subseteq open /\ gone \subseteq open
      /\ HandlesInv /\ OwnersInv /\ ~stray /\ slTransmitDataError \in {0, 199} /\ missed \in Nat
      /\ server \in ServerRests \cup Setting \cup Serving
  BY DEF OwnInv, TypeOK, SocketsTypeOK, ServerTypes, NoStray, StatusBytes, Setting, Serving
<1> USE DEF StatusInv, StatusTrue, Conns, server_vars, client_vars, ntp_vars, EFAIL,
   SOC_IN_PROGRESS
<1>v. UNCHANGED <<server_vars, client_vars>>
  BY DEF NtpStep
<1>1. CASE NtpResolve
  BY <1>a, <1>b, <1>1, <1>v DEF NtpResolve, sockets, HandlesInv, OwnersInv, Serving,
     Setting, ServerRests, Sent
<1>2. CASE NtpSocket
  <2>1. PICK r \in Descriptors \cup {EFAIL} : Open(r) /\ ntp_socket' = r
    BY <1>2 DEF NtpSocket
  <2>2. /\ inactive' = inactive \ {r} /\ open' = open \cup ({r} \cap Descriptors)
        /\ UNCHANGED <<listening, leaked, gone, failing>> /\ r \notin leaked
    BY <1>a, <2>1 DEF Open, Free, Active, OwnInv, TypeOK, SocketsTypeOK
  <2>3. failing' \subseteq Conns' \cap gone'
    BY <1>a, <1>b, <1>v, <1>2, <2>1, <2>2 DEF NtpSocket, HandlesInv
  <2>4. StatusTrue'
    BY <2>2
  <2>5. QED BY <2>3, <2>4
<1>3. CASE NtpTimeout
  BY <1>a, <1>b, <1>3, <1>v DEF NtpTimeout, Command, Named, HandlesInv, OwnersInv,
     Serving, Setting, ServerRests, Sent
<1>4. CASE NtpUndo
  BY <1>a, <1>b, <1>4, <1>v DEF NtpUndo, closesocket, Inactive, Named, HandlesInv,
     OwnersInv, Serving, Setting, ServerRests, Sent
<1>5. CASE NtpSend
  BY <1>a, <1>b, <1>5, <1>v DEF NtpSend, send, SendResult, Refused, HandlesInv,
     OwnersInv, Serving, Setting, ServerRests, Sent
<1>6. CASE NtpStart
  BY <1>a, <1>b, <1>6, <1>v DEF NtpStart, sockets, HandlesInv, OwnersInv, Serving,
     Setting, ServerRests, Sent
<1>7. CASE NtpWait
  BY <1>a, <1>b, <1>7, <1>v DEF NtpWait, sockets, HandlesInv, OwnersInv, Serving,
     Setting, ServerRests, Sent
<1>8. CASE NtpCheck
  BY <1>a, <1>b, <1>8, <1>v DEF NtpCheck, sockets, HandlesInv, OwnersInv, Serving,
     Setting, ServerRests, Sent
<1>9. CASE NtpRecv
  BY <1>a, <1>b, <1>9, <1>v DEF NtpRecv, Command, Named, HandlesInv, OwnersInv, Serving,
     Setting, ServerRests, Sent
<1>10. QED BY <1>1, <1>2, <1>3, <1>4, <1>5, <1>6, <1>7, <1>8, <1>9 DEF NtpStep, NtpNext

\* A failure marks the socket that failed: it cannot have been closed since.
LEMMA DeviceStatus == OwnInv /\ StatusInv /\ ~LateFailures /\ Device => StatusInv'
<1> SUFFICES ASSUME OwnInv /\ StatusInv /\ ~LateFailures, Device PROVE StatusInv'
  OBVIOUS
<1>a. /\ Descriptors \subseteq Nat /\ -1 \notin Descriptors /\ -2 \notin Descriptors
  BY SocketsAssumption
<1>b. /\ open \subseteq Descriptors /\ listening \subseteq open /\ gone \subseteq open
      /\ HandlesInv /\ OwnersInv /\ ~stray /\ slTransmitDataError \in {0, 199} /\ missed \in Nat
      /\ server \in ServerRests \cup Setting \cup Serving
  BY DEF OwnInv, TypeOK, SocketsTypeOK, ServerTypes, NoStray, StatusBytes, Setting, Serving
<1> USE DEF StatusInv, StatusTrue, Conns, server_vars, client_vars, ntp_vars, EFAIL,
   SOC_IN_PROGRESS
<1>1. CASE PeerLeaves /\ UNCHANGED <<server_vars, client_vars, ntp_vars>>
  BY <1>a, <1>b, <1>1 DEF PeerLeaves, HandlesInv, OwnersInv, Serving, Setting,
     ServerRests, Sent
<1>2. CASE Failure /\ UNCHANGED <<server_vars, client_vars, ntp_vars>>
  BY <1>a, <1>b, <1>2 DEF Failure, Completion, Inactive, HandlesInv, OwnersInv, Serving, Setting,
     ServerRests, Sent
<1>3. CASE ArpEvent /\ UNCHANGED <<server_vars, client_vars>>
  BY <1>a, <1>b, <1>3 DEF ArpEvent, sockets, HandlesInv, OwnersInv, Serving, Setting,
     ServerRests, Sent
<1>4. QED BY <1>1, <1>2, <1>3 DEF Device

\* Initially no failure is under way, and every step keeps the status.
LEMMA StatusHolds ==
    ASSUME ~LateFailures
    PROVE  (Init => StatusInv) /\ (OwnInv /\ StatusInv /\ [Next]_vars => StatusInv')
<1>1. Init => StatusInv
  BY DEF Init, SocketsInit, StatusInv, StatusTrue
<1>2. ASSUME OwnInv, StatusInv, [Next]_vars PROVE StatusInv'
  <2>1. CASE UNCHANGED vars
    BY <1>2, <2>1 DEF vars, sockets, server_vars, client_vars, ntp_vars, StatusInv, StatusTrue,
       Conns
  <2>2. QED BY <1>2, <2>1, ServerStatus, ClientStatus, NtpStatus, DeviceStatus DEF Next
<1>3. QED BY <1>1, <1>2

\* The host takes no socket in use for a dead one, whatever befell the connections that had
\* its descriptor before: a failure is reported before the socket that failed is closed.
THEOREM StatusRight == ASSUME ~LateFailures PROVE Spec => []StatusTrue
<1>1. StatusInv => StatusTrue
  BY DEF StatusInv
<1>2. QED BY <1>1, OwnedHolds, StatusHolds, PTL DEF Spec

-----------------------------------------------------------------------------
(* What the one error costs.                                                   *)

\* A send on a connection of a program is refused, with the peer there, for an error only,
\* which it uses up: the mark is never that of a connection whose peer is there.
LEMMA SendMissed ==
    ASSUME NEW sd \in Conns, OwnInv, StatusInv, MissedInv, send(sd)
    PROVE  MissedInv'
<1>1. slTransmitDataError \in {0, 199} /\ missed \in Nat /\ slTransmitDataError' = 0
  BY DEF OwnInv, TypeOK, SocketsTypeOK, StatusBytes, send
<1>2. CASE Refused(sd) /\ sd \in open \ gone
  <2>1. sd \in Descriptors /\ sd \notin listening
    BY <1>2, SocketsAssumption DEF OwnInv, TypeOK, SocketsTypeOK, HandlesInv, OwnersInv, Conns, Setting
  <2>2. sd \notin inactive
    BY <1>2, <2>1 DEF StatusInv, StatusTrue
  <2>3. slTransmitDataError # 0
    BY <1>2, <2>1, <2>2 DEF Refused, SendResult, Sent
  <2>4. missed' = missed + 1
    BY <1>2 DEF send
  <2>5. QED BY <1>1, <2>3, <2>4 DEF MissedInv
<1>3. CASE ~(Refused(sd) /\ sd \in open \ gone)
  <2>1. missed' = missed
    BY <1>3 DEF send
  <2>2. QED BY <1>1, <2>1 DEF MissedInv
<1>4. QED BY <1>2, <1>3

\* Nothing else that a program does refuses a piece or changes the error.
LEMMA ProgramMissed ==
    ASSUME OwnInv, StatusInv, MissedInv, ServerStep \/ ClientStep \/ NtpStep
    PROVE  MissedInv'
<1> USE DEF sockets, Open, closesocket, Command, listen, accept
<1>1. CASE ServerStep
  <2>1. CASE ServerRespond
    BY <2>1, SendMissed DEF ServerRespond, Conns
  <2>2. CASE ~ServerRespond
    BY <1>1, <2>2 DEF ServerStep, ServerNext, ServerSocket, ServerSetup, ServerUndo, ServerStop,
       ServerAccept, ServerTimeout, ServerDrop, ServerRead, ServerParsed, MissedInv
  <2>3. QED BY <2>1, <2>2
<1>2. CASE ClientStep
  <2>1. CASE ClientSend
    BY <2>1, SendMissed DEF ClientSend, Conns
  <2>2. CASE ~ClientSend
    BY <1>2, <2>2 DEF ClientStep, ClientNext, ClientResolve, ClientSocket, ClientTimeout,
       ClientUndo, ClientConnect, ClientRecv, ClientRecvEnds, ClientClose, MissedInv
  <2>3. QED BY <2>1, <2>2
<1>3. CASE NtpStep
  <2>1. CASE NtpSend
    BY <2>1, SendMissed DEF NtpSend, Conns
  <2>2. CASE ~NtpSend
    BY <1>3, <2>2 DEF NtpStep, NtpNext, NtpResolve, NtpSocket, NtpTimeout, NtpUndo, NtpStart,
       NtpWait, NtpCheck, NtpRecv, MissedInv
  <2>3. QED BY <2>1, <2>2
<1>4. QED BY <1>1, <1>2, <1>3

\* A failure is one error, in the place of any that was there.
LEMMA DeviceMissed == MissedInv /\ Device => MissedInv'
<1> SUFFICES ASSUME MissedInv, Device PROVE MissedInv'
  OBVIOUS
<1>1. CASE Failure
  BY <1>1 DEF Failure, Completion, MissedInv
<1>2. CASE PeerLeaves \/ ArpEvent
  BY <1>2 DEF PeerLeaves, ArpEvent, sockets, MissedInv
<1>3. QED BY <1>1, <1>2 DEF Device

\* Initially there is no failure to be charged, and every step keeps the account.
LEMMA MissedHolds ==
    /\ Init => MissedInv
    /\ OwnInv /\ StatusInv /\ MissedInv /\ [Next]_vars => MissedInv'
<1>1. Init => MissedInv
  BY DEF Init, SocketsInit, MissedInv
<1>2. ASSUME OwnInv, StatusInv, MissedInv, [Next]_vars PROVE MissedInv'
  <2>1. CASE UNCHANGED vars
    BY <1>2, <2>1 DEF vars, sockets, MissedInv
  <2>2. QED BY <1>2, <2>1, ProgramMissed, DeviceMissed DEF Next
<1>3. QED BY <1>1, <1>2

\* A failed completion costs the connections whose peer is there at most one send, whichever
\* of the programs they are of and whatever is opened, closed and accepted meanwhile; and
\* nothing but a failed completion costs them one.
THEOREM ChargedOnce == ASSUME ~LateFailures PROVE Spec => []OnePerFailure
<1>1. OwnInv /\ MissedInv => OnePerFailure
  BY DEF OwnInv, TypeOK, SocketsTypeOK, MissedInv, OnePerFailure
<1>2. QED BY <1>1, OwnedHolds, StatusHolds, MissedHolds, PTL DEF Spec
=============================================================================
