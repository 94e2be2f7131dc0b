---------------------------- MODULE HciCommands ----------------------------
(***************************************************************************)
(* A command of the API: what its function writes into the transmit buffer,  *)
(* the event it waits for, and what it takes out of the answer.              *)
(*                                                                         *)
(* An argument is the number of bytes it takes. An argument that points to   *)
(* another one holds the distance from its own place to the other's (off, to):*)
(* the contents of names, keys and addresses play no part.                   *)
(***************************************************************************)
EXTENDS Integers, Sequences, SequencesExt, Opcodes

\* Layout of the transmit buffer.
SPI_HEADER_SIZE == 5
HEADERS_SIZE_CMD == SPI_HEADER_SIZE + 4        \* type, opcode, length of the arguments
HEADERS_SIZE_DATA == SPI_HEADER_SIZE + 5
CC3000_TX_BUFFER_SIZE == 130 + 80 + 1          \* the last byte detects an overrun

Bytes(n) == [size |-> n, off |-> 0, to |-> 0]
UINT32_TO_STREAM == Bytes(4)
UINT16_TO_STREAM == Bytes(2)
ARRAY_TO_STREAM(n) == Bytes(n)
PointsTo(off, to) == [size |-> 4, off |-> off, to |-> to]
Words(n) == [i \in 1..n |-> UINT32_TO_STREAM]

\* The bytes that the first n arguments take; an argument's place is behind those in front.
Before(args) ==
    LET before[n \in 0..Len(args)] == IF n = 0 THEN 0 ELSE before[n - 1] + args[n].size
    IN before
Width(args) == Before(args)[Len(args)]
Place(args, i) == Before(args)[i - 1]

\* A call: the command, the event awaited, its arguments, the length given to
\* hci_command_send, the bytes of payload that follow, the size of the object the
\* answer is decoded into, and what the function takes out of that object:
\* <<place in the object, bytes, place in the event>>. "fails" is how a failure
\* reported by the device reaches the caller.
Command(op, ev, args, len, obj, takes, fails) ==
    [op |-> op, ev |-> ev, args |-> args, len |-> len, payload |-> 0, data |-> FALSE,
     obj |-> obj, takes |-> takes, fails |-> fails]

\* The status in front of the parameters, and the parameters of an event.
Status == HCI_EVENT_STATUS_OFFSET
Param(n) == HCI_EVENT_HEADER_SIZE + n

\* Functions that return the first four bytes of the answer, or the status byte.
Result32(op, ev, args, len) == Command(op, ev, args, len, 4, {<<0, 4, Param(0)>>}, "INT32")
Result8(op, ev, args, len)  == Command(op, ev, args, len, 1, {<<0, 1, Status>>}, "INT8")
ResultU8(op, ev, args, len) == Command(op, ev, args, len, 1, {<<0, 1, Status>>}, "UINT8")
=============================================================================
