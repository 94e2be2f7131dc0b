------------------------------ MODULE HciPatch ------------------------------
(***************************************************************************)
(* hci_patch_send: a patch goes to the device in portions, from one buffer      *)
(* whose first bytes SpiWrite takes for its own header.                        *)
(***************************************************************************)
EXTENDS Integers, SequencesExt

CONSTANTS
    SL_PATCH_PORTION_SIZE,  \* 1000 in the code
    PatchLengths            \* of the patches sent

ASSUME HciPatchAssumption ==
    SL_PATCH_PORTION_SIZE \in Nat \ {0} /\ PatchLengths \subseteq Nat

VARIABLES
    hci,                    \* "off", "first", "later", "done"
    patchLength, usDataLength,
    pucBuff,                \* the buffer: a function from places to contents
    received                \* by the device, what followed the header of each SpiWrite

hci_vars == <<hci, patchLength, usDataLength, pucBuff, received>>

SPI_HEADER == 5
PATCH_HEADER == 2           \* SIMPLE_LINK_HCI_PATCH_HEADER_SIZE
HCI_PATCH_HEADER == 6

-----------------------------------------------------------------------------
\* Contents: byte i of the patch, and fields of headers with their values.
Byte(i) == <<"patch", i>>
Field(name, value) == <<name, value>>

\* What is put into the buffer, from a place on.
Put(buf, at, s) ==
    [i \in DOMAIN buf |-> IF i \in at..(at + Len(s) - 1) THEN s[i - at + 1] ELSE buf[i]]
Patch(from, n) == [i \in 1..n |-> Byte(from + i - 1)]

\* SpiWrite, without the pad byte: the header, and length bytes behind it.
SpiWrite(buf, at, length) ==
    LET framed == Put(buf, at, [i \in 1..SPI_HEADER |-> Field("spi", 0)])
    IN /\ pucBuff' = framed
       /\ received' = Append(received, [i \in 1..length |-> framed[at + SPI_HEADER + i - 1]])

\* The first portion, with the header of the patch; the two bytes of a field hold the
\* same here. Variant: the data comes behind the shorter header.
Shorter == SPI_HEADER + PATCH_HEADER
DataPlace == SPI_HEADER + HCI_PATCH_HEADER

First ==
    /\ hci = "first"
    /\ LET n == IF usDataLength <= SL_PATCH_PORTION_SIZE THEN usDataLength
                ELSE SL_PATCH_PORTION_SIZE
           header == <<Field("type", 0), Field("opcode", 0),
                       Field("length", usDataLength + PATCH_HEADER),
                       Field("length", usDataLength + PATCH_HEADER),
                       Field("portion", n), Field("portion", n)>>
       IN /\ SpiWrite(Put(Put(pucBuff, SPI_HEADER, header), DataPlace, Patch(0, n)),
                      0, n + HCI_PATCH_HEADER)
          /\ usDataLength' = usDataLength - n
    /\ hci' = IF usDataLength' = 0 THEN "done" ELSE "later"
    /\ UNCHANGED patchLength

\* data_ptr is where the first portion had its header, and SpiWrite puts its own there.
Later ==
    /\ hci = "later"
    /\ LET n == IF usDataLength <= SL_PATCH_PORTION_SIZE THEN usDataLength
                ELSE SL_PATCH_PORTION_SIZE
           length == <<Field("portion", n), Field("portion", n)>>
       IN /\ SpiWrite(Put(Put(pucBuff, SPI_HEADER, length), SPI_HEADER + PATCH_HEADER,
                          Patch(patchLength - usDataLength, n)),
                      SPI_HEADER, n + PATCH_HEADER)
          /\ usDataLength' = usDataLength - n
    /\ hci' = IF usDataLength' = 0 THEN "done" ELSE "later"
    /\ UNCHANGED patchLength

-----------------------------------------------------------------------------
\* A buffer of the size that is needed; the library's transmit buffer holds 200 bytes of
\* a patch, and its own sketches send empty ones.
HciInit(on) ==
    IF on
    THEN /\ hci = "first"
         /\ patchLength \in PatchLengths /\ usDataLength = patchLength
         /\ pucBuff = [i \in 0..(2 * SPI_HEADER + HCI_PATCH_HEADER + SL_PATCH_PORTION_SIZE)
                         |-> Field("stale", 0)]
         /\ received = <<>>
    ELSE hci = "off" /\ patchLength = 0 /\ usDataLength = 0 /\ pucBuff = <<>> /\ received = <<>>

HciNext == First \/ Later

-----------------------------------------------------------------------------
\* The device takes what the headers tell it to.
Data(i) ==
    LET p == received[i]
        header == IF i = 1 THEN HCI_PATCH_HEADER ELSE PATCH_HEADER
    IN SubSeq(p, header + 1, Len(p))
Announced(i) == received[i][IF i = 1 THEN 5 ELSE 1] = Field("portion", Len(Data(i)))

\* Portion i of the patch
Expected(i) ==
    LET from == (i - 1) * SL_PATCH_PORTION_SIZE
    IN Patch(from, IF patchLength - from <= SL_PATCH_PORTION_SIZE THEN patchLength - from
                   ELSE SL_PATCH_PORTION_SIZE)
ArrivesWhole ==
    /\ \A i \in DOMAIN received : Announced(i) /\ Data(i) = Expected(i)
    /\ patchLength <= Len(received) * SL_PATCH_PORTION_SIZE

\* A patch of one portion arrives as it is, with its lengths; one of more does not: the
\* lengths of its later portions and their first bytes are gone.
PatchArrives == hci = "done" => (patchLength <= SL_PATCH_PORTION_SIZE <=> ArrivesWhole)
=============================================================================
