---------------------------- MODULE Units_proofs ----------------------------
(***************************************************************************)
(* The units of the library, for every value of their constants: the portions  *)
(* of a patch that nvmem_write_patch writes, those of the one hci_patch_send    *)
(* sends, the key that wlan_smart_config_process adds, what                     *)
(* WebServer_process_request takes of a request, the date NTP_get_time makes of *)
(* a timestamp, and the block that aes_decrypt makes of an encrypted one.       *)
(***************************************************************************)
EXTENDS NtpCalendar, NvmemPatch, HciPatch, Aes, SmartConfigKey, RequestParser,
        SequenceTheorems, WellFoundedInduction, TLAPS

-----------------------------------------------------------------------------
\* nvmem_write_patch: a patch is written whole or not at all, for every length, portion
\* and outcome of nvmem_write that the assumption allows.

Upto(n) == {<<i, i>> : i \in 0..(n - 1)}

PatchTypeOK ==
    /\ nvmem \in {"write", "done"}
    /\ spTotal \in 0..Offsets /\ spLength \in 0..spTotal
    /\ offset \in Int /\ status \in 0..255

\* While no portion has failed, what is gone of the patch is at its place in the file,
\* and the offset says where the rest goes, unless there is none: then it may have wrapped.
SoFar ==
    status = 0 =>
        /\ file = Upto(spTotal - spLength)
        /\ nvmem = "write" /\ spLength > 0 => offset = spTotal - spLength
        /\ nvmem = "done" => spLength = 0

PatchInv == PatchTypeOK /\ SoFar

-----------------------------------------------------------------------------
\* The offset does not wrap below its width.
LEMMA NoWrap ==
    ASSUME NEW n \in Nat \ {0}, NEW x \in 0..(n - 1)
    PROVE  x % n = x
  BY SMT

\* A portion written at its place extends what there is.
LEMMA Extended ==
    ASSUME NEW from \in Nat, NEW length \in Nat
    PROVE  Upto(from) \cup {<<from + k, from + k>> : k \in 0..(length - 1)} = Upto(from + length)
  <1> DEFINE more == {<<from + k, from + k>> : k \in 0..(length - 1)}
  <1>1. ASSUME NEW p \in Upto(from) \cup more PROVE p \in Upto(from + length)
    <2>1. CASE p \in Upto(from)
      BY <2>1 DEF Upto
    <2>2. CASE p \in more
      <3>1. PICK k \in 0..(length - 1) : p = <<from + k, from + k>>
        BY <2>2
      <3>2. from + k \in 0..(from + length - 1)
        OBVIOUS
      <3> QED BY <3>1, <3>2 DEF Upto
    <2> QED BY <1>1, <2>1, <2>2
  <1>2. ASSUME NEW p \in Upto(from + length) PROVE p \in Upto(from) \cup more
    <2>1. PICK i \in 0..(from + length - 1) : p = <<i, i>>
      BY <1>2 DEF Upto
    <2>2. CASE i < from
      BY <2>1, <2>2 DEF Upto
    <2>3. CASE i >= from
      <3>1. i - from \in 0..(length - 1) /\ from + (i - from) = i
        BY <2>3
      <3>2. p = <<from + (i - from), from + (i - from)>>
        BY <2>1, <3>1
      <3> HIDE DEF more
      <3>3. p \in more
        BY <3>1, <3>2 DEF more
      <3> QED BY <3>3
    <2> QED BY <2>2, <2>3
  <1> QED BY <1>1, <1>2

\* nvmem_write reports success in the status exactly if it has written.
LEMMA StatusTells ==
    ASSUME NEW r \in WriteResults
    PROVE  r % 256 \in 0..255 /\ (r % 256 = 0 => r = 0)
  BY NvmemPatchAssumption

-----------------------------------------------------------------------------
LEMMA PatchInitInv == PatchInit => PatchInv
  <1> SUFFICES ASSUME PatchInit PROVE PatchInv
    OBVIOUS
  <1> USE DEF PatchInit
  <1>1. PatchTypeOK
    BY NvmemPatchAssumption DEF PatchTypeOK
  <1>2. Upto(0) = {}
    BY DEF Upto
  <1>3. SoFar
    BY <1>1, <1>2 DEF SoFar, PatchTypeOK
  <1> QED BY <1>1, <1>3 DEF PatchInv

\* What nvmem_write does in a state of the invariant in which no portion has failed.
LEMMA WrittenExtends ==
    ASSUME PatchInv, status = 0, spLength > 0, nvmem = "write",
           NEW length \in Nat, NEW r \in WriteResults, r % 256 = 0
    PROVE  Written(length, r) = Upto(spTotal - spLength + length)
  <1>1. r = 0
    BY StatusTells
  <1>2. offset = spTotal - spLength /\ offset \in Nat /\ file = Upto(offset)
    BY DEF PatchInv, PatchTypeOK, SoFar
  <1>3. Written(length, r)
          = file \cup {<<offset + k, offset + k>> : k \in 0..(length - 1)}
    BY <1>1, <1>2 DEF Written
  <1> QED BY <1>2, <1>3, Extended

LEMMA PortionInv == PatchInv /\ Portion => PatchInv'
  <1> SUFFICES ASSUME PatchInv, Portion PROVE PatchInv'
    OBVIOUS
  <1> USE NvmemPatchAssumption
  <1>1. PICK r \in WriteResults :
          status' = r % 256 /\ file' = Written(SP_PORTION_SIZE, r)
    BY DEF Portion
  <1>2. /\ nvmem = "write" /\ status = 0 /\ spLength >= SP_PORTION_SIZE
        /\ offset' = NextOffset /\ spLength' = spLength - SP_PORTION_SIZE
        /\ nvmem' = nvmem /\ spTotal' = spTotal
    BY DEF Portion
  <1>3. /\ spTotal \in 0..Offsets /\ spLength \in 0..spTotal /\ spLength > 0
        /\ offset = spTotal - spLength
    BY <1>2 DEF PatchInv, PatchTypeOK, SoFar
  <1>4. spLength' \in 0..spTotal' /\ spTotal' \in 0..Offsets
    BY <1>2, <1>3
  <1>5. spLength' > 0 => offset' = spTotal' - spLength'
    <2> SUFFICES ASSUME spLength' > 0 PROVE offset' = spTotal' - spLength'
      OBVIOUS
    <2>1. offset + SP_PORTION_SIZE \in 0..(Offsets - 1)
      BY <1>2, <1>3
    <2>2. offset' = offset + SP_PORTION_SIZE
      BY <1>2, <2>1, NoWrap DEF NextOffset
    <2> QED BY <1>2, <1>3, <2>2
  <1>6. offset' \in Int
    <2>1. offset + SP_PORTION_SIZE \in Int
      BY <1>3
    <2> QED BY <1>2, <2>1 DEF NextOffset
  <1>7. PatchTypeOK'
    BY <1>1, <1>2, <1>4, <1>6, StatusTells DEF PatchTypeOK
  <1>8. status' = 0 => file' = Upto(spTotal' - spLength')
    <2> SUFFICES ASSUME status' = 0 PROVE file' = Upto(spTotal' - spLength')
      OBVIOUS
    <2>1. file' = Upto(spTotal - spLength + SP_PORTION_SIZE)
      BY <1>1, <1>2, <1>3, WrittenExtends
    <2>2. spTotal - spLength + SP_PORTION_SIZE = spTotal' - spLength'
      BY <1>2, <1>3
    <2> QED BY <2>1, <2>2
  <1>9. SoFar'
    BY <1>2, <1>5, <1>8 DEF SoFar
  <1> QED BY <1>7, <1>9 DEF PatchInv

LEMMA RestInv == PatchInv /\ Rest => PatchInv'
  <1> SUFFICES ASSUME PatchInv, Rest PROVE PatchInv'
    OBVIOUS
  <1> USE NvmemPatchAssumption
  <1>1. nvmem = "write" /\ nvmem' = "done" /\ spTotal' = spTotal /\ offset' = offset
    BY DEF Rest
  <1>2. CASE /\ status = 0 /\ spLength # 0 /\ spLength' = 0
             /\ \E r \in WriteResults : status' = r % 256 /\ file' = Written(spLength, r)
    <2>1. PICK r \in WriteResults : status' = r % 256 /\ file' = Written(spLength, r)
      BY <1>2
    <2>2. PatchTypeOK'
      BY <1>1, <1>2, <2>1, StatusTells DEF PatchInv, PatchTypeOK
    <2>3. status' = 0 => file' = Upto(spTotal' - spLength')
      <3> SUFFICES ASSUME status' = 0 PROVE file' = Upto(spTotal' - spLength')
        OBVIOUS
      <3>1. spLength \in Nat /\ spLength > 0 /\ spTotal \in Nat
        BY <1>2 DEF PatchInv, PatchTypeOK
      <3>2. file' = Upto(spTotal - spLength + spLength)
        BY <1>1, <1>2, <2>1, <3>1, WrittenExtends
      <3>3. spTotal - spLength + spLength = spTotal' - spLength'
        BY <1>1, <1>2, <3>1
      <3> QED BY <3>2, <3>3
    <2> QED BY <1>1, <1>2, <2>2, <2>3 DEF PatchInv, SoFar
  <1>3. CASE (status # 0 \/ spLength = 0) /\ UNCHANGED <<status, file, spLength>>
    BY <1>1, <1>3 DEF PatchInv, PatchTypeOK, SoFar
  <1> QED BY <1>2, <1>3 DEF Rest

LEMMA PatchStepInv == PatchInv /\ [PatchNext]_nvmem_vars => PatchInv'
  <1> SUFFICES ASSUME PatchInv, [PatchNext]_nvmem_vars PROVE PatchInv'
    OBVIOUS
  <1>1. CASE Portion
    BY <1>1, PortionInv
  <1>2. CASE Rest
    BY <1>2, RestInv
  <1>3. CASE UNCHANGED nvmem_vars
    BY <1>3 DEF nvmem_vars, PatchInv, PatchTypeOK, SoFar
  <1> QED BY <1>1, <1>2, <1>3 DEF PatchNext

LEMMA PatchInvWritten == PatchInv => PatchWritten
  <1> SUFFICES ASSUME PatchInv, nvmem = "done", status = 0
               PROVE  file = {<<i, i>> : i \in 0..(spTotal - 1)}
    BY DEF PatchWritten
  <1>1. file = Upto(spTotal - spLength) /\ spLength = 0 /\ spTotal \in Nat
    BY NvmemPatchAssumption DEF PatchInv, PatchTypeOK, SoFar
  <1>2. spTotal - spLength = spTotal
    BY <1>1
  <1> QED BY <1>1, <1>2 DEF Upto

\* nvmem_write_patch says that a patch is written only if all of it is, each byte at its
\* place: whatever the length up to the width of the offset, and whichever portion fails.
THEOREM PatchWhole == PatchSpec => []PatchWritten
  <1>1. PatchSpec => []PatchInv
    BY PatchInitInv, PatchStepInv, PTL DEF PatchSpec
  <1> QED BY <1>1, PatchInvWritten, PTL

-----------------------------------------------------------------------------
\* hci_patch_send

\* The variables of hci_patch_send for a patch of one of the lengths
HciSpec == HciInit(TRUE) /\ [][HciNext]_hci_vars

LastPlace == 2 * SPI_HEADER + HCI_PATCH_HEADER + SL_PATCH_PORTION_SIZE
Contents == {"spi", "stale", "patch", "type", "opcode", "length", "portion"} \X Int

\* The second portion has another first byte than its own.
SecondBroken == Len(received) >= 2 /\ Data(2)[1] # Byte(SL_PATCH_PORTION_SIZE)

\* What SpiWrite leaves of the first portion behind the header of the second.
Behind == pucBuff[SPI_HEADER + HCI_PATCH_HEADER + 1]
HciTypeOK ==
    /\ hci \in {"first", "later", "done"}
    /\ patchLength \in Nat /\ usDataLength \in 0..patchLength
    /\ pucBuff \in [0..LastPlace -> Contents] /\ received \in Seq(Seq(Contents))
Sending ==
    /\ hci = "first" =>
         /\ usDataLength = patchLength /\ received = <<>>
         /\ pucBuff = [i \in 0..LastPlace |-> Field("stale", 0)]
    /\ hci = "later" =>
         /\ patchLength > SL_PATCH_PORTION_SIZE /\ usDataLength > 0
         /\ \/ /\ Len(received) = 1 /\ usDataLength = patchLength - SL_PATCH_PORTION_SIZE
               /\ Behind = IF SL_PATCH_PORTION_SIZE > 1 THEN Byte(1) ELSE Field("stale", 0)
            \/ SecondBroken
    /\ hci = "done" =>
         \/ patchLength <= SL_PATCH_PORTION_SIZE /\ ArrivesWhole
         \/ patchLength > SL_PATCH_PORTION_SIZE /\ SecondBroken
HciInv == HciTypeOK /\ Sending

-----------------------------------------------------------------------------
LEMMA PatchBytes ==
    ASSUME NEW from \in Nat, NEW n \in Nat
    PROVE  /\ Patch(from, n) \in Seq(Contents) /\ Len(Patch(from, n)) = n
           /\ \A i \in 1..n : Patch(from, n)[i] = Byte(from + i - 1)
<1> DEFINE s == Patch(from, n)
<1>1. \A i \in 1..n : Byte(from + i - 1) \in Contents
  BY DEF Byte, Contents
<1>2. s \in [1..n -> Contents]
  BY <1>1 DEF Patch
<1>3. s \in Seq(Contents)
  BY <1>2, SeqDef
<1>4. DOMAIN s = 1..n /\ DOMAIN s = 1..Len(s) /\ Len(s) \in Nat
  BY <1>2, <1>3, LenProperties
<1>5. Len(s) = n
  BY <1>4
<1> QED
  BY <1>3, <1>5 DEF Patch

\* Putting a sequence into the buffer keeps the buffer's type.
LEMMA PutType ==
    ASSUME NEW buf \in [0..LastPlace -> Contents], NEW at \in Nat, NEW s \in Seq(Contents)
    PROVE  /\ Put(buf, at, s) \in [0..LastPlace -> Contents]
           /\ \A i \in 0..LastPlace : Put(buf, at, s)[i] =
                IF at <= i /\ i < at + Len(s) THEN s[i - at + 1] ELSE buf[i]
<1> DEFINE p == Put(buf, at, s)
<1>1. Len(s) \in Nat /\ \A i \in 1..Len(s) : s[i] \in Contents
  BY LenProperties, ElementOfSeq
<1>2. p = [i \in 0..LastPlace |-> IF i \in at..(at + Len(s) - 1) THEN s[i - at + 1] ELSE buf[i]]
  BY DEF Put
<1>3. SL_PATCH_PORTION_SIZE \in Nat /\ LastPlace \in Nat
  BY HciPatchAssumption DEF LastPlace, SPI_HEADER, HCI_PATCH_HEADER
<1> DEFINE n == Len(s)
<1> HIDE DEF n
<1>4. ASSUME NEW i \in 0..LastPlace PROVE i \in at..(at + n - 1) <=> at <= i /\ i < at + n
  BY <1>1, <1>3 DEF n
<1>5. ASSUME NEW i \in 0..LastPlace, at <= i, i < at + n PROVE s[i - at + 1] \in Contents
  <2>1. i - at + 1 \in 1..n
    BY <1>1, <1>3, <1>5 DEF n
  <2> QED
    BY <1>1, <2>1 DEF n
<1> HIDE DEF p
<1>6. \A i \in 0..LastPlace : p[i] = IF at <= i /\ i < at + n THEN s[i - at + 1] ELSE buf[i]
  BY <1>2, <1>4 DEF n
<1>7. \A i \in 0..LastPlace : p[i] \in Contents
  BY <1>5, <1>6
<1>8. p \in [0..LastPlace -> Contents]
  BY <1>2, <1>7
<1> QED
  BY <1>6, <1>8 DEF p, n

\* What SpiWrite sends from a place on: the buffer behind its header.
LEMMA SpiWriteSends ==
    ASSUME NEW buf \in [0..LastPlace -> Contents], NEW at \in Nat, NEW length \in Nat,
           at + SPI_HEADER + length <= LastPlace + 1,
           received \in Seq(Seq(Contents)), SpiWrite(buf, at, length)
    PROVE  /\ pucBuff' \in [0..LastPlace -> Contents] /\ received' \in Seq(Seq(Contents))
           /\ \A i \in 0..LastPlace : ~(at <= i /\ i < at + SPI_HEADER) => pucBuff'[i] = buf[i]
           /\ \E p \in Seq(Contents) :
                /\ Len(p) = length /\ received' = Append(received, p)
                /\ \A i \in 1..length : p[i] = buf[at + SPI_HEADER + i - 1]
<1> DEFINE header == [i \in 1..SPI_HEADER |-> Field("spi", 0)]
           framed == Put(buf, at, header)
           p == [i \in 1..length |-> framed[at + SPI_HEADER + i - 1]]
<1>1. header \in Seq(Contents) /\ Len(header) = SPI_HEADER
  <2>1. header \in [1..SPI_HEADER -> Contents] /\ SPI_HEADER \in Nat
    BY DEF Field, Contents, SPI_HEADER
  <2>2. header \in Seq(Contents)
    BY <2>1, SeqDef
  <2>3. 1..Len(header) = 1..SPI_HEADER /\ Len(header) \in Nat
    BY <2>1, <2>2, LenProperties
  <2> QED
    BY <2>1, <2>2, <2>3
<1>2. pucBuff' = framed /\ received' = Append(received, p)
  BY DEF SpiWrite
<1> HIDE DEF header
<1>3. /\ framed \in [0..LastPlace -> Contents]
      /\ \A i \in 0..LastPlace : framed[i] =
            IF at <= i /\ i < at + SPI_HEADER THEN header[i - at + 1] ELSE buf[i]
  <2>1. /\ framed \in [0..LastPlace -> Contents]
        /\ \A i \in 0..LastPlace : framed[i] =
              IF at <= i /\ i < at + Len(header) THEN header[i - at + 1] ELSE buf[i]
    BY <1>1, PutType
  <2> QED
    BY <1>1, <2>1
<1> HIDE DEF framed
<1>4. ASSUME NEW i \in 1..length
      PROVE  /\ at + SPI_HEADER + i - 1 \in 0..LastPlace
             /\ p[i] = buf[at + SPI_HEADER + i - 1] /\ p[i] \in Contents
  <2>1. SL_PATCH_PORTION_SIZE \in Nat /\ LastPlace \in Nat
    BY HciPatchAssumption DEF LastPlace, SPI_HEADER, HCI_PATCH_HEADER
  <2>2. at + SPI_HEADER + i - 1 \in 0..LastPlace /\ ~(at + SPI_HEADER + i - 1 < at + SPI_HEADER)
    BY <2>1 DEF SPI_HEADER
  <2> QED
    BY <1>3, <2>2
<1>5. p \in Seq(Contents) /\ Len(p) = length
  <2>1. p \in [1..length -> Contents]
    BY <1>4
  <2>2. p \in Seq(Contents)
    BY <2>1, SeqDef
  <2>3. 1..Len(p) = 1..length /\ Len(p) \in Nat
    BY <2>1, <2>2, LenProperties
  <2> QED
    BY <2>1, <2>2, <2>3
<1> HIDE DEF p
<1>6. received' \in Seq(Seq(Contents))
  BY <1>2, <1>5, AppendProperties
<1> QED
  BY <1>2, <1>3, <1>4, <1>5, <1>6

\* A portion goes behind its header.
PutBehind(b, buf, header, from, n, data) ==
    /\ b \in [0..LastPlace -> Contents]
    /\ \A i \in 0..LastPlace : b[i] =
         IF data <= i /\ i < data + n THEN Byte(from + i - data)
         ELSE IF SPI_HEADER <= i /\ i < data THEN header[i - SPI_HEADER + 1]
         ELSE buf[i]

LEMMA PortionPut ==
    ASSUME NEW buf \in [0..LastPlace -> Contents], NEW header \in Seq(Contents),
           NEW from \in Nat, NEW n \in 0..SL_PATCH_PORTION_SIZE,
           NEW data \in Nat, data = SPI_HEADER + Len(header),
           NEW b, b = Put(Put(buf, SPI_HEADER, header), data, Patch(from, n))
    PROVE  PutBehind(b, buf, header, from, n, data)
<1> DEFINE b1 == Put(buf, SPI_HEADER, header)
           s == Patch(from, n)
           b2 == Put(b1, data, s)
<1>b. b = b2
  OBVIOUS
<1>1. SL_PATCH_PORTION_SIZE \in Nat /\ n \in Nat /\ LastPlace \in Nat /\ SPI_HEADER \in Nat
  BY HciPatchAssumption DEF LastPlace, SPI_HEADER, HCI_PATCH_HEADER
<1>2. s \in Seq(Contents) /\ Len(s) = n /\ \A i \in 1..n : s[i] = Byte(from + i - 1)
  BY <1>1, PatchBytes
<1>3. /\ b1 \in [0..LastPlace -> Contents]
      /\ \A i \in 0..LastPlace : b1[i] =
           IF SPI_HEADER <= i /\ i < SPI_HEADER + Len(header) THEN header[i - SPI_HEADER + 1]
           ELSE buf[i]
  BY <1>1, PutType
<1> HIDE DEF s, b1
<1>4. /\ b2 \in [0..LastPlace -> Contents]
      /\ \A i \in 0..LastPlace : b2[i] =
           IF data <= i /\ i < data + Len(s) THEN s[i - data + 1] ELSE b1[i]
  BY <1>1, <1>2, <1>3, PutType
<1> HIDE DEF b2
<1>5. ASSUME NEW i \in 0..LastPlace
      PROVE  b2[i] = IF data <= i /\ i < data + n THEN Byte(from + i - data)
                     ELSE IF SPI_HEADER <= i /\ i < data THEN header[i - SPI_HEADER + 1]
                     ELSE buf[i]
  <2>1. CASE data <= i /\ i < data + n
    <3>1. b2[i] = s[i - data + 1] /\ i - data + 1 \in 1..n
          /\ from + (i - data + 1) - 1 = from + i - data
      BY <1>1, <1>2, <1>4, <2>1
    <3> QED
      BY <1>2, <2>1, <3>1
  <2>2. CASE ~(data <= i /\ i < data + n)
    <3>1. b2[i] = b1[i]
      BY <1>2, <1>4, <2>2
    <3> QED
      BY <1>3, <2>2, <3>1
  <2> QED
    BY <2>1, <2>2
<1> QED
  BY <1>4, <1>5, <1>b DEF PutBehind

LEMMA FirstStep ==
    ASSUME HciInv, First
    PROVE  HciInv'
<1> DEFINE P == SL_PATCH_PORTION_SIZE
           n == IF usDataLength <= P THEN usDataLength ELSE P
           length == Field("length", usDataLength + PATCH_HEADER)
           header == <<Field("type", 0), Field("opcode", 0), length, length,
                       Field("portion", n), Field("portion", n)>>
           data == SPI_HEADER + HCI_PATCH_HEADER
           b == Put(Put(pucBuff, SPI_HEADER, header), data, Patch(0, n))
<1>0. SPI_HEADER = 5 /\ data = 11 /\ HCI_PATCH_HEADER = 6 /\ PATCH_HEADER = 2
  BY DEF SPI_HEADER, HCI_PATCH_HEADER, PATCH_HEADER
<1>1. /\ SpiWrite(b, 0, n + HCI_PATCH_HEADER) /\ usDataLength' = usDataLength - n
      /\ hci' = IF usDataLength' = 0 THEN "done" ELSE "later"
      /\ patchLength' = patchLength
  BY DEF First, DataPlace
<1>2. /\ P \in Nat /\ P > 0 /\ patchLength \in Nat /\ usDataLength = patchLength
      /\ n \in Nat /\ n \in 0..P /\ n <= patchLength
      /\ received = <<>> /\ pucBuff = [i \in 0..LastPlace |-> Field("stale", 0)]
      /\ pucBuff \in [0..LastPlace -> Contents]
  BY HciPatchAssumption DEF HciInv, HciTypeOK, Sending, First
<1>3. header \in Seq(Contents) /\ Len(header) = 6 /\ header[5] = Field("portion", n)
  <2>1. /\ Field("type", 0) \in Contents /\ Field("opcode", 0) \in Contents
        /\ length \in Contents /\ Field("portion", n) \in Contents
    BY <1>0, <1>2 DEF Field, Contents
  <2> HIDE DEF length, n
  <2> QED
    BY <2>1
<1> HIDE DEF n, header, data
<1>4. /\ b \in [0..LastPlace -> Contents]
      /\ \A i \in 0..LastPlace : b[i] =
           IF 11 <= i /\ i < 11 + n THEN Byte(0 + i - 11)
           ELSE IF 5 <= i /\ i < 11 THEN header[i - 5 + 1] ELSE pucBuff[i]
  <2>1. data \in Nat /\ data = SPI_HEADER + Len(header)
    BY <1>0, <1>3
  <2> DEFINE from == 0
  <2>2. b = Put(Put(pucBuff, SPI_HEADER, header), data, Patch(from, n))
    OBVIOUS
  <2>3. /\ from \in Nat /\ from = 0 /\ SL_PATCH_PORTION_SIZE \in Nat /\ LastPlace \in Nat
        /\ SPI_HEADER \in Nat /\ n \in 0..SL_PATCH_PORTION_SIZE
        /\ pucBuff \in [0..LastPlace -> Contents] /\ header \in Seq(Contents)
    BY <1>0, <1>2, <1>3 DEF LastPlace
  <2> HIDE DEF b, P, from
  <2>4. /\ b \in [0..LastPlace -> Contents]
        /\ \A i \in 0..LastPlace : b[i] =
             IF data <= i /\ i < data + n THEN Byte(from + i - data)
             ELSE IF SPI_HEADER <= i /\ i < data THEN header[i - SPI_HEADER + 1] ELSE pucBuff[i]
    <3>1. PutBehind(b, pucBuff, header, from, n, data)
      BY <2>1, <2>2, <2>3, PortionPut
    <3> QED
      BY <3>1 DEF PutBehind
  <2> QED
    BY <1>0, <2>3, <2>4
<1> HIDE DEF b
<1> DEFINE m == n + HCI_PATCH_HEADER
<1>5. /\ received \in Seq(Seq(Contents)) /\ m \in Nat /\ m = n + 6
      /\ LastPlace \in Nat /\ LastPlace = 16 + P /\ 0 + SPI_HEADER + m <= LastPlace + 1
  BY <1>0, <1>2 DEF HciInv, HciTypeOK, LastPlace
<1>m. SpiWrite(b, 0, m)
  BY <1>1 DEF b, data
<1> HIDE DEF m
<1>6. PICK p \in Seq(Contents) :
        /\ pucBuff' \in [0..LastPlace -> Contents] /\ received' \in Seq(Seq(Contents))
        /\ \A i \in 0..LastPlace : ~(0 <= i /\ i < 0 + SPI_HEADER) => pucBuff'[i] = b[i]
        /\ Len(p) = m /\ received' = Append(received, p)
        /\ \A i \in 1..m : p[i] = b[0 + SPI_HEADER + i - 1]
  BY <1>4, <1>5, <1>m, SpiWriteSends
<1>7. Len(received') = 1 /\ received'[1] = p
  BY <1>2, <1>6
<1>8. HciTypeOK'
  BY <1>1, <1>2, <1>6 DEF HciTypeOK, LastPlace
<1>9. CASE patchLength <= P
  <2>1. n = patchLength /\ hci' = "done"
    BY <1>1, <1>2, <1>9 DEF n
  <2>2. /\ Data(1)' \in Seq(Contents) /\ Len(Data(1)') = n
        /\ \A i \in 1..n : Data(1)'[i] = p[i + 6]
    <3>1. Data(1)' = SubSeq(p, 7, m)
      BY <1>0, <1>6, <1>7 DEF Data
    <3>2. \A i \in 7..m : p[i] \in Contents
      <4>1. \A i \in 1..m : p[i] \in Contents
        BY <1>6, ElementOfSeq
      <4> QED
        BY <1>5, <4>1
    <3>3. 7 \in Int /\ m \in Int
      BY <1>5
    <3> DEFINE d == SubSeq(p, 7, m)
    <3>4. /\ d \in Seq(Contents) /\ Len(d) = IF 7 <= m THEN m - 7 + 1 ELSE 0
          /\ \A i \in 1..(m - 7 + 1) : d[i] = p[7 + i - 1]
      BY <3>2, <3>3, SubSeqProperties
    <3> HIDE DEF d
    <3>5. Len(d) = n
      BY <1>2, <1>5, <3>4
    <3>6. \A i \in 1..n : i \in 1..(m - 7 + 1) /\ 7 + i - 1 = i + 6
      BY <1>2, <1>5
    <3> QED
      BY <3>1, <3>4, <3>5, <3>6 DEF d
  <2>3. \A i \in 1..n : p[i + 6] = Byte(i - 1)
    <3> TAKE i \in 1..n
    <3>1. /\ i + 6 \in 1..m /\ 0 + SPI_HEADER + (i + 6) - 1 = i + 10
          /\ i + 10 \in 0..LastPlace /\ 11 <= i + 10 /\ i + 10 < 11 + n
          /\ 0 + (i + 10) - 11 = i - 1
      BY <1>0, <1>2, <1>5
    <3>2. p[i + 6] = b[i + 10]
      BY <1>0, <1>6, <3>1
    <3>3. b[i + 10] = Byte(0 + (i + 10) - 11)
      BY <1>4, <3>1
    <3> QED
      BY <3>1, <3>2, <3>3
  <2>4. Expected(1)' = Patch(0, n)
    <3>1. (1 - 1) * SL_PATCH_PORTION_SIZE = 0 /\ patchLength - 0 = n /\ n <= P
      BY <1>2, <2>1
    <3> QED
      BY <1>1, <3>1 DEF Expected
  <2>5. Data(1)' = Expected(1)'
    <3>1. /\ Patch(0, n) \in Seq(Contents) /\ Len(Patch(0, n)) = n
          /\ \A i \in 1..n : Patch(0, n)[i] = Byte(0 + i - 1)
      BY <1>2, PatchBytes
    <3>2. \A i \in 1..n : 0 + i - 1 = i - 1
      OBVIOUS
    <3>3. \A i \in 1..n : Data(1)'[i] = Patch(0, n)[i]
      BY <2>2, <2>3, <3>1, <3>2
    <3> QED
      BY <2>2, <2>4, <3>1, <3>3, SeqEqual
  <2>6. Announced(1)'
    <3>1. p[5] = Field("portion", n)
      <4>1. /\ 5 \in 1..m /\ 0 + SPI_HEADER + 5 - 1 = 9 /\ 9 \in 0..LastPlace
            /\ ~(11 <= 9) /\ 9 - 5 + 1 = 5
        BY <1>0, <1>2, <1>5
      <4>2. b[9] = header[5]
        BY <1>4, <4>1
      <4> QED
        BY <1>3, <1>6, <4>1, <4>2
    <3> QED
      BY <1>7, <2>2, <3>1 DEF Announced
  <2>7. ArrivesWhole'
    <3>1. DOMAIN received' = {1}
      BY <1>6, <1>7, LenProperties
    <3>2. patchLength' <= Len(received') * SL_PATCH_PORTION_SIZE
      BY <1>1, <1>2, <1>7, <1>9
    <3> QED
      BY <2>5, <2>6, <3>1, <3>2 DEF ArrivesWhole
  <2> QED
    BY <1>1, <1>8, <1>9, <2>1, <2>7 DEF HciInv, Sending
<1>10. CASE patchLength > P
  <2>1. n = P /\ hci' = "later" /\ usDataLength' = patchLength - P /\ usDataLength' > 0
    BY <1>1, <1>2, <1>10 DEF n
  <2>2. Behind' = IF P > 1 THEN Byte(1) ELSE Field("stale", 0)
    <3>0. Behind' = pucBuff'[12]
      BY <1>0 DEF Behind
    <3>1. 12 \in 0..LastPlace /\ ~(12 < 0 + SPI_HEADER) /\ ~(12 < 11) /\ 0 + 12 - 11 = 1
      BY <1>0, <1>2, <1>5
    <3>2. pucBuff'[12] = b[12]
      BY <1>6, <3>1
    <3>3. b[12] = IF 12 < 11 + n THEN Byte(1) ELSE pucBuff[12]
      BY <1>4, <3>1
    <3>4. pucBuff[12] = Field("stale", 0)
      BY <1>2, <3>1
    <3>5. 12 < 11 + n <=> P > 1
      BY <1>2, <2>1
    <3> QED
      BY <3>0, <3>2, <3>3, <3>4, <3>5
  <2> QED
    BY <1>1, <1>7, <1>8, <1>10, <2>1, <2>2 DEF HciInv, Sending
<1> QED
  BY <1>2, <1>9, <1>10

\* A later portion: the second arrives with another first byte, and stays as it arrived.
LEMMA LaterStep ==
    ASSUME HciInv, Later
    PROVE  HciInv'
<1> DEFINE P == SL_PATCH_PORTION_SIZE
           n == IF usDataLength <= P THEN usDataLength ELSE P
           from == patchLength - usDataLength
           header == <<Field("portion", n), Field("portion", n)>>
           data == SPI_HEADER + PATCH_HEADER
           b == Put(Put(pucBuff, SPI_HEADER, header), data, Patch(from, n))
           m == n + PATCH_HEADER
<1>1. /\ SpiWrite(b, SPI_HEADER, m) /\ usDataLength' = usDataLength - n
      /\ hci' = IF usDataLength' = 0 THEN "done" ELSE "later"
      /\ patchLength' = patchLength
  BY DEF Later
<1>2. /\ P \in Nat /\ P > 0 /\ patchLength \in Nat /\ usDataLength \in Nat
      /\ usDataLength <= patchLength /\ patchLength > P /\ usDataLength > 0
      /\ from \in Nat /\ n \in Nat /\ n \in 0..P /\ n > 0 /\ n <= usDataLength
      /\ pucBuff \in [0..LastPlace -> Contents] /\ received \in Seq(Seq(Contents))
  BY HciPatchAssumption DEF HciInv, HciTypeOK, Sending, Later
<1>3. header \in Seq(Contents) /\ Len(header) = 2
  <2>1. Field("portion", n) \in Contents
    BY <1>2 DEF Field, Contents
  <2> HIDE DEF n
  <2> QED
    BY <2>1
<1>4. /\ SPI_HEADER = 5 /\ data = 7 /\ m \in Nat /\ m = n + 2
      /\ LastPlace \in Nat /\ LastPlace = 16 + P /\ SL_PATCH_PORTION_SIZE \in Nat
      /\ data \in Nat /\ data = SPI_HEADER + Len(header)
      /\ SPI_HEADER + SPI_HEADER + m <= LastPlace + 1
  <2> HIDE DEF n, header
  <2> QED
    BY <1>2, <1>3 DEF SPI_HEADER, PATCH_HEADER, HCI_PATCH_HEADER, LastPlace
<1>5. b = Put(Put(pucBuff, SPI_HEADER, header), data, Patch(from, n))
  OBVIOUS
<1> HIDE DEF n, from, header, data, b, m
<1>6. /\ b \in [0..LastPlace -> Contents]
      /\ \A i \in 0..LastPlace : b[i] =
           IF data <= i /\ i < data + n THEN Byte(from + i - data)
           ELSE IF SPI_HEADER <= i /\ i < data THEN header[i - SPI_HEADER + 1] ELSE pucBuff[i]
  <2>1. /\ n \in 0..SL_PATCH_PORTION_SIZE /\ SL_PATCH_PORTION_SIZE \in Nat /\ from \in Nat
        /\ pucBuff \in [0..LastPlace -> Contents] /\ header \in Seq(Contents)
        /\ data \in Nat /\ data = SPI_HEADER + Len(header) /\ SPI_HEADER \in Nat
        /\ LastPlace \in Nat
    BY <1>2, <1>3, <1>4
  <2> HIDE DEF P
  <2>2. PutBehind(b, pucBuff, header, from, n, data)
    BY <1>5, <2>1, PortionPut
  <2> QED
    BY <2>2 DEF PutBehind
<1>7. PICK p \in Seq(Contents) :
        /\ pucBuff' \in [0..LastPlace -> Contents] /\ received' \in Seq(Seq(Contents))
        /\ Len(p) = m /\ received' = Append(received, p)
        /\ \A i \in 1..m : p[i] = b[SPI_HEADER + SPI_HEADER + i - 1]
  <2>1. /\ b \in [0..LastPlace -> Contents] /\ received \in Seq(Seq(Contents))
        /\ SPI_HEADER \in Nat /\ m \in Nat /\ LastPlace \in Nat
        /\ SPI_HEADER + SPI_HEADER + m <= LastPlace + 1 /\ SpiWrite(b, SPI_HEADER, m)
    BY <1>1, <1>2, <1>4, <1>6
  <2> HIDE DEF P
  <2> QED
    BY <2>1, SpiWriteSends
<1>8. HciTypeOK'
  <2>1. usDataLength' \in 0..patchLength
    BY <1>1, <1>2
  <2> QED
    BY <1>1, <1>2, <1>7, <2>1 DEF HciTypeOK, LastPlace
<1>9. /\ Len(received) \in Nat /\ Len(received') = Len(received) + 1
      /\ \A i \in 1..Len(received) : received'[i] = received[i]
      /\ received'[Len(received) + 1] = p
  BY <1>2, <1>7, AppendProperties, LenProperties
<1>10. SecondBroken'
  <2>1. CASE SecondBroken
    <3>1. Len(received) >= 2 /\ 2 \in 1..Len(received)
      BY <1>9, <2>1 DEF SecondBroken
    <3>2. received'[2] = received[2] /\ Len(received') >= 2
      BY <1>9, <3>1
    <3>3. Data(2)' = Data(2)
      BY <3>2 DEF Data
    <3> QED
      BY <2>1, <3>2, <3>3 DEF SecondBroken
  <2>2. CASE /\ Len(received) = 1 /\ usDataLength = patchLength - P
             /\ Behind = IF P > 1 THEN Byte(1) ELSE Field("stale", 0)
    <3>1. Len(received') = 2 /\ received'[2] = p
      BY <1>9, <2>2
    <3>2. from = P
      BY <1>2, <2>2 DEF from
    <3>3. Data(2)'[1] = p[3]
      <4>1. Data(2)' = SubSeq(p, 3, m)
        BY <1>7, <3>1 DEF Data, PATCH_HEADER
      <4>2. \A i \in 3..m : p[i] \in Contents
        <5>1. \A i \in 1..m : p[i] \in Contents
          BY <1>7, ElementOfSeq
        <5> QED
          BY <1>4, <5>1
      <4>3. 3 \in Int /\ m \in Int /\ 1 \in 1..(m - 3 + 1) /\ 3 + 1 - 1 = 3
        BY <1>2, <1>4
      <4> DEFINE d == SubSeq(p, 3, m)
      <4>4. \A i \in 1..(m - 3 + 1) : d[i] = p[3 + i - 1]
        BY <4>2, <4>3, SubSeqProperties
      <4> HIDE DEF d
      <4>5. d[1] = p[3]
        BY <4>3, <4>4
      <4> QED
        BY <4>1, <4>5 DEF d
    <3>4. p[3] = b[12]
      <4>1. 3 \in 1..m /\ SPI_HEADER + SPI_HEADER + 3 - 1 = 12
        BY <1>2, <1>4
      <4> QED
        BY <1>7, <4>1
    <3>5. b[12] # Byte(P)
      <4>1. 12 \in 0..LastPlace /\ data <= 12 /\ ~(12 < data)
        BY <1>2, <1>4
      <4>2. CASE 12 < data + n
        <5>1. b[12] = Byte(from + 12 - data)
          BY <1>6, <4>1, <4>2
        <5>2. from + 12 - data # P
          BY <1>2, <1>4, <3>2
        <5> QED
          BY <5>1, <5>2 DEF Byte
      <4>3. CASE ~(12 < data + n)
        <5>1. b[12] = pucBuff[12]
          BY <1>6, <4>1, <4>3
        <5>2. b[12] = Behind
          BY <5>1 DEF Behind, SPI_HEADER, HCI_PATCH_HEADER
        <5> QED
          BY <1>2, <2>2, <5>2 DEF Byte, Field
      <4> QED
        BY <4>2, <4>3
    <3> QED
      BY <3>1, <3>3, <3>4, <3>5 DEF SecondBroken
  <2> QED
    BY <2>1, <2>2 DEF HciInv, Sending, Later
<1>11. usDataLength' \in Nat /\ (usDataLength' # 0 => usDataLength' > 0)
  BY <1>1, <1>2
<1> QED
  BY <1>1, <1>2, <1>8, <1>10, <1>11 DEF HciInv, Sending

\* With a second portion that has another first byte, the patch has not arrived.
LEMMA NotWhole ==
    ASSUME HciTypeOK, SecondBroken, patchLength > SL_PATCH_PORTION_SIZE
    PROVE  ~ArrivesWhole
<1> DEFINE P == SL_PATCH_PORTION_SIZE
           k == IF patchLength - P <= P THEN patchLength - P ELSE P
<1>1. P \in Nat /\ P > 0 /\ patchLength \in Nat /\ k \in Nat /\ 1 \in 1..k /\ P + 1 - 1 = P
  BY HciPatchAssumption DEF HciTypeOK
<1>2. Expected(2) = Patch(P, k)
  <2>1. (2 - 1) * P = P
    BY <1>1
  <2> QED
    BY <2>1 DEF Expected
<1>3. Expected(2)[1] = Byte(P)
  <2> HIDE DEF k, P
  <2>1. \A i \in 1..k : Patch(P, k)[i] = Byte(P + i - 1)
    BY <1>1, PatchBytes
  <2> QED
    BY <1>1, <1>2, <2>1
<1>4. 2 \in DOMAIN received
  BY LenProperties DEF HciTypeOK, SecondBroken
<1> QED
  BY <1>3, <1>4 DEF ArrivesWhole, SecondBroken

\* hci_patch_send delivers a patch of one portion as it is, and loses the first bytes of
\* the second portion of every longer one.
THEOREM PatchCut == HciSpec => []PatchArrives
<1>1. HciInit(TRUE) => HciInv
  <2> SUFFICES ASSUME HciInit(TRUE) PROVE HciInv
    OBVIOUS
  <2>1. /\ hci = "first" /\ patchLength \in Nat /\ usDataLength = patchLength
        /\ pucBuff = [i \in 0..LastPlace |-> Field("stale", 0)] /\ received = <<>>
    BY HciPatchAssumption DEF HciInit, LastPlace
  <2>2. Field("stale", 0) \in Contents
    BY DEF Field, Contents
  <2>3. HciTypeOK
    BY <2>1, <2>2 DEF HciTypeOK
  <2> QED
    BY <2>1, <2>3 DEF HciInv, Sending
<1>2. HciInv /\ [HciNext]_hci_vars => HciInv'
  <2> SUFFICES ASSUME HciInv, [HciNext]_hci_vars PROVE HciInv'
    OBVIOUS
  <2>1. CASE First
    BY <2>1, FirstStep
  <2>2. CASE Later
    BY <2>2, LaterStep
  <2>3. CASE UNCHANGED hci_vars
    <3>1. HciTypeOK' /\ (Behind' = Behind) /\ (SecondBroken <=> SecondBroken')
          /\ (ArrivesWhole' <=> ArrivesWhole)
      BY <2>3 DEF HciInv, HciTypeOK, hci_vars, Behind, SecondBroken, Data, ArrivesWhole,
                  Announced, Expected
    <3> QED
      BY <2>3, <3>1 DEF HciInv, Sending, hci_vars
  <2> QED
    BY <2>1, <2>2, <2>3 DEF HciNext
<1>3. HciInv => PatchArrives
  <2> SUFFICES ASSUME HciInv, hci = "done"
               PROVE  patchLength <= SL_PATCH_PORTION_SIZE <=> ArrivesWhole
    BY DEF PatchArrives
  <2>1. patchLength \in Nat /\ SL_PATCH_PORTION_SIZE \in Nat
    BY HciPatchAssumption DEF HciInv, HciTypeOK
  <2>2. CASE patchLength <= SL_PATCH_PORTION_SIZE /\ ArrivesWhole
    BY <2>2
  <2>3. CASE patchLength > SL_PATCH_PORTION_SIZE /\ SecondBroken
    BY <2>1, <2>3, NotWhole DEF HciInv
  <2> QED
    BY <2>2, <2>3 DEF HciInv, Sending
<1> QED
  BY <1>1, <1>2, <1>3, PTL DEF HciSpec

-----------------------------------------------------------------------------
\* wlan_smart_config_process

\* The keys that can be told from their padding: bytes, and one that fills the two blocks
\* does not end in the byte that a shorter one leaves there.
KeysTold ==
    /\ \A k \in Keys : k \in Seq(0..255) /\ (Len(k) = 32 => k[32] # 0)
    /\ Leftover = 0

LEMMA KeyType ==
    ASSUME KeysTold, NEW key \in Keys
    PROVE  /\ key \in Seq(Nat) /\ Len(key) \in 0..32
           /\ Len(key) = 32 => key[1] # 31 /\ key[32] # 0
<1>1. key \in Seq(0..255)
  BY DEF KeysTold
<1>2. key \in Seq(Nat)
  <2>1. 0..255 \subseteq Nat
    OBVIOUS
  <2> QED
    BY <1>1, <2>1, SeqMonotonic
<1>3. Len(key) \in Nat /\ Len(key) <= 32
  BY <1>2, LenProperties, SmartConfigKeyAssumption
<1>4. Len(key) \in 0..32
  <2>1. \A n \in Nat : n <= 32 => n \in 0..32
    OBVIOUS
  <2> QED
    BY <1>3, <2>1
<1> QED
  BY <1>2, <1>4, SmartConfigKeyAssumption DEF KeysTold

\* A shorter key is stored behind its length.
LEMMA TextOf ==
    ASSUME NEW key \in Seq(Nat)
    PROVE  LET text == <<Len(key)>> \o key
           IN /\ text \in Seq(Nat) /\ Len(text) = Len(key) + 1 /\ text[1] = Len(key)
              /\ \A i \in 1..Len(key) : text[i + 1] = key[i]
<1>1. Len(key) \in Nat
  BY LenProperties
<1>2. <<Len(key)>> \in Seq(Nat) /\ Len(<<Len(key)>>) = 1 /\ <<Len(key)>>[1] = Len(key)
  BY <1>1
<1> DEFINE one == <<Len(key)>>
           text == one \o key
<1> HIDE DEF one
<1>3. /\ text \in Seq(Nat) /\ Len(text) = 1 + Len(key)
      /\ \A i \in 1..(1 + Len(key)) : text[i] = IF i <= 1 THEN one[i] ELSE key[i - 1]
  BY <1>1, <1>2, ConcatProperties DEF one
<1> HIDE DEF text
<1>4. text[1] = Len(key)
  BY <1>1, <1>2, <1>3 DEF one
<1>5. \A i \in 1..Len(key) : text[i + 1] = key[i]
  <2> TAKE i \in 1..Len(key)
  <2>1. i + 1 \in 1..(1 + Len(key)) /\ ~(i + 1 <= 1) /\ i + 1 - 1 = i
    BY <1>1
  <2> QED
    BY <1>3, <2>1
<1> QED
  BY <1>1, <1>3, <1>4, <1>5 DEF text, one

\* Of a key, whatever its length, what is stored is recovered.
LEMMA KeyKept ==
    ASSUME KeysTold, NEW key \in Keys
    PROVE  KeyOf(Stored(key).bytes) = key
<1> DEFINE b == Stored(key).bytes
<1>1. key \in Seq(Nat) /\ Len(key) \in 0..32
  BY KeyType
<1>2. CASE Len(key) = 32
  <2>1. b = [i \in 1..32 |-> IF i <= Len(key) THEN key[i]
                             ELSE IF i = 32 /\ Stored(key).encrypted = 16 THEN Leftover ELSE 0]
    BY <1>2 DEF Stored
  <2>2. b = key
    <3> HIDE DEF b
    <3>1. b = [i \in 1..32 |-> key[i]]
      BY <1>2, <2>1
    <3>2. key = [i \in 1..Len(key) |-> key[i]]
      BY <1>1
    <3> QED
      BY <1>2, <3>1, <3>2
  <2>3. b[32] # 0 /\ b[1] # 31
    BY <1>2, <2>2, KeyType
  <2> HIDE DEF b
  <2> QED
    BY <2>2, <2>3 DEF KeyOf, b
<1>3. CASE Len(key) < 32
  <2> DEFINE text == <<Len(key)>> \o key
  <2>1. /\ text \in Seq(Nat) /\ Len(text) = Len(key) + 1 /\ text[1] = Len(key)
        /\ \A i \in 1..Len(key) : text[i + 1] = key[i]
    BY <1>1, TextOf
  <2>2. b = [i \in 1..32 |-> IF i <= Len(text) THEN text[i]
                             ELSE IF i = 32 /\ Stored(key).encrypted = 16 THEN Leftover ELSE 0]
    <3>1. Len(key) # 32
      <4>1. \A n : n < 32 => n # 32
        OBVIOUS
      <4> QED
        BY <1>3, <4>1
    <3> QED
      BY <3>1 DEF Stored
  <2> HIDE DEF b, text
  <2>3. /\ b \in Seq(Nat) /\ Len(b) = 32 /\ b[1] = Len(key)
        /\ \A i \in 1..Len(key) : b[i + 1] = key[i]
    <3>1. \A i \in 1..32 : b[i] \in Nat
      <4> TAKE i \in 1..32
      <4>1. CASE i <= Len(text)
        <5>1. i \in 1..Len(text)
          BY <1>1, <2>1, <4>1
        <5>2. text[i] \in Nat
          BY <2>1, <5>1, ElementOfSeq
        <5> QED
          BY <2>2, <4>1, <5>2
      <4>2. CASE ~(i <= Len(text))
        BY <2>2, <4>2 DEF KeysTold
      <4> QED
        BY <4>1, <4>2
    <3>2. b \in [1..32 -> Nat]
      BY <2>2, <3>1
    <3>3. b \in Seq(Nat) /\ Len(b) = 32
      <4>1. b \in Seq(Nat)
        BY <3>2, SeqDef
      <4>2. DOMAIN b = 1..32 /\ DOMAIN b = 1..Len(b) /\ Len(b) \in Nat
        BY <3>2, <4>1, LenProperties
      <4> QED
        BY <4>1, <4>2
    <3>4. b[1] = Len(key)
      BY <1>1, <2>1, <2>2
    <3>5. \A i \in 1..Len(key) : b[i + 1] = key[i]
      BY <1>1, <1>3, <2>1, <2>2
    <3> QED
      BY <3>3, <3>4, <3>5
  <2>4. b[32] # 0 => b[1] = 31
    <3>1. CASE Len(key) = 31
      BY <2>3, <3>1
    <3>2. CASE Len(key) < 31
      BY <1>1, <2>1, <2>2, <3>2 DEF KeysTold
    <3>3. Len(key) = 31 \/ Len(key) < 31
      <4>1. \A n \in 0..32 : n < 32 => n = 31 \/ n < 31
        OBVIOUS
      <4> QED
        BY <1>1, <1>3, <4>1
    <3> QED
      BY <3>1, <3>2, <3>3
  <2>5. KeyOf(b) = SubSeq(b, 2, Len(key) + 1)
    BY <2>3, <2>4 DEF KeyOf
  <2>6. SubSeq(b, 2, Len(key) + 1) = key
    <3> DEFINE s == SubSeq(b, 2, Len(key) + 1)
    <3>1. s \in Seq(Nat) /\ Len(s) = Len(key) /\ \A i \in 1..Len(key) : s[i] = b[i + 1]
      <4>1. Len(key) + 1 \in Int /\ \A i \in 2..(Len(key) + 1) : b[i] \in Nat
        <5>1. \A n \in 0..32 : n < 32 => n + 1 \in Int /\ 2..(n + 1) \subseteq 1..32
          OBVIOUS
        <5>2. \A i \in 1..32 : b[i] \in Nat
          BY <2>3, ElementOfSeq
        <5> QED
          BY <1>1, <1>3, <5>1, <5>2
      <4>2. /\ s \in Seq(Nat)
            /\ Len(s) = IF 2 <= Len(key) + 1 THEN Len(key) + 1 - 2 + 1 ELSE 0
            /\ \A i \in 1..(Len(key) + 1 - 2 + 1) : s[i] = b[2 + i - 1]
        BY <2>3, <4>1, SubSeqProperties
      <4>3. Len(key) + 1 - 2 + 1 = Len(key) /\ \A i \in 1..Len(key) : 2 + i - 1 = i + 1
        BY <1>1
      <4>4. Len(s) = Len(key)
        BY <1>1, <4>2
      <4>5. \A i \in 1..Len(key) : s[i] = b[i + 1]
        BY <4>2, <4>3
      <4> QED
        BY <4>2, <4>4, <4>5
    <3>2. key \in Seq(Nat)
      BY <1>1
    <3> HIDE DEF s
    <3>3. \A i \in 1..Len(s) : s[i] = key[i]
      BY <1>1, <2>3, <3>1
    <3>4. s = key
      BY <3>1, <3>2, <3>3, SeqEqual
    <3> QED
      BY <3>4 DEF s
  <2> QED
    BY <2>5, <2>6 DEF b
<1>4. Len(key) = 32 \/ Len(key) < 32
  <2>1. \A n \in 0..32 : n = 32 \/ n < 32
    OBVIOUS
  <2> QED
    BY <1>1, <2>1
<1> QED
  BY <1>2, <1>3, <1>4

SmartSpec == SmartInit(TRUE) /\ [][SmartNext]_smart_vars

SmartInv ==
    /\ network \in [security : Securities, key : Keys]
    /\ smart \in {"key", "profile", "add", "done"}
    /\ smart = "add" => profileArray = Stored(network.key)
    /\ smart = "done" /\ returnValue = 0 =>
           profileArray = Stored(network.key) /\ added = Profile

LEMMA SmartStep == SmartInv /\ [SmartNext]_smart_vars => SmartInv'
<1> SUFFICES ASSUME SmartInv, [SmartNext]_smart_vars PROVE SmartInv'
  OBVIOUS
<1>1. CASE ReadKey
  BY <1>1 DEF SmartInv, ReadKey, FailedReads
<1>2. CASE ReadProfile
  BY <1>2 DEF SmartInv, ReadProfile, FailedReads
<1>3. CASE AddProfile
  <2>1. /\ network' = network /\ profileArray' = Stored(network.key) /\ smart' = "done"
        /\ returnValue' = 0 => added' = Profile
    BY <1>3 DEF SmartInv, AddProfile
  <2>2. Profile' = Profile
    BY <1>3 DEF AddProfile, Profile
  <2> QED
    BY <2>1, <2>2 DEF SmartInv
<1>4. CASE UNCHANGED smart_vars
  BY <1>4 DEF SmartInv, smart_vars, Profile
<1> QED
  BY <1>1, <1>2, <1>3, <1>4 DEF SmartNext

\* wlan_smart_config_process, when it succeeds, adds the profile with the key of the
\* network, whatever that key and its length, and reads no byte that aes_decrypt has left.
THEOREM KeyAdded == ASSUME KeysTold PROVE SmartSpec => []KeyRecovered
<1>1. SmartInit(TRUE) => SmartInv
  BY DEF SmartInit, SmartInv
<1>2. SmartInv => KeyRecovered
  <2> SUFFICES ASSUME SmartInv, smart = "done", returnValue = 0, network.security \in 1..3
               PROVE  /\ added.key = network.key
                      /\ \A i \in 1..Len(network.key) :
                            (IF Len(network.key) = 32 THEN i ELSE i + 1) \in Decrypted(profileArray)
    BY DEF KeyRecovered
  <2> DEFINE key == network.key
  <2>1. key \in Keys /\ profileArray = Stored(key) /\ added = Profile
    BY DEF SmartInv
  <2>2. key \in Seq(Nat) /\ Len(key) \in 0..32
    BY <2>1, KeyType
  <2>3. added.key = KeyOf(profileArray.bytes)
    BY <2>1 DEF Profile, WLAN_SEC_UNSEC, WLAN_SEC_WEP, WLAN_SEC_WPA, WLAN_SEC_WPA2
  <2>4. added.key = key
    BY <2>1, <2>3, KeyKept
  <2>5. ASSUME NEW i \in 1..Len(key)
        PROVE  (IF Len(key) = 32 THEN i ELSE i + 1) \in Decrypted(profileArray)
    <3> DEFINE text == IF Len(key) = 32 THEN key ELSE <<Len(key)>> \o key
    <3>1. Len(text) = IF Len(key) = 32 THEN 32 ELSE Len(key) + 1
      BY <2>2, TextOf
    <3>2. profileArray.encrypted = IF Len(text) <= 16 THEN 16 ELSE 32
      BY <2>1 DEF Stored
    <3> DEFINE n == Len(key)
    <3>3. Decrypted(profileArray) =
            IF (IF n = 32 THEN 32 ELSE n + 1) <= 16 THEN 1..16 ELSE 1..32
      BY <3>1, <3>2 DEF Decrypted
    <3>4. n \in 0..32 /\ i \in 1..n
      BY <2>2
    <3> HIDE DEF n
    <3>5. (IF n = 32 THEN i ELSE i + 1) \in Decrypted(profileArray)
      <4>1. CASE n <= 15
        <5>1. n # 32 /\ n + 1 <= 16 /\ i + 1 \in 1..16
          BY <3>4, <4>1
        <5> QED
          BY <3>3, <5>1
      <4>2. CASE n > 15
        <5>1. ~((IF n = 32 THEN 32 ELSE n + 1) <= 16)
          BY <3>4, <4>2
        <5>2. (IF n = 32 THEN i ELSE i + 1) \in 1..32
          BY <3>4
        <5> QED
          BY <3>3, <5>1, <5>2
      <4> QED
        BY <3>4, <4>1, <4>2
    <3> QED
      BY <3>5 DEF n
  <2> QED
    BY <2>4, <2>5
<1> QED
  BY <1>1, <1>2, SmartStep, PTL DEF SmartSpec

-----------------------------------------------------------------------------
\* Sets of numbers, by the least that is missing: what the library's induction theorems
\* say of a property is said of a set here.
LEMMA NatSets ==
    ASSUME NEW S \in SUBSET Nat, 0 \in S, \A n \in S : n + 1 \in S
    PROVE  S = Nat
<1> DEFINE R == OpToRel(<, Nat)
           T == Nat \ S
<1>1. IsWellFoundedOn(R, Nat)
  BY NatLessThanWellFounded
<1>2. \A m, n \in Nat : m < n => <<m, n>> \in R
  BY DEF OpToRel
<1> SUFFICES ASSUME T # {} PROVE FALSE
  OBVIOUS
<1> HIDE DEF R
<1>3. PICK x \in T : \A y \in T : ~(<<y, x>> \in R)
  <2>1. T \subseteq Nat
    OBVIOUS
  <2> HIDE DEF T
  <2> QED
    BY <1>1, <2>1, WFMin
<1>4. x \in Nat /\ x # 0 /\ x - 1 \in Nat
  OBVIOUS
<1>5. x - 1 \in S
  <2>1. <<x - 1, x>> \in R
    <3>1. x - 1 < x
      BY <1>4
    <3> QED
      BY <1>2, <1>4, <3>1
  <2> HIDE DEF T
  <2>2. x - 1 \notin T
    BY <1>3, <2>1
  <2> QED
    BY <1>4, <2>2 DEF T
<1> QED
  BY <1>3, <1>4, <1>5


-----------------------------------------------------------------------------
\* WebServer_process_request

WebSpec == WebInit(TRUE) /\ [][WebNext]_web_vars

\* Where the lines of a request begin, line i + 1 of them, and its body; and what stands in
\* line i + 1: the last is empty.
Begins(r) == Len(r.method) + Len(r.filename) + 2
LineAt(r, i) == Begins(r) + Len(Lines(r)[i])
BodyAt(r) == LineAt(r, Len(r.lines)) + 2
Text(r, i) == IF i < Len(r.lines) THEN r.lines[i + 1] \o EndOfLine ELSE EndOfLine

\* The definition of the lines makes what it says.
LEMMA LinesAre ==
    ASSUME NEW r, Len(r.lines) \in Nat
    PROVE  /\ Lines(r)[0] = <<>>
           /\ \A i \in 1..Len(r.lines) :
                Lines(r)[i] = Lines(r)[i - 1] \o (r.lines[i] \o EndOfLine)
<1> DEFINE N == Len(r.lines)
           Step(a, i) == a \o (r.lines[i] \o EndOfLine)
           After(f, k) == f = [i \in 0..k |-> IF i = 0 THEN <<>> ELSE Step(f[i - 1], i)]
           S == {k \in Nat : k <= N => \E f : After(f, k)}
<1> HIDE DEF Step
<1>1. 0 \in S
  <2> DEFINE f == [i \in 0..0 |-> <<>>]
  <2>1. After(f, 0)
    OBVIOUS
  <2> QED
    BY <2>1
<1>2. ASSUME NEW k \in S PROVE k + 1 \in S
  <2>0. k \in Nat /\ k + 1 \in Nat /\ (k <= N => \E f : After(f, k))
    BY <1>2
  <2> SUFFICES ASSUME k + 1 <= N PROVE \E f : After(f, k + 1)
    <3> HIDE DEF After
    <3> QED
      BY <2>0
  <2>1. PICK f : After(f, k)
    BY <2>0
  <2> DEFINE next == Step(f[k], k + 1)
             g == [i \in 0..(k + 1) |-> IF i <= k THEN f[i] ELSE next]
  <2>2. ASSUME NEW i \in 0..(k + 1)
        PROVE  g[i] = IF i = 0 THEN <<>> ELSE Step(g[i - 1], i)
    <3>1. CASE i <= k
      <4>1. i \in 0..k /\ (i # 0 => i - 1 \in 0..(k + 1) /\ i - 1 <= k)
        BY <2>0, <3>1
      <4>2. f[i] = IF i = 0 THEN <<>> ELSE Step(f[i - 1], i)
        BY <2>1, <4>1
      <4> HIDE DEF next
      <4> QED
        BY <4>1, <4>2
    <3>2. CASE ~(i <= k)
      <4>1. i = k + 1 /\ i # 0 /\ i - 1 = k /\ i - 1 \in 0..(k + 1)
        BY <2>0, <3>2
      <4>2. g[i] = next /\ g[i - 1] = f[k]
        BY <4>1
      <4> QED
        BY <4>1, <4>2
    <3> QED
      BY <3>1, <3>2
  <2>3. After(g, k + 1)
    <3>1. g = [i \in 0..(k + 1) |-> g[i]]
      OBVIOUS
    <3> HIDE DEF g
    <3> QED
      BY <2>2, <3>1
  <2> QED
    BY <2>3
<1>3. S = Nat
  <2>1. S \in SUBSET Nat
    OBVIOUS
  <2> HIDE DEF S
  <2> QED
    BY <1>1, <1>2, <2>1, NatSets
<1>4. \E f : After(f, N)
  <2>1. N \in S
    BY <1>3
  <2> QED
    BY <2>1
<1> DEFINE a == Lines(r)
<1>5. After(a, N)
  <2>1. a = CHOOSE f : After(f, N)
    BY DEF Lines, Step
  <2> HIDE DEF a, After
  <2> QED
    BY <1>4, <2>1
<1> HIDE DEF a
<1>7. a[0] = <<>> /\ \A i \in 1..N : a[i] = Step(a[i - 1], i)
  BY <1>5
<1> QED
  BY <1>7 DEF a, Step

\* So does that of the loop over a piece: what the local variables are after each byte of it.
After(after, p, s, n) ==
    /\ after[0] = p /\ Parsed(p, s) = after[n]
    /\ \A i \in 1..n : after[i] = Byte1(after[i - 1], s[i])

LEMMA ParsedIs ==
    ASSUME NEW p, NEW s, NEW n \in Nat, n = Len(s)
    PROVE  \E after : After(after, p, s, n)
<1> DEFINE N == Len(s)
           Step(a, i) == Byte1(a, s[i])
           Made(f, k) == f = [i \in 0..k |-> IF i = 0 THEN p ELSE Step(f[i - 1], i)]
           S == {k \in Nat : k <= N => \E f : Made(f, k)}
<1> HIDE DEF Step
<1>1. 0 \in S
  <2> DEFINE f == [i \in 0..0 |-> p]
  <2>1. Made(f, 0)
    OBVIOUS
  <2> QED
    BY <2>1
<1>2. ASSUME NEW k \in S PROVE k + 1 \in S
  <2>0. k \in Nat /\ k + 1 \in Nat /\ (k <= N => \E f : Made(f, k))
    BY <1>2
  <2> SUFFICES ASSUME k + 1 <= N PROVE \E f : Made(f, k + 1)
    <3> HIDE DEF Made
    <3> QED
      BY <2>0
  <2>1. PICK f : Made(f, k)
    BY <2>0
  <2> DEFINE next == Step(f[k], k + 1)
             g == [i \in 0..(k + 1) |-> IF i <= k THEN f[i] ELSE next]
  <2>2. ASSUME NEW i \in 0..(k + 1)
        PROVE  g[i] = IF i = 0 THEN p ELSE Step(g[i - 1], i)
    <3>1. CASE i <= k
      <4>1. i \in 0..k /\ (i # 0 => i - 1 \in 0..(k + 1) /\ i - 1 <= k)
        BY <2>0, <3>1
      <4>2. f[i] = IF i = 0 THEN p ELSE Step(f[i - 1], i)
        BY <2>1, <4>1
      <4> HIDE DEF next
      <4> QED
        BY <4>1, <4>2
    <3>2. CASE ~(i <= k)
      <4>1. i = k + 1 /\ i # 0 /\ i - 1 = k /\ i - 1 \in 0..(k + 1)
        BY <2>0, <3>2
      <4>2. g[i] = next /\ g[i - 1] = f[k]
        BY <4>1
      <4> QED
        BY <4>1, <4>2
    <3> QED
      BY <3>1, <3>2
  <2>3. Made(g, k + 1)
    <3>1. g = [i \in 0..(k + 1) |-> g[i]]
      OBVIOUS
    <3> HIDE DEF g
    <3> QED
      BY <2>2, <3>1
  <2> QED
    BY <2>3
<1>3. S = Nat
  <2>1. S \in SUBSET Nat
    OBVIOUS
  <2> HIDE DEF S
  <2> QED
    BY <1>1, <1>2, <2>1, NatSets
<1>4. \E f : Made(f, N)
  <2>1. N \in S
    BY <1>3
  <2> QED
    BY <2>1
<1> DEFINE a == CHOOSE f : Made(f, N)
<1>5. Made(a, N)
  BY <1>4
<1>6. Parsed(p, s) = a[N]
  BY DEF Parsed, Step, a
<1> HIDE DEF a
<1>7. a[0] = p /\ \A i \in 1..N : a[i] = Step(a[i - 1], i)
  BY <1>5
<1> QED
  BY <1>6, <1>7 DEF Step, After

\* The lines are sequences, each behind the one before it.
LEMMA LinesGrow ==
    ASSUME NEW r, NEW Symbols, Whole(r, Symbols)
    PROVE  /\ Len(r.lines) \in Nat \ {0}
           /\ \A i \in 0..Len(r.lines) : Lines(r)[i] \in Seq(Symbols)
           /\ \A i \in 0..Len(r.lines) : Text(r, i) \in Seq(Symbols)
           /\ \A i \in 0..(Len(r.lines) - 1) : Lines(r)[i + 1] = Lines(r)[i] \o Text(r, i)
<1> DEFINE N == Len(r.lines)
           Set == Seq(Symbols \ {CR, LF}) \ {<<>>}
           S == {k \in Nat : k <= N => Lines(r)[k] \in Seq(Symbols)}
<1>1. N \in Nat \ {0}
  BY EmptySeq DEF Whole
<1>2. \A i \in 1..N : r.lines[i] \in Seq(Symbols)
  <2> SUFFICES ASSUME NEW i \in 1..N PROVE r.lines[i] \in Seq(Symbols)
    OBVIOUS
  <2>1. r.lines \in Seq(Set)
    BY DEF Whole
  <2>2. r.lines[i] \in Set
    BY <2>1, ElementOfSeq
  <2>3. r.lines[i] \in Seq(Symbols \ {CR, LF}) /\ Symbols \ {CR, LF} \subseteq Symbols
    BY <2>2
  <2> QED
    BY <2>3, SeqMonotonic
<1>3. EndOfLine \in Seq(Symbols)
  BY DEF EndOfLine, Whole
<1>4. \A i \in 0..N : Text(r, i) \in Seq(Symbols)
  <2> SUFFICES ASSUME NEW i \in 0..N PROVE Text(r, i) \in Seq(Symbols)
    OBVIOUS
  <2>1. CASE i < N
    <3>1. i + 1 \in 1..N /\ r.lines[i + 1] \in Seq(Symbols)
      BY <1>1, <1>2, <2>1
    <3>2. r.lines[i + 1] \o EndOfLine \in Seq(Symbols)
      BY <1>3, <3>1, ConcatProperties
    <3> QED
      BY <2>1, <3>2 DEF Text
  <2>2. CASE ~(i < N)
    BY <1>3, <2>2 DEF Text
  <2> QED
    BY <2>1, <2>2
<1>5. Lines(r)[0] = <<>> /\ \A i \in 1..N : Lines(r)[i] = Lines(r)[i - 1] \o (r.lines[i] \o EndOfLine)
  BY <1>1, LinesAre
<1>6. ASSUME NEW i \in 0..(N - 1) PROVE Lines(r)[i + 1] = Lines(r)[i] \o Text(r, i)
  <2>1. i + 1 \in 1..N /\ (i + 1) - 1 = i /\ i < N
    BY <1>1
  <2> QED
    BY <1>5, <2>1 DEF Text
<1>7. 0 \in S
  BY <1>5, EmptySeq
<1>8. ASSUME NEW k \in S PROVE k + 1 \in S
  <2> SUFFICES ASSUME k + 1 <= N PROVE Lines(r)[k + 1] \in Seq(Symbols)
    OBVIOUS
  <2>1. k \in 0..(N - 1) /\ k \in 0..N /\ Lines(r)[k] \in Seq(Symbols)
    BY <1>1
  <2>2. Lines(r)[k + 1] = Lines(r)[k] \o Text(r, k)
    BY <1>6, <2>1
  <2>3. Lines(r)[k] \o Text(r, k) \in Seq(Symbols)
    BY <1>4, <2>1, ConcatProperties
  <2> QED
    BY <2>2, <2>3
<1>9. S = Nat
  <2>1. S \in SUBSET Nat
    OBVIOUS
  <2> HIDE DEF S
  <2> QED
    BY <1>7, <1>8, <2>1, NatSets
<1>10. \A i \in 0..N : Lines(r)[i] \in Seq(Symbols)
  <2> SUFFICES ASSUME NEW i \in 0..N PROVE Lines(r)[i] \in Seq(Symbols)
    OBVIOUS
  <2>1. i \in S /\ i <= N
    BY <1>1, <1>9
  <2> QED
    BY <2>1
<1> QED
  BY <1>1, <1>4, <1>6, <1>10

\* Two sequences one behind the other
LEMMA Joined ==
    ASSUME NEW S, NEW s \in Seq(S), NEW t \in Seq(S), NEW u, u = s \o t
    PROVE  /\ u \in Seq(S) /\ Len(u) = Len(s) + Len(t)
           /\ \A k \in 1..Len(s) : u[k] = s[k]
           /\ \A k \in 1..Len(t) : u[Len(s) + k] = t[k]
<1>0. PICK n \in Nat, d \in Nat : n = Len(s) /\ d = Len(t)
  BY LenProperties
<1>1. /\ s \o t \in Seq(S) /\ Len(s \o t) = n + d
      /\ \A k \in 1..(n + d) : (s \o t)[k] = IF k <= n THEN s[k] ELSE t[k - n]
  BY <1>0, ConcatProperties
<1>2. u \in Seq(S) /\ Len(u) = n + d
  BY <1>1
<1>3. \A k \in 1..(n + d) : u[k] = IF k <= n THEN s[k] ELSE t[k - n]
  BY <1>1
<1>4. \A k \in 1..n : u[k] = s[k]
  BY <1>0, <1>3
<1>5. ASSUME NEW k \in 1..d PROVE u[n + k] = t[k]
  <2>1. n + k \in 1..(n + d) /\ ~(n + k <= n) /\ (n + k) - n = k
    BY <1>0
  <2> QED
    BY <1>3, <2>1
<1> QED
  BY <1>0, <1>2, <1>4, <1>5

\* What a request is made of, and where it is.
LEMMA BytesAre ==
    ASSUME NEW r, NEW Symbols, Whole(r, Symbols)
    PROVE  /\ Bytes(r) \in Seq(Symbols) /\ Len(Bytes(r)) = BodyAt(r) + Len(r.body)
           /\ Len(r.method) \in Nat /\ Len(r.filename) \in Nat /\ Len(r.body) \in Nat
           /\ BodyAt(r) \in Nat /\ BodyAt(r) >= Begins(r) + 2
           /\ \A k \in 1..Len(r.method) : Bytes(r)[k] = r.method[k]
           /\ Bytes(r)[Len(r.method) + 1] = SP
           /\ \A k \in 1..Len(r.filename) : Bytes(r)[Len(r.method) + 1 + k] = r.filename[k]
           /\ Bytes(r)[Begins(r)] = SP
           /\ \A k \in 1..Len(Lines(r)[Len(r.lines)]) :
                Bytes(r)[Begins(r) + k] = Lines(r)[Len(r.lines)][k]
           /\ \A k \in 1..2 : Bytes(r)[LineAt(r, Len(r.lines)) + k] = EndOfLine[k]
           /\ \A k \in 1..Len(r.body) : Bytes(r)[BodyAt(r) + k] = r.body[k]
<1>1. r.method \in Seq(Symbols) /\ r.filename \in Seq(Symbols)
  <2>1. PICK M, F : M = r.method /\ F = r.filename
    OBVIOUS
  <2>2. Symbols \ {SP} \subseteq Symbols /\ M \in Seq(Symbols \ {SP}) /\ F \in Seq(Symbols \ {SP})
    BY <2>1 DEF Whole
  <2> QED
    BY <2>1, <2>2, SeqMonotonic
<1>2. <<SP>> \in Seq(Symbols) /\ Len(<<SP>>) = 1 /\ <<SP>>[1] = SP
  BY DEF Whole
<1>3. EndOfLine \in Seq(Symbols) /\ Len(EndOfLine) = 2
  BY DEF EndOfLine, Whole
<1>4. Lines(r)[Len(r.lines)] \in Seq(Symbols) /\ r.body \in Seq(Symbols)
  <2>1. Len(r.lines) \in 0..Len(r.lines) /\ \A i \in 0..Len(r.lines) : Lines(r)[i] \in Seq(Symbols)
    BY LinesGrow
  <2> QED
    BY <2>1 DEF Whole
<1>5. PICK M \in Seq(Symbols), F \in Seq(Symbols), L \in Seq(Symbols), B \in Seq(Symbols),
          E \in Seq(Symbols), space \in Seq(Symbols) :
            /\ M = r.method /\ F = r.filename /\ L = Lines(r)[Len(r.lines)] /\ B = r.body
            /\ E = EndOfLine /\ space = <<SP>>
  BY <1>1, <1>2, <1>3, <1>4
<1>6. PICK m \in Nat, f \in Nat, l \in Nat, b \in Nat :
          m = Len(M) /\ f = Len(F) /\ l = Len(L) /\ b = Len(B)
  BY <1>5, LenProperties
<1>7. Len(E) = 2 /\ Len(space) = 1 /\ space[1] = SP
  BY <1>2, <1>3, <1>5
<1>8. Bytes(r) = (((((M \o space) \o F) \o space) \o L) \o E) \o B
  BY <1>5 DEF Bytes, RequestLine
<1>9. Begins(r) = m + f + 2 /\ LineAt(r, Len(r.lines)) = m + f + 2 + l /\ BodyAt(r) = m + f + 2 + l + 2
  BY <1>5, <1>6 DEF Begins, LineAt, BodyAt
<1>10. PICK s1 : /\ s1 = M \o space /\ s1 \in Seq(Symbols) /\ Len(s1) = m + 1
                 /\ \A k \in 1..(m) : s1[k] = M[k]
                 /\ \A k \in 1..1 : s1[m + k] = space[k]
  <2>1. M \in Seq(Symbols) /\ space \in Seq(Symbols)
    BY <1>5
  <2>2. PICK u : u = M \o space
    OBVIOUS
  <2>3. /\ u \in Seq(Symbols) /\ Len(u) = Len(M) + Len(space)
        /\ \A k \in 1..Len(M) : u[k] = M[k]
        /\ \A k \in 1..Len(space) : u[Len(M) + k] = space[k]
    BY <2>1, <2>2, Joined
  <2>4. Len(M) = m /\ Len(space) = 1
    BY <1>6, <1>7
  <2> QED
    BY <2>2, <2>3, <2>4
<1>11. PICK s2 : /\ s2 = s1 \o F /\ s2 \in Seq(Symbols) /\ Len(s2) = m + 1 + f
                 /\ \A k \in 1..(m + 1) : s2[k] = s1[k]
                 /\ \A k \in 1..f : s2[m + 1 + k] = F[k]
  <2>1. s1 \in Seq(Symbols) /\ F \in Seq(Symbols)
    BY <1>5, <1>10
  <2>2. PICK u : u = s1 \o F
    OBVIOUS
  <2>3. /\ u \in Seq(Symbols) /\ Len(u) = Len(s1) + Len(F)
        /\ \A k \in 1..Len(s1) : u[k] = s1[k]
        /\ \A k \in 1..Len(F) : u[Len(s1) + k] = F[k]
    BY <2>1, <2>2, Joined
  <2>4. Len(s1) = m + 1 /\ Len(F) = f
    BY <1>6, <1>7, <1>10
  <2> QED
    BY <2>2, <2>3, <2>4
<1>12. PICK s3 : /\ s3 = s2 \o space /\ s3 \in Seq(Symbols) /\ Len(s3) = m + 1 + f + 1
                 /\ \A k \in 1..(m + 1 + f) : s3[k] = s2[k]
                 /\ \A k \in 1..1 : s3[m + 1 + f + k] = space[k]
  <2>1. s2 \in Seq(Symbols) /\ space \in Seq(Symbols)
    BY <1>5, <1>11
  <2>2. PICK u : u = s2 \o space
    OBVIOUS
  <2>3. /\ u \in Seq(Symbols) /\ Len(u) = Len(s2) + Len(space)
        /\ \A k \in 1..Len(s2) : u[k] = s2[k]
        /\ \A k \in 1..Len(space) : u[Len(s2) + k] = space[k]
    BY <2>1, <2>2, Joined
  <2>4. Len(s2) = m + 1 + f /\ Len(space) = 1
    BY <1>6, <1>7, <1>11
  <2> QED
    BY <2>2, <2>3, <2>4
<1>13. PICK s4 : /\ s4 = s3 \o L /\ s4 \in Seq(Symbols) /\ Len(s4) = m + 1 + f + 1 + l
                 /\ \A k \in 1..(m + 1 + f + 1) : s4[k] = s3[k]
                 /\ \A k \in 1..l : s4[m + 1 + f + 1 + k] = L[k]
  <2>1. s3 \in Seq(Symbols) /\ L \in Seq(Symbols)
    BY <1>5, <1>12
  <2>2. PICK u : u = s3 \o L
    OBVIOUS
  <2>3. /\ u \in Seq(Symbols) /\ Len(u) = Len(s3) + Len(L)
        /\ \A k \in 1..Len(s3) : u[k] = s3[k]
        /\ \A k \in 1..Len(L) : u[Len(s3) + k] = L[k]
    BY <2>1, <2>2, Joined
  <2>4. Len(s3) = m + 1 + f + 1 /\ Len(L) = l
    BY <1>6, <1>7, <1>12
  <2> QED
    BY <2>2, <2>3, <2>4
<1>14. PICK s5 : /\ s5 = s4 \o E /\ s5 \in Seq(Symbols) /\ Len(s5) = m + 1 + f + 1 + l + 2
                 /\ \A k \in 1..(m + 1 + f + 1 + l) : s5[k] = s4[k]
                 /\ \A k \in 1..2 : s5[m + 1 + f + 1 + l + k] = E[k]
  <2>1. s4 \in Seq(Symbols) /\ E \in Seq(Symbols)
    BY <1>5, <1>13
  <2>2. PICK u : u = s4 \o E
    OBVIOUS
  <2>3. /\ u \in Seq(Symbols) /\ Len(u) = Len(s4) + Len(E)
        /\ \A k \in 1..Len(s4) : u[k] = s4[k]
        /\ \A k \in 1..Len(E) : u[Len(s4) + k] = E[k]
    BY <2>1, <2>2, Joined
  <2>4. Len(s4) = m + 1 + f + 1 + l /\ Len(E) = 2
    BY <1>6, <1>7, <1>13
  <2>5. Len(u) = m + 1 + f + 1 + l + 2
    BY <2>3, <2>4
  <2>6. \A k \in 1..(m + 1 + f + 1 + l) : u[k] = s4[k]
    BY <2>3, <2>4
  <2>7. \A k \in 1..2 : u[m + 1 + f + 1 + l + k] = E[k]
    BY <2>3, <2>4
  <2> QED
    BY <2>2, <2>3, <2>5, <2>6, <2>7
<1>15. PICK s6 : /\ s6 = s5 \o B /\ s6 \in Seq(Symbols) /\ Len(s6) = m + 1 + f + 1 + l + 2 + b
                 /\ \A k \in 1..(m + 1 + f + 1 + l + 2) : s6[k] = s5[k]
                 /\ \A k \in 1..b : s6[m + 1 + f + 1 + l + 2 + k] = B[k]
  <2>1. s5 \in Seq(Symbols) /\ B \in Seq(Symbols)
    BY <1>5, <1>14
  <2>2. PICK u : u = s5 \o B
    OBVIOUS
  <2>3. /\ u \in Seq(Symbols) /\ Len(u) = Len(s5) + Len(B)
        /\ \A k \in 1..Len(s5) : u[k] = s5[k]
        /\ \A k \in 1..Len(B) : u[Len(s5) + k] = B[k]
    BY <2>1, <2>2, Joined
  <2>4. Len(s5) = m + 1 + f + 1 + l + 2 /\ Len(B) = b
    BY <1>6, <1>7, <1>14
  <2> QED
    BY <2>2, <2>3, <2>4
<1>16. Bytes(r) = s6
  BY <1>8, <1>10, <1>11, <1>12, <1>13, <1>14, <1>15
<1>17. \A k \in 1..m : s6[k] = M[k]
  BY <1>6, <1>10, <1>11, <1>12, <1>13, <1>14, <1>15
<1>18. s6[m + 1] = SP
  <2>1. s1[m + 1] = SP /\ m + 1 \in 1..(m + 1)
    BY <1>6, <1>7, <1>10
  <2>2. s2[m + 1] = SP
    BY <1>11, <2>1
  <2>3. s3[m + 1] = SP
    <3>1. m + 1 \in 1..(m + 1 + f)
      BY <1>6
    <3> QED
      BY <1>12, <2>2, <3>1
  <2>4. s4[m + 1] = SP
    <3>1. m + 1 \in 1..(m + 1 + f + 1)
      BY <1>6
    <3> QED
      BY <1>13, <2>3, <3>1
  <2>5. s5[m + 1] = SP
    <3>1. m + 1 \in 1..(m + 1 + f + 1 + l)
      BY <1>6
    <3> QED
      BY <1>14, <2>4, <3>1
  <2> QED
    BY <1>6, <1>15, <2>5
<1>19. ASSUME NEW k \in 1..f PROVE s6[m + 1 + k] = F[k]
  <2>1. m + 1 + k \in 1..(m + 1 + f) /\ s2[m + 1 + k] = F[k]
    BY <1>6, <1>11
  <2>2. s3[m + 1 + k] = F[k]
    BY <1>12, <2>1
  <2> QED
    BY <1>6, <1>13, <1>14, <1>15, <2>1, <2>2
<1>20. s6[m + f + 2] = SP
  <2>1. s3[m + 1 + f + 1] = SP /\ m + 1 + f + 1 = m + f + 2 /\ m + f + 2 \in 1..(m + 1 + f + 1)
    BY <1>6, <1>7, <1>12
  <2> QED
    BY <1>6, <1>13, <1>14, <1>15, <2>1
<1>21. ASSUME NEW k \in 1..l PROVE s6[m + f + 2 + k] = L[k]
  <2>1. /\ s4[m + 1 + f + 1 + k] = L[k] /\ m + 1 + f + 1 + k = m + f + 2 + k
        /\ m + f + 2 + k \in 1..(m + 1 + f + 1 + l)
    BY <1>6, <1>13
  <2> QED
    BY <1>6, <1>14, <1>15, <2>1
<1>22. ASSUME NEW k \in 1..2 PROVE s6[m + f + 2 + l + k] = E[k]
  <2>1. /\ m + 1 + f + 1 + l + k = m + f + 2 + l + k
        /\ m + f + 2 + l + k \in 1..(m + 1 + f + 1 + l + 2)
    BY <1>6
  <2>2. s5[m + 1 + f + 1 + l + k] = E[k]
    BY <1>14
  <2> QED
    BY <1>15, <2>1, <2>2
<1>23. ASSUME NEW k \in 1..b PROVE s6[m + f + 2 + l + 2 + k] = B[k]
  <2>1. m + 1 + f + 1 + l + 2 + k = m + f + 2 + l + 2 + k
    BY <1>6
  <2> QED
    BY <1>15, <2>1
<1>24. /\ s6 \in Seq(Symbols) /\ Len(s6) = BodyAt(r) + b
       /\ BodyAt(r) \in Nat /\ BodyAt(r) >= Begins(r) + 2
  BY <1>6, <1>9, <1>15
<1> QED
  BY <1>5, <1>6, <1>9, <1>16, <1>17, <1>18, <1>19, <1>20, <1>21, <1>22, <1>23, <1>24

\* The words in front of the lines
LEMMA BeginsNat ==
    ASSUME NEW r, NEW Symbols, Whole(r, Symbols)
    PROVE  Begins(r) \in Nat /\ Len(r.method) \in Nat /\ Len(r.filename) \in Nat
<1>1. r.method \in Seq(Symbols \ {SP}) /\ r.filename \in Seq(Symbols \ {SP})
  BY DEF Whole
<1>2. Len(r.method) \in Nat
  BY <1>1, LenProperties
<1>3. Len(r.filename) \in Nat
  BY <1>1, LenProperties
<1> DEFINE m == Len(r.method)
           f == Len(r.filename)
<1>4. Begins(r) = m + f + 2
  BY DEF Begins
<1>5. m \in Nat /\ f \in Nat
  BY <1>2, <1>3
<1> HIDE DEF m, f
<1>6. Begins(r) \in Nat
  BY <1>4, <1>5
<1> QED
  BY <1>2, <1>3, <1>6

\* Each byte of the head is one of its line.
LEMMA LineBytes ==
    ASSUME NEW r, NEW Symbols, Whole(r, Symbols), NEW i \in 0..Len(r.lines)
    PROVE  /\ LineAt(r, i) \in Nat /\ LineAt(r, i) >= Begins(r)
           /\ LineAt(r, i) + Len(Text(r, i)) =
                IF i < Len(r.lines) THEN LineAt(r, i + 1) ELSE BodyAt(r)
           /\ LineAt(r, i) + Len(Text(r, i)) <= BodyAt(r)
           /\ \A k \in 1..Len(Text(r, i)) : Bytes(r)[LineAt(r, i) + k] = Text(r, i)[k]
<1> DEFINE N == Len(r.lines)
           At(j) == Len(Lines(r)[j])
           d == Len(Text(r, i))
<1>1. N \in Nat \ {0}
  BY LinesGrow
<1>2. \A j \in 0..N : Lines(r)[j] \in Seq(Symbols) /\ At(j) \in Nat
  BY LinesGrow, LenProperties
<1>3. \A j \in 0..N : Text(r, j) \in Seq(Symbols) /\ Len(Text(r, j)) \in Nat
  BY LinesGrow, LenProperties
<1>4. ASSUME NEW j \in 0..(N - 1)
      PROVE  /\ At(j + 1) = At(j) + Len(Text(r, j))
             /\ \A k \in 1..At(j) : Lines(r)[j + 1][k] = Lines(r)[j][k]
             /\ \A k \in 1..Len(Text(r, j)) : Lines(r)[j + 1][At(j) + k] = Text(r, j)[k]
  <2>1. Lines(r)[j + 1] = Lines(r)[j] \o Text(r, j)
    BY LinesGrow
  <2>2. j \in 0..N /\ Lines(r)[j] \in Seq(Symbols) /\ Text(r, j) \in Seq(Symbols)
    BY <1>1, <1>2, <1>3
  <2> DEFINE s == Lines(r)[j]
             t == Text(r, j)
  <2> HIDE DEF s, t
  <2>3. s \in Seq(Symbols) /\ t \in Seq(Symbols) /\ Lines(r)[j + 1] = s \o t
    BY <2>1, <2>2 DEF s, t
  <2>4. Len(s) \in Nat /\ Len(t) \in Nat
    BY <2>3, LenProperties
  <2>5. /\ Len(s \o t) = Len(s) + Len(t)
        /\ \A k \in 1..(Len(s) + Len(t)) : (s \o t)[k] = IF k <= Len(s) THEN s[k] ELSE t[k - Len(s)]
    BY <2>3, ConcatProperties
  <2>6. \A k \in 1..Len(s) : (s \o t)[k] = s[k]
    BY <2>4, <2>5
  <2>7. ASSUME NEW k \in 1..Len(t) PROVE (s \o t)[Len(s) + k] = t[k]
    <3>1. /\ Len(s) + k \in 1..(Len(s) + Len(t)) /\ ~(Len(s) + k <= Len(s))
          /\ (Len(s) + k) - Len(s) = k
      BY <2>4
    <3> QED
      BY <2>5, <3>1
  <2> QED
    BY <2>3, <2>5, <2>6, <2>7 DEF s, t
<1> DEFINE S == {n \in Nat : i + 1 + n <= N =>
                    /\ At(i) + d <= At(i + 1 + n)
                    /\ \A k \in 1..d : Lines(r)[i + 1 + n][At(i) + k] = Text(r, i)[k]}
<1>5. ASSUME i < N PROVE S = Nat
  <2>1. i \in 0..(N - 1)
    BY <1>1, <1>5
  <2>2. 0 \in S
    <3>1. i + 1 + 0 = i + 1 /\ At(i) \in Nat /\ d \in Nat
      BY <1>2, <1>3
    <3>2. At(i + 1) = At(i) + d /\ \A k \in 1..d : Lines(r)[i + 1][At(i) + k] = Text(r, i)[k]
      BY <1>4, <2>1
    <3> HIDE DEF d
    <3> QED
      BY <3>1, <3>2
  <2>3. ASSUME NEW n \in S PROVE n + 1 \in S
    <3> SUFFICES ASSUME i + 1 + (n + 1) <= N
                 PROVE  /\ At(i) + d <= At(i + 1 + (n + 1))
                        /\ \A k \in 1..d : Lines(r)[i + 1 + (n + 1)][At(i) + k] = Text(r, i)[k]
      OBVIOUS
    <3> DEFINE j == i + 1 + n
    <3>1. n \in Nat /\ j \in 0..(N - 1) /\ j \in 0..N /\ i + 1 + (n + 1) = j + 1 /\ j <= N
      BY <1>1
    <3>2. At(i) + d <= At(j) /\ \A k \in 1..d : Lines(r)[j][At(i) + k] = Text(r, i)[k]
      BY <3>1
    <3> HIDE DEF j
    <3>3. /\ At(j + 1) = At(j) + Len(Text(r, j))
          /\ \A k \in 1..At(j) : Lines(r)[j + 1][k] = Lines(r)[j][k]
      BY <1>4, <3>1
    <3>4. At(i) \in Nat /\ At(j) \in Nat /\ Len(Text(r, j)) \in Nat /\ d \in Nat
      BY <1>2, <1>3, <3>1
    <3> HIDE DEF d, At
    <3>5. At(i) + d <= At(j + 1)
      BY <3>2, <3>3, <3>4
    <3>6. ASSUME NEW k \in 1..d PROVE Lines(r)[j + 1][At(i) + k] = Text(r, i)[k]
      <4>1. At(i) + k \in 1..At(j)
        BY <3>2, <3>4
      <4> QED
        BY <3>2, <3>3, <4>1
    <3> QED
      BY <3>1, <3>5, <3>6
  <2>4. S \in SUBSET Nat
    OBVIOUS
  <2> HIDE DEF S
  <2> QED
    BY <2>2, <2>3, <2>4, NatSets
<1>6. /\ Begins(r) \in Nat /\ BodyAt(r) = Begins(r) + At(N) + 2
      /\ LineAt(r, i) = Begins(r) + At(i) /\ LineAt(r, N) = Begins(r) + At(N)
      /\ At(i) \in Nat /\ At(N) \in Nat /\ d \in Nat
  <2>2. Begins(r) \in Nat
    BY BeginsNat
  <2>5. At(i) \in Nat /\ At(N) \in Nat /\ d \in Nat
    BY <1>1, <1>2, <1>3
  <2>3. LineAt(r, i) = Begins(r) + At(i) /\ LineAt(r, N) = Begins(r) + At(N)
    BY DEF LineAt
  <2>4. BodyAt(r) = LineAt(r, N) + 2
    BY DEF BodyAt
  <2> QED
    BY <2>2, <2>3, <2>4, <2>5
<1>7. CASE i < N
  <2>1. N - (i + 1) \in Nat /\ i + 1 + (N - (i + 1)) = N /\ i \in 0..(N - 1)
    <3> HIDE DEF N
    <3>1. i \in 0..N
      BY DEF N
    <3> QED
      BY <1>1, <1>7, <3>1
  <2>2. N - (i + 1) \in S
    BY <1>5, <1>7, <2>1
  <2>3. At(i) + d <= At(N) /\ \A k \in 1..d : Lines(r)[N][At(i) + k] = Text(r, i)[k]
    BY <2>1, <2>2
  <2>4. LineAt(r, i + 1) = Begins(r) + At(i + 1) /\ At(i + 1) = At(i) + d
    BY <1>4, <2>1 DEF LineAt
  <2>5. \A k \in 1..At(N) : Bytes(r)[Begins(r) + k] = Lines(r)[N][k]
    BY BytesAre
  <2> HIDE DEF d, At
  <2>6. ASSUME NEW k \in 1..d PROVE Bytes(r)[LineAt(r, i) + k] = Text(r, i)[k]
    <3>1. At(i) + k \in 1..At(N) /\ LineAt(r, i) + k = Begins(r) + (At(i) + k)
      BY <1>6, <2>3
    <3> QED
      BY <2>3, <2>5, <3>1
  <2> QED
    BY <1>6, <1>7, <2>3, <2>4, <2>6 DEF d
<1>8. CASE ~(i < N)
  <2>1. i = N /\ Text(r, i) = EndOfLine /\ d = 2
    BY <1>1, <1>8 DEF Text, EndOfLine
  <2>2. \A k \in 1..2 : Bytes(r)[LineAt(r, N) + k] = EndOfLine[k]
    BY BytesAre
  <2> HIDE DEF At
  <2> QED
    BY <1>6, <1>8, <2>1, <2>2
<1> QED
  BY <1>7, <1>8

\* The last of a sequence
LEMMA LastIs ==
    ASSUME NEW S, NEW s \in Seq(S), NEW n \in Nat
    PROVE  LastOf(s, n) \in Seq(S) /\ (Len(s) <= n => LastOf(s, n) = s)
<1>1. PICK m \in Nat : m = Len(s)
  BY LenProperties
<1>2. \A i \in 1..m : s[i] \in S
  BY <1>1, ElementOfSeq
<1>3. CASE m <= n
  <2>1. LastOf(s, n) = SubSeq(s, 1, Len(s))
    <3>1. ~(Len(s) > n)
      BY <1>1, <1>3
    <3> QED
      BY <3>1 DEF LastOf
  <2> QED
    BY <2>1, SubSeqFull
<1>4. CASE n < m
  <2>1. PICK f \in Int : f = m - n + 1
    OBVIOUS
  <2>2. LastOf(s, n) = SubSeq(s, f, m)
    BY <1>1, <1>4, <2>1 DEF LastOf
  <2>3. f \in 1..(m + 1)
    BY <1>4, <2>1
  <2>4. \A i \in f..m : s[i] \in S
    BY <1>2, <2>3
  <2>5. SubSeq(s, f, m) \in Seq(S)
    BY <2>4, SubSeqProperties
  <2> QED
    BY <1>1, <1>4, <2>2, <2>5
<1> QED
  BY <1>1, <1>3, <1>4

\* One byte behind the last three: g of length n is made of b and of h of length m.
Follows(S, h, m, b, g, n) ==
    /\ g \in Seq(S) /\ m \in Nat /\ n \in 1..4 /\ g[n] = b
    /\ m < 3 => n = m + 1
    /\ m >= 1 => g[n - 1] = h[m]
    /\ m >= 2 => g[n - 2] = h[m - 1]
    /\ m >= 3 => n = 4 /\ g[4] = b /\ g[3] = h[m] /\ g[2] = h[m - 1] /\ g[1] = h[m - 2]

LEMMA Four ==
    ASSUME NEW S, NEW h \in Seq(S), NEW m, m = Len(h), m <= 4, NEW b \in S,
           NEW three, three = 3, NEW g, g = Append(LastOf(h, three), b), NEW n, n = Len(g)
    PROVE  Follows(S, h, m, b, g, n)
<1>1. PICK u : u = LastOf(h, three)
  OBVIOUS
<1>2. m \in Nat /\ m = Len(h)
  BY LenProperties
<1>0. u = LastOf(h, 3)
  BY <1>1
<1>3. /\ u \in Seq(S)
      /\ m <= 3 => u = h
      /\ 3 < m => /\ Len(u) = 3
                  /\ \A k \in 1..3 : u[k] = h[k + (m - 3)]
  <2>1. CASE m <= 3
    <3>1. ~(Len(h) > 3)
      BY <1>2, <2>1
    <3>2. u = SubSeq(h, 1, Len(h))
      BY <1>0, <3>1 DEF LastOf
    <3> QED
      BY <1>2, <2>1, <3>2, SubSeqFull
  <2>2. CASE 3 < m
    <3>1. m = 4 /\ Len(h) > 3 /\ Len(h) - 3 + 1 = 2
      BY <1>2, <2>2
    <3>2. u = SubSeq(h, 2, 4)
      BY <1>0, <1>2, <3>1 DEF LastOf
    <3>3. h[1] \in S /\ h[2] \in S /\ h[3] \in S /\ h[4] \in S
      <4>1. 1 \in 1..Len(h) /\ 2 \in 1..Len(h) /\ 3 \in 1..Len(h) /\ 4 \in 1..Len(h)
        BY <1>2, <3>1
      <4> QED
        BY <4>1, ElementOfSeq
    <3>4. u = <<h[2], h[3], h[4]>>
      <4>1. \A i \in 2..4 : h[i] \in S
        BY <3>3
      <4>2. PICK two \in Int, four \in Int : two = 2 /\ four = 4
        OBVIOUS
      <4>3. /\ SubSeq(h, two, four) \in Seq(S)
            /\ Len(SubSeq(h, two, four)) = IF two <= four THEN four - two + 1 ELSE 0
            /\ \A i \in 1..(four - two + 1) : SubSeq(h, two, four)[i] = h[two + i - 1]
        BY <4>1, <4>2, SubSeqProperties
      <4>4. u \in Seq(S) /\ Len(u) = 3
        BY <3>2, <4>2, <4>3
      <4>5. u[1] = h[2] /\ u[2] = h[3] /\ u[3] = h[4]
        BY <3>2, <4>2, <4>3
      <4>6. <<h[2], h[3], h[4]>> \in Seq(S)
        BY <3>3
      <4> QED
        BY <4>4, <4>5, <4>6, SeqEqual
    <3>5. u \in Seq(S) /\ Len(u) = 3 /\ u[1] = h[2] /\ u[2] = h[3] /\ u[3] = h[4]
      BY <3>3, <3>4
    <3> QED
      BY <2>2, <3>1, <3>5
  <2> QED
    BY <1>2, <2>1, <2>2
<1>4. PICK l \in Nat : l = Len(u)
  BY <1>3, LenProperties
<1>5. g = Append(u, b)
  BY <1>1
<1>6. /\ g \in Seq(S) /\ Len(g) = l + 1
      /\ \A i \in 1..l : g[i] = u[i]
      /\ g[l + 1] = b
  <2>1. /\ Append(u, b) \in Seq(S) /\ Len(Append(u, b)) = Len(u) + 1
        /\ \A i \in 1..Len(u) : Append(u, b)[i] = u[i]
        /\ Append(u, b)[Len(u) + 1] = b
    BY <1>3, AppendProperties
  <2> QED
    BY <1>4, <1>5, <2>1
<1>7. n = l + 1
  BY <1>6
<1>8. CASE m <= 3
  <2>1. l = m /\ u = h
    BY <1>2, <1>3, <1>4, <1>8
  <2>2. n = m + 1 /\ n \in 1..4 /\ g[n] = b /\ \A i \in 1..m : g[i] = h[i]
    BY <1>2, <1>6, <1>7, <1>8, <2>1
  <2>3. n - 1 = m /\ n - 2 = m - 1
    BY <1>2, <2>2
  <2>4. m >= 1 => g[n - 1] = h[m]
    BY <1>2, <2>2, <2>3
  <2>5. m >= 2 => g[n - 2] = h[m - 1]
    <3>1. m >= 2 => m - 1 \in 1..m
      BY <1>2
    <3> QED
      BY <2>2, <2>3, <3>1
  <2>6. ASSUME m >= 3
        PROVE  n = 4 /\ g[4] = b /\ g[3] = h[m] /\ g[2] = h[m - 1] /\ g[1] = h[m - 2]
    <3>1. m = 3 /\ n = 4 /\ m - 1 = 2 /\ m - 2 = 1
      BY <1>2, <1>8, <2>2, <2>6
    <3>2. g[4] = b
      BY <2>2, <3>1
    <3>3. g[3] = h[3] /\ g[2] = h[2] /\ g[1] = h[1]
      BY <2>2, <3>1
    <3> QED
      BY <3>1, <3>2, <3>3
  <2> QED
    BY <1>2, <1>6, <1>8, <2>2, <2>4, <2>5, <2>6 DEF Follows
<1>9. CASE 3 < m
  <2>1. m = 4 /\ m - 1 = 3 /\ m - 2 = 2 /\ m - 3 = 1
    BY <1>2, <1>9
  <2>2. l = 3 /\ n = 4 /\ n - 1 = 3 /\ n - 2 = 2
    BY <1>3, <1>4, <1>7, <1>9
  <2>3. u[1] = h[2] /\ u[2] = h[3] /\ u[3] = h[4]
    BY <1>3, <1>9, <2>1
  <2>4. g[4] = b /\ g[3] = h[4] /\ g[2] = h[3] /\ g[1] = h[2]
    BY <1>6, <2>2, <2>3
  <2>5. g[n] = b /\ g[n - 1] = h[m] /\ g[n - 2] = h[m - 1]
    BY <2>1, <2>2, <2>4
  <2>6. g[3] = h[m] /\ g[2] = h[m - 1] /\ g[1] = h[m - 2]
    BY <2>1, <2>4
  <2>7. n \in 1..4 /\ ~(m < 3)
    BY <2>1, <2>2
  <2> QED
    BY <1>2, <1>6, <2>2, <2>4, <2>5, <2>6, <2>7 DEF Follows
<1> QED
  BY <1>2, <1>8, <1>9

\* A length is a number; the ends of lines are none.
LEMMA LengthsAre ==
    /\ \A x \in Lengths : LengthOf[x] \in Nat
    /\ CR \notin Lengths /\ LF \notin Lengths /\ CR # LF
  BY DEF Lengths, LengthOf, CR, LF

\* There is a first of the places that tell a length.
LEMMA LeastIn ==
    ASSUME NEW T \in SUBSET Nat, T # {}
    PROVE  Min(T) \in T
<1> DEFINE R == OpToRel(<, Nat)
<1>1. IsWellFoundedOn(R, Nat)
  BY NatLessThanWellFounded
<1>2. \A m, n \in Nat : m < n => <<m, n>> \in R
  BY DEF OpToRel
<1> HIDE DEF R
<1>3. PICK x \in T : \A y \in T : ~(<<y, x>> \in R)
  BY <1>1, WFMin
<1>4. \A y \in T : x <= y
  <2> SUFFICES ASSUME NEW y \in T PROVE x <= y
    OBVIOUS
  <2>1. x \in Nat /\ y \in Nat
    BY <1>3
  <2>2. ~(y < x)
    BY <1>2, <1>3, <2>1
  <2> QED
    BY <2>1, <2>2
<1> QED
  BY <1>3, <1>4 DEF Min

\* What a line tells, with its end and without
LEMMA ToldOf ==
    ASSUME NEW S, NEW line \in Seq(S)
    PROVE  Told(line) # {} => LengthIn(line) \in Nat
<1> SUFFICES ASSUME Told(line) # {} PROVE LengthIn(line) \in Nat
  OBVIOUS
<1>1. DOMAIN line = 1..Len(line) /\ Len(line) \in Nat
  BY LenProperties
<1>2. Told(line) \in SUBSET Nat
  BY <1>1 DEF Told
<1>3. Min(Told(line)) \in Told(line)
  BY <1>2, LeastIn
<1>4. line[Min(Told(line))] \in Lengths
  BY <1>3 DEF Told
<1> QED
  BY <1>4, LengthsAre DEF LengthIn

LEMMA ToldWithEnd ==
    ASSUME NEW S, {CR, LF} \subseteq S, NEW line \in Seq(S), NEW t, t = line \o EndOfLine
    PROVE  /\ Told(t) = Told(line)
           /\ Told(line) # {} => LengthIn(t) = LengthIn(line)
<1>1. EndOfLine \in Seq(S) /\ Len(EndOfLine) = 2 /\ EndOfLine[1] = CR /\ EndOfLine[2] = LF
  BY DEF EndOfLine
<1>2. PICK n \in Nat : n = Len(line)
  BY LenProperties
<1>3. /\ t \in Seq(S) /\ Len(t) = n + 2
      /\ \A k \in 1..n : t[k] = line[k]
      /\ \A k \in 1..2 : t[n + k] = EndOfLine[k]
  <2>0. PICK e \in Seq(S) : e = EndOfLine
    BY <1>1
  <2>1. /\ t \in Seq(S) /\ Len(t) = Len(line) + Len(e)
        /\ \A k \in 1..Len(line) : t[k] = line[k]
        /\ \A k \in 1..Len(e) : t[Len(line) + k] = e[k]
    BY <2>0, Joined
  <2> QED
    BY <1>1, <1>2, <2>0, <2>1
<1>4. DOMAIN line = 1..n /\ DOMAIN t = 1..(n + 2)
  BY <1>2, <1>3, LenProperties
<1>5. \A i \in 1..(n + 2) : t[i] \in Lengths <=> i \in 1..n /\ line[i] \in Lengths
  <2> SUFFICES ASSUME NEW i \in 1..(n + 2)
               PROVE  t[i] \in Lengths <=> i \in 1..n /\ line[i] \in Lengths
    OBVIOUS
  <2>1. CASE i \in 1..n
    BY <1>3, <2>1
  <2>2. CASE i = n + 1
    BY <1>1, <1>3, <2>2, LengthsAre
  <2>3. CASE i = n + 2
    BY <1>1, <1>3, <2>3, LengthsAre
  <2>4. i \in 1..n \/ i = n + 1 \/ i = n + 2
    BY <1>2
  <2> QED
    BY <2>1, <2>2, <2>3, <2>4
<1>6. Told(t) = Told(line)
  BY <1>4, <1>5 DEF Told
<1>7. ASSUME Told(line) # {} PROVE LengthIn(t) = LengthIn(line)
  <2>1. Told(line) \in SUBSET Nat
    BY <1>4 DEF Told
  <2>2. Min(Told(line)) \in 1..n
    BY <1>4, <1>7, <2>1, LeastIn DEF Told
  <2> QED
    BY <1>3, <1>6, <2>2 DEF LengthIn
<1> QED
  BY <1>6, <1>7

\* The local variables have their types, and b is what is next of a line t whose beginning
\* str_fifo has.
Typed(p, Symbols) ==
    p \in [state : {"METHOD", "FILENAME", "CONTENT"},
           method : Seq(Symbols), filename : Seq(Symbols), content : Seq(Symbols),
           str_fifo : Seq(Symbols), content_head : Seq(Symbols),
           content_length : Nat, spilled : BOOLEAN, returned : BOOLEAN]
Fields == Lengths \cup {AUTH}
Has(s, whole, n) == Len(s) = n /\ \A k \in 1..n : s[k] = whole[k]
EndsOnce(t) == \A k \in 1..Len(t) : (k > 1 /\ t[k - 1] = CR /\ t[k] = LF) <=> k = Len(t)

LEMMA HasMore ==
    ASSUME NEW S, NEW s \in Seq(S), NEW whole, NEW n \in Nat, Has(s, whole, n),
           whole[n + 1] \in S
    PROVE  Append(s, whole[n + 1]) \in Seq(S) /\ Has(Append(s, whole[n + 1]), whole, n + 1)
<1>1. PICK b \in S : b = whole[n + 1]
  OBVIOUS
<1>2. /\ Append(s, b) \in Seq(S) /\ Len(Append(s, b)) = Len(s) + 1
      /\ \A i \in 1..Len(s) : Append(s, b)[i] = s[i]
      /\ Append(s, b)[Len(s) + 1] = b
  BY AppendProperties
<1>3. Len(s) = n /\ \A k \in 1..n : s[k] = whole[k]
  BY DEF Has
<1>4. Len(Append(s, b)) = n + 1
  BY <1>2, <1>3
<1>5. ASSUME NEW k \in 1..(n + 1) PROVE Append(s, b)[k] = whole[k]
  <2>1. CASE k \in 1..n
    BY <1>2, <1>3, <2>1
  <2>2. CASE k = n + 1
    BY <1>1, <1>2, <1>3, <2>2
  <2>3. k \in 1..n \/ k = n + 1
    OBVIOUS
  <2> QED
    BY <2>1, <2>2, <2>3
<1> QED
  BY <1>1, <1>2, <1>4, <1>5 DEF Has

\* A byte of a word is taken as long as there is room.
LEMMA FitHas ==
    ASSUME NEW S, NEW s \in Seq(S), NEW whole, NEW n \in Nat, NEW size \in Nat,
           Has(s, whole, Least(size, n)), whole[n + 1] \in S
    PROVE  /\ Fit(s, whole[n + 1], size) \in Seq(S)
           /\ Has(Fit(s, whole[n + 1], size), whole, Least(size, n + 1))
<1>1. Len(s) = Least(size, n)
  BY DEF Has
<1>2. CASE n < size
  <2>1. Least(size, n) = n /\ Least(size, n + 1) = n + 1 /\ Len(s) < size
    BY <1>1, <1>2 DEF Least
  <2> QED
    BY <2>1, HasMore DEF Fit
<1>3. CASE ~(n < size)
  <2>1. Least(size, n) = size /\ Least(size, n + 1) = size /\ ~(Len(s) < size)
    BY <1>1, <1>3 DEF Least
  <2> QED
    BY <2>1 DEF Fit
<1> QED
  BY <1>2, <1>3

LEMMA HasPrefix ==
    ASSUME NEW S, NEW s \in Seq(S), NEW whole \in Seq(S), NEW n \in 0..Len(whole),
           Has(s, whole, n)
    PROVE  IsPrefix(s, whole)
<1>1. PICK l \in Nat : l = Len(whole)
  BY LenProperties
<1>2. Len(s) = n /\ n \in Nat /\ n <= l /\ \A k \in 1..n : s[k] = whole[k]
  BY <1>1 DEF Has
<1>3. \A k \in 1..n : s[k] \in S /\ whole[k] \in S
  BY <1>1, <1>2, ElementOfSeq
<1>4. PICK one \in Int : one = 1
  OBVIOUS
<1>5. /\ SubSeq(whole, one, n) \in Seq(S)
      /\ Len(SubSeq(whole, one, n)) = IF one <= n THEN n - one + 1 ELSE 0
      /\ \A i \in 1..(n - one + 1) : SubSeq(whole, one, n)[i] = whole[one + i - 1]
  BY <1>2, <1>3, <1>4, SubSeqProperties
<1>6. PICK u \in Seq(S) : u = SubSeq(whole, 1, n)
  BY <1>4, <1>5
<1>7. Len(u) = n /\ \A i \in 1..n : u[i] = whole[i]
  <2>1. Len(u) = n
    BY <1>2, <1>4, <1>5, <1>6
  <2>2. ASSUME NEW i \in 1..n PROVE u[i] = whole[i]
    BY <1>2, <1>4, <1>5, <1>6
  <2> QED
    BY <2>1, <2>2
<1>8. u = s
  BY <1>2, <1>7, SeqEqual
<1>9. SubSeq(s, 1, n) = s
  BY <1>2, SubSeqFull
<1> QED
  BY <1>1, <1>2, <1>6, <1>8, <1>9 DEF IsPrefix

\* What Line leaves alone, and its types
LEMMA LineType ==
    ASSUME NEW S, {CR, LF} \subseteq S, NEW p, Typed(p, S), NEW b \in S, NEW q, q = Line(p, b)
    PROVE  /\ Typed(q, S)
           /\ q.state = p.state /\ q.method = p.method /\ q.filename = p.filename
           /\ q.content = p.content /\ q.content_head = p.content_head
           /\ q.returned = p.returned
<1> DEFINE line == LastOf(Append(p.str_fifo, b), Fifo)
<1>1. Fifo \in Nat /\ Fifo - 1 \in Nat
  BY RequestParserAssumption
<1>2. p.str_fifo \in Seq(S) /\ p.content_length \in Nat
  BY DEF Typed
<1>3. Append(p.str_fifo, b) \in Seq(S)
  BY <1>2, AppendProperties
<1>4. line \in Seq(S)
  BY <1>1, <1>3, LastIs
<1>5. LastOf(line, Fifo - 1) \in Seq(S)
  <2> HIDE DEF line
  <2> QED
    BY <1>1, <1>4, LastIs
<1>6. <<>> \in Seq(S)
  BY EmptySeq
<1>7. (IF Told(line) = {} THEN p.content_length ELSE LengthIn(line)) \in Nat
  <2> HIDE DEF line
  <2> QED
    BY <1>2, <1>4, ToldOf
<1>8. \/ q = [p EXCEPT !.str_fifo = <<>>,
                     !.content_length = IF Told(line) = {} THEN p.content_length ELSE LengthIn(line),
                     !.spilled = p.spilled \/ AuthSpills(line)]
      \/ q = [p EXCEPT !.str_fifo = LastOf(line, Fifo - 1)]
  BY DEF Line, LineCleared
<1> HIDE DEF line
<1>9. PICK rest \in Seq(S), length \in Nat, over \in BOOLEAN :
          \/ q = [p EXCEPT !.str_fifo = rest, !.content_length = length, !.spilled = over]
          \/ q = [p EXCEPT !.str_fifo = rest]
  <2>1. (p.spilled \/ AuthSpills(line)) \in BOOLEAN
    OBVIOUS
  <2> QED
    BY <1>5, <1>6, <1>7, <1>8, <2>1
<1> QED
  BY <1>9 DEF Typed

\* In what has neither field neither is found.
LEMMA LineQuiet ==
    ASSUME NEW S, {CR, LF} \subseteq S, NEW p, Typed(p, S), p.str_fifo \in Seq(S \ Fields),
           NEW b \in S \ Fields, NEW q, q = Line(p, b)
    PROVE  /\ q.str_fifo \in Seq(S \ Fields) /\ q.content_length = p.content_length
           /\ q.spilled = p.spilled
<1> DEFINE line == LastOf(Append(p.str_fifo, b), Fifo)
<1>1. Fifo \in Nat /\ Fifo - 1 \in Nat
  BY RequestParserAssumption
<1>3. Append(p.str_fifo, b) \in Seq(S \ Fields)
  BY AppendProperties
<1>4. line \in Seq(S \ Fields)
  BY <1>1, <1>3, LastIs
<1>5. Told(line) = {} /\ ~AuthSpills(line)
  <2> HIDE DEF line
  <2>1. DOMAIN line = 1..Len(line) /\ \A i \in 1..Len(line) : line[i] \in S \ Fields
    BY <1>4, LenProperties, ElementOfSeq
  <2> QED
    BY <2>1 DEF Told, Fields, AuthSpills
<1>6. LastOf(line, Fifo - 1) \in Seq(S \ Fields)
  <2> HIDE DEF line
  <2> QED
    BY <1>1, <1>4, LastIs
<1>7. <<>> \in Seq(S \ Fields)
  BY EmptySeq
<1>8. \/ q = [p EXCEPT !.str_fifo = <<>>,
                     !.content_length = IF Told(line) = {} THEN p.content_length ELSE LengthIn(line),
                     !.spilled = p.spilled \/ AuthSpills(line)]
      \/ q = [p EXCEPT !.str_fifo = LastOf(line, Fifo - 1)]
  BY DEF Line, LineCleared
<1> HIDE DEF line
<1>9. PICK rest \in Seq(S \ Fields) :
          \/ q = [p EXCEPT !.str_fifo = rest, !.content_length = p.content_length,
                           !.spilled = p.spilled]
          \/ q = [p EXCEPT !.str_fifo = rest]
  <2>1. (p.spilled \/ AuthSpills(line)) = p.spilled
    BY <1>5 DEF Typed
  <2> QED
    BY <1>5, <1>6, <1>7, <1>8, <2>1
<1> QED
  BY <1>9 DEF Typed

\* A line that fits is gathered, and what it tells is taken at its end.
LEMMA LineGoes ==
    ASSUME NEW S, {CR, LF} \subseteq S, NEW p, Typed(p, S), NEW t \in Seq(S), Len(t) <= Fifo,
           EndsOnce(t), NEW j \in Nat, j < Len(t), Has(p.str_fifo, t, j),
           NEW q, q = Line(p, t[j + 1])
    PROVE  /\ j + 1 < Len(t) => /\ Has(q.str_fifo, t, j + 1) /\ q.content_length = p.content_length
                                /\ q.spilled = p.spilled
           /\ j + 1 = Len(t) => /\ q.str_fifo = <<>> /\ q.spilled = (p.spilled \/ AuthSpills(t))
                                /\ q.content_length =
                                    IF Told(t) = {} THEN p.content_length ELSE LengthIn(t)
<1>1. PICK d \in Nat : d = Len(t)
  BY LenProperties
<1>2. Fifo \in Nat /\ Fifo - 1 \in Nat /\ j + 1 \in 1..d /\ d <= Fifo
  BY <1>1, RequestParserAssumption
<1>3. PICK b \in S : b = t[j + 1]
  BY <1>1, <1>2, ElementOfSeq
<1>4. p.str_fifo \in Seq(S)
  BY DEF Typed
<1>5. PICK line \in Seq(S) : line = Append(p.str_fifo, b)
  BY <1>4, AppendProperties
<1>6. Has(line, t, j + 1)
  BY <1>3, <1>4, <1>5, HasMore
<1>7. Len(line) = j + 1 /\ \A k \in 1..(j + 1) : line[k] = t[k]
  BY <1>6 DEF Has
<1>8. LastOf(line, Fifo) = line
  BY <1>2, <1>7, LastIs
<1> DEFINE ends == Len(line) > 1 /\ line[Len(line) - 1] = CR /\ b = LF
<1>9. ends <=> j + 1 = d
  <2>1. (j + 1 > 1 /\ t[(j + 1) - 1] = CR /\ t[j + 1] = LF) <=> j + 1 = d
    BY <1>1, <1>2 DEF EndsOnce
  <2>2. j + 1 > 1 => (j + 1) - 1 \in 1..(j + 1) /\ line[(j + 1) - 1] = t[(j + 1) - 1]
    BY <1>7
  <2> QED
    BY <1>3, <1>7, <2>1, <2>2
<1>10. q = IF ends
           THEN [p EXCEPT !.str_fifo = <<>>,
                          !.content_length = IF Told(line) = {} THEN p.content_length ELSE LengthIn(line),
                          !.spilled = p.spilled \/ AuthSpills(line)]
           ELSE [p EXCEPT !.str_fifo = LastOf(line, Fifo - 1)]
  BY <1>3, <1>5, <1>8 DEF Line, LineCleared
<1> HIDE DEF ends
<1>11. CASE j + 1 < d
  <2>1. LastOf(line, Fifo - 1) = line
    BY <1>2, <1>7, <1>11, LastIs
  <2>2. q = [p EXCEPT !.str_fifo = line]
    BY <1>9, <1>10, <1>11, <2>1
  <2>3. q.str_fifo = line /\ q.content_length = p.content_length /\ q.spilled = p.spilled
    BY <2>2 DEF Typed
  <2> QED
    BY <1>1, <1>6, <1>11, <2>3
<1>12. CASE j + 1 = d
  <2>1. line = t
    BY <1>1, <1>7, <1>12, SeqEqual
  <2>2. q = [p EXCEPT !.str_fifo = <<>>,
                     !.content_length = IF Told(t) = {} THEN p.content_length ELSE LengthIn(t),
                     !.spilled = p.spilled \/ AuthSpills(t)]
    BY <1>9, <1>10, <1>12, <2>1
  <2>3. /\ q.str_fifo = <<>> /\ q.spilled = (p.spilled \/ AuthSpills(t))
        /\ q.content_length = IF Told(t) = {} THEN p.content_length ELSE LengthIn(t)
    BY <2>2 DEF Typed
  <2> QED
    BY <1>1, <1>12, <2>3
<1>13. j + 1 < d \/ j + 1 = d
  BY <1>2
<1> QED
  BY <1>11, <1>12, <1>13

\* What stands in a line: no end of a line before its own; the last is nothing else.
LEMMA TextIs ==
    ASSUME NEW r, NEW Symbols, Whole(r, Symbols), NEW i \in 0..Len(r.lines), NEW t, t = Text(r, i)
    PROVE  /\ t \in Seq(Symbols) /\ Len(t) \in Nat /\ Len(t) >= 2
           /\ t[Len(t) - 1] = CR /\ t[Len(t)] = LF
           /\ \A k \in 1..(Len(t) - 2) : t[k] \notin {CR, LF}
           /\ i < Len(r.lines) <=> Len(t) > 2
           /\ i < Len(r.lines) => /\ r.lines[i + 1] \in Seq(Symbols)
                                  /\ Len(t) = Len(r.lines[i + 1]) + 2
<1> DEFINE Set == Seq(Symbols \ {CR, LF}) \ {<<>>}
<1>1. Len(r.lines) \in Nat \ {0} /\ t \in Seq(Symbols) /\ Len(t) \in Nat
  <2>1. Len(r.lines) \in Nat \ {0} /\ t \in Seq(Symbols)
    BY LinesGrow
  <2> QED
    BY <2>1, LenProperties
<1>2. CASE i < Len(r.lines)
  <2>1. r.lines \in Seq(Set) /\ {CR, LF} \subseteq Symbols
    BY DEF Whole
  <2>2. i + 1 \in 1..Len(r.lines)
    BY <1>1, <1>2
  <2>3. r.lines[i + 1] \in Set
    <3> HIDE DEF Set
    <3> QED
      BY <2>1, <2>2, ElementOfSeq
  <2>4. PICK line : line = r.lines[i + 1]
    OBVIOUS
  <2>5. line \in Seq(Symbols \ {CR, LF}) /\ line # <<>>
    BY <2>3, <2>4
  <2>6. line \in Seq(Symbols)
    <3>1. Symbols \ {CR, LF} \subseteq Symbols
      OBVIOUS
    <3> QED
      BY <2>5, <3>1, SeqMonotonic
  <2>7. PICK n \in Nat : n = Len(line)
    BY <2>6, LenProperties
  <2>8. n >= 1
    <3>1. Len(line) \in Nat \ {0}
      BY <2>6, <2>5, EmptySeq
    <3> QED
      BY <2>7, <3>1
  <2>9. \A k \in 1..n : line[k] \in Symbols \ {CR, LF}
    BY <2>5, <2>7, ElementOfSeq
  <2>10. PICK e \in Seq(Symbols) : e = EndOfLine /\ Len(e) = 2 /\ e[1] = CR /\ e[2] = LF
    <3>1. EndOfLine \in Seq(Symbols)
      BY <2>1 DEF EndOfLine
    <3>2. Len(EndOfLine) = 2 /\ EndOfLine[1] = CR /\ EndOfLine[2] = LF
      BY DEF EndOfLine
    <3> QED
      BY <3>1, <3>2
  <2>11. t = line \o e
    BY <1>2, <2>4, <2>10 DEF Text
  <2>12. /\ Len(t) = Len(line) + Len(e)
         /\ \A k \in 1..Len(line) : t[k] = line[k]
         /\ \A k \in 1..Len(e) : t[Len(line) + k] = e[k]
    <3>1. line \in Seq(Symbols) /\ e \in Seq(Symbols)
      BY <2>6, <2>10
    <3>2. Len(t) = Len(line) + Len(e)
      BY <2>11, <3>1, Joined
    <3>3. \A k \in 1..Len(line) : t[k] = line[k]
      BY <2>11, <3>1, Joined
    <3>4. \A k \in 1..Len(e) : t[Len(line) + k] = e[k]
      BY <2>11, <3>1, Joined
    <3> QED
      BY <3>2, <3>3, <3>4
  <2>13. Len(t) = n + 2 /\ \A k \in 1..n : t[k] = line[k]
    BY <2>7, <2>10, <2>12
  <2>14. t[n + 1] = CR /\ t[n + 2] = LF
    BY <2>7, <2>10, <2>12
  <2>15. Len(t) - 1 = n + 1 /\ Len(t) - 2 = n /\ Len(t) > 2
    BY <2>8, <2>13
  <2>16. \A k \in 1..n : t[k] \notin {CR, LF}
    BY <2>9, <2>13
  <2> QED
    BY <1>1, <1>2, <2>4, <2>6, <2>7, <2>13, <2>14, <2>15, <2>16
<1>3. CASE ~(i < Len(r.lines))
  <2>1. t = <<CR, LF>>
    BY <1>3 DEF Text, EndOfLine
  <2>2. Len(t) = 2 /\ t[1] = CR /\ t[2] = LF
    BY <2>1
  <2>3. Len(t) - 1 = 1 /\ Len(t) - 2 = 0 /\ ~(Len(t) > 2)
    BY <2>2
  <2> QED
    BY <1>1, <1>3, <2>2, <2>3
<1> QED
  BY <1>2, <1>3

LEMMA TextEnds ==
    ASSUME NEW r, NEW Symbols, Whole(r, Symbols), NEW i \in 0..Len(r.lines)
    PROVE  EndsOnce(Text(r, i)) /\ (Plain(r) => Len(Text(r, i)) <= Fifo)
<1>1. PICK t : t = Text(r, i)
  OBVIOUS
<1>2. PICK d : d = Len(t)
  OBVIOUS
<1>3. /\ d \in Nat /\ d >= 2
      /\ t[d - 1] = CR /\ t[d] = LF
      /\ \A k \in 1..(d - 2) : t[k] \notin {CR, LF}
      /\ i < Len(r.lines) <=> d > 2
      /\ i < Len(r.lines) => /\ r.lines[i + 1] \in Seq(Symbols)
                             /\ d = Len(r.lines[i + 1]) + 2
  BY <1>1, <1>2, TextIs
<1>4. ASSUME NEW k \in 1..d PROVE (k > 1 /\ t[k - 1] = CR /\ t[k] = LF) <=> k = d
  <2>1. CASE k = d
    BY <1>3, <2>1
  <2>2. CASE k = d - 1
    BY <1>3, <2>2, LengthsAre
  <2>3. CASE k \in 1..(d - 2)
    <3>1. k # d /\ t[k] # LF
      BY <1>3, <2>3
    <3> QED
      BY <3>1
  <2>4. k = d \/ k = d - 1 \/ k \in 1..(d - 2)
    BY <1>3
  <2> QED
    BY <2>1, <2>2, <2>3, <2>4
<1>5. ASSUME Plain(r) PROVE d <= Fifo
  <2>1. CASE i < Len(r.lines)
    <3>1. DOMAIN r.lines = 1..Len(r.lines) /\ Len(r.lines) \in Nat
      <4>1. PICK T : r.lines \in Seq(T)
        BY DEF Whole
      <4> QED
        BY <4>1, LenProperties
    <3>2. i + 1 \in DOMAIN r.lines
      BY <2>1, <3>1
    <3>3. Len(r.lines[i + 1]) <= Fifo - 2
      BY <1>5, <3>2 DEF Plain
    <3>4. PICK n \in Nat : n = Len(r.lines[i + 1])
      BY <1>3, <2>1, LenProperties
    <3> QED
      BY <1>3, <2>1, <3>3, <3>4, RequestParserAssumption
  <2>2. CASE ~(i < Len(r.lines))
    BY <1>3, <2>2, RequestParserAssumption
  <2> QED
    BY <2>1, <2>2
<1> QED
  BY <1>1, <1>2, <1>4, <1>5 DEF EndsOnce

\* A line of a request none of whose words is too long writes over nothing, and the empty line
\* at its end gives no word.
LEMMA TextModest ==
    ASSUME NEW r, NEW Symbols, Whole(r, Symbols), Modest(r), NEW i \in 0..Len(r.lines)
    PROVE  ~AuthSpills(Text(r, i))
<1>1. CASE i < Len(r.lines)
  <2>1. DOMAIN r.lines = 1..Len(r.lines) /\ Len(r.lines) \in Nat
    <3>1. PICK T : r.lines \in Seq(T)
      BY DEF Whole
    <3> QED
      BY <3>1, LenProperties
  <2>2. i + 1 \in DOMAIN r.lines
    BY <1>1, <2>1
  <2> QED
    BY <1>1, <2>2 DEF Modest, Text
<1>2. CASE ~(i < Len(r.lines))
  <2>1. PICK t : t = <<CR, LF>>
    OBVIOUS
  <2>2. Text(r, i) = t
    BY <1>2, <2>1 DEF Text, EndOfLine
  <2>3. \A k \in DOMAIN t : t[k] # AUTH
    <3>1. DOMAIN t = 1..2 /\ t[1] = CR /\ t[2] = LF
      BY <2>1
    <3>2. \A k \in 1..2 : k = 1 \/ k = 2
      OBVIOUS
    <3> QED
      BY <3>1, <3>2 DEF CR, LF, AUTH
  <2> QED
    BY <2>2, <2>3 DEF AuthSpills
<1> QED
  BY <1>1, <1>2

\* What the lines before have told, line by line
LEMMA DeclaredGoes ==
    ASSUME NEW r, NEW Symbols, Whole(r, Symbols), NEW i \in 0..Len(r.lines), NEW t, t = Text(r, i)
    PROVE  /\ DeclaredBy(r, 0) = 0
           /\ i < Len(r.lines) =>
                DeclaredBy(r, i + 1) = IF Told(t) = {} THEN DeclaredBy(r, i) ELSE LengthIn(t)
           /\ i = Len(r.lines) => Told(t) = {}
<1>1. {CR, LF} \subseteq Symbols /\ Len(r.lines) \in Nat
  BY LinesGrow DEF Whole
<1>2. Telling(r, 0) = {}
  BY DEF Telling
<1>3. DeclaredBy(r, 0) = 0
  BY <1>2 DEF DeclaredBy
<1>4. ASSUME i < Len(r.lines)
      PROVE  DeclaredBy(r, i + 1) = IF Told(t) = {} THEN DeclaredBy(r, i) ELSE LengthIn(t)
  <2>1. PICK line \in Seq(Symbols) : line = r.lines[i + 1]
    BY <1>4, TextIs
  <2>2. t = line \o EndOfLine
    BY <1>4, <2>1 DEF Text
  <2>3. Told(t) = Told(line) /\ (Told(line) # {} => LengthIn(t) = LengthIn(line))
    BY <1>1, <2>1, <2>2, ToldWithEnd
  <2>4. CASE Told(line) = {}
    <3>1. Telling(r, i + 1) = Telling(r, i)
      <4>1. \A k \in 1..(i + 1) : k \in 1..i \/ k = i + 1
        OBVIOUS
      <4>2. 1..i \subseteq 1..(i + 1)
        OBVIOUS
      <4> QED
        BY <2>1, <2>4, <4>1, <4>2 DEF Telling
    <3> QED
      BY <2>3, <2>4, <3>1 DEF DeclaredBy
  <2>5. CASE Told(line) # {}
    <3>1. i + 1 \in Telling(r, i + 1) /\ Telling(r, i + 1) \subseteq 1..(i + 1)
      BY <2>1, <2>5 DEF Telling
    <3>2. Max(Telling(r, i + 1)) = i + 1
      <4> DEFINE T == Telling(r, i + 1)
      <4>1. i + 1 \in T /\ (\A y \in T : i + 1 >= y) /\ \A y \in T : y \in Nat
        BY <3>1
      <4> HIDE DEF T
      <4>2. \A x \in T : (\A y \in T : x >= y) => x = i + 1
        BY <4>1
      <4> QED
        BY <4>1, <4>2 DEF Max, T
    <3> QED
      BY <2>1, <2>3, <2>5, <3>1, <3>2 DEF DeclaredBy
  <2> QED
    BY <2>4, <2>5
<1>5. ASSUME i = Len(r.lines) PROVE Told(t) = {}
  <2>1. t = <<CR, LF>>
    BY <1>1, <1>5 DEF Text, EndOfLine
  <2>2. DOMAIN t = 1..2 /\ t[1] = CR /\ t[2] = LF
    BY <2>1
  <2>3. \A k \in 1..2 : k = 1 \/ k = 2
    OBVIOUS
  <2> QED
    BY <2>2, <2>3, LengthsAre DEF Told
<1> QED
  BY <1>3, <1>4, <1>5

-----------------------------------------------------------------------------
\* content_head in the head of a request, with j bytes come of its line i + 1 (of length d; the
\* last is line N + 1): what it ends with
Ending(i, N, d, j, h) ==
    /\ Len(h) <= 4 /\ h # EndOfHead
    /\ j \in 1..(d - 2) => Len(h) >= 1 /\ h[Len(h)] \notin {CR, LF}
    /\ i < N /\ j = d - 1 => Len(h) >= 2 /\ h[Len(h) - 1] \notin {CR, LF} /\ h[Len(h)] = CR
    /\ i > 0 /\ j = 0 => /\ Len(h) >= 3 /\ h[Len(h) - 2] \notin {CR, LF}
                         /\ h[Len(h) - 1] = CR /\ h[Len(h)] = LF
    /\ i = N /\ j = 1 => Len(h) = 4 /\ h[2] = CR /\ h[3] = LF /\ h[4] = CR

LEMMA HeadGoes ==
    ASSUME NEW r, NEW Symbols, Whole(r, Symbols), NEW N, N = Len(r.lines), NEW i \in 0..N,
           NEW t, t = Text(r, i), NEW j \in Nat, j < Len(t),
           NEW h \in Seq(Symbols), Ending(i, N, Len(t), j, h),
           NEW three, three = 3, NEW g, g = Append(LastOf(h, three), t[j + 1])
    PROVE  /\ g \in Seq(Symbols)
           /\ j + 1 < Len(t) => Ending(i, N, Len(t), j + 1, g)
           /\ j + 1 = Len(t) /\ i < N =>
                \A e \in Nat : e >= 2 => Ending(i + 1, N, e, 0, g)
           /\ j + 1 = Len(t) /\ i = N => g = EndOfHead
<1>1. N \in Nat \ {0} /\ {CR, LF} \subseteq Symbols /\ CR # LF
  BY LinesGrow, LengthsAre DEF Whole
<1>2. PICK d : d = Len(t)
  OBVIOUS
<1>3. /\ t \in Seq(Symbols) /\ d \in Nat /\ d >= 2
      /\ t[d - 1] = CR /\ t[d] = LF
      /\ \A k \in 1..(d - 2) : t[k] \notin {CR, LF}
      /\ i < N <=> d > 2
  BY <1>2, TextIs
<1>4. j + 1 \in 1..d /\ i \in Nat /\ (i < N \/ i = N)
  BY <1>1, <1>2, <1>3
<1>5. PICK b \in Symbols : b = t[j + 1]
  BY <1>2, <1>3, <1>4, ElementOfSeq
<1>6. PICK m : m = Len(h)
  OBVIOUS
<1>7. m <= 4
  BY <1>6 DEF Ending
<1>8. PICK n : n = Len(g)
  OBVIOUS
<1>9. g = Append(LastOf(h, three), b)
  BY <1>5
<1>10. /\ g \in Seq(Symbols) /\ m \in Nat /\ n \in 1..4 /\ g[n] = b
       /\ m < 3 => n = m + 1
       /\ m >= 1 => g[n - 1] = h[m]
       /\ m >= 2 => g[n - 2] = h[m - 1]
       /\ m >= 3 => n = 4 /\ g[4] = b /\ g[3] = h[m] /\ g[2] = h[m - 1] /\ g[1] = h[m - 2]
  <2>1. Follows(Symbols, h, m, b, g, n)
    BY <1>6, <1>7, <1>8, <1>9, Four
  <2> QED
    BY <2>1 DEF Follows
<1>11. n \in Nat /\ n <= 4 /\ n = Len(g)
  BY <1>8, <1>10
<1>12. /\ j \in 1..(d - 2) => m >= 1 /\ h[m] \notin {CR, LF}
       /\ i < N /\ j = d - 1 => m >= 2 /\ h[m - 1] \notin {CR, LF} /\ h[m] = CR
       /\ i > 0 /\ j = 0 => m >= 3 /\ h[m - 2] \notin {CR, LF} /\ h[m - 1] = CR /\ h[m] = LF
       /\ i = N /\ j = 1 => m = 4 /\ h[2] = CR /\ h[3] = LF /\ h[4] = CR
  BY <1>2, <1>6 DEF Ending
<1>13. EndOfHead \in Seq(Symbols) /\ Len(EndOfHead) = 4
       /\ EndOfHead[1] = CR /\ EndOfHead[2] = LF /\ EndOfHead[3] = CR /\ EndOfHead[4] = LF
  BY <1>1 DEF EndOfHead
<1>14. CASE j + 1 <= d - 2
  <2>1. b \notin {CR, LF} /\ i < N /\ j + 1 # d - 1 /\ j + 1 # 0 /\ j + 1 < d /\ n >= 1
    BY <1>3, <1>4, <1>5, <1>10, <1>14
  <2>2. g # EndOfHead
    BY <1>10, <1>11, <1>13, <2>1
  <2>3. ~(i = N)
    BY <1>1, <1>4, <2>1
  <2>4. Ending(i, N, d, j + 1, g)
    BY <1>10, <1>11, <2>1, <2>2, <2>3 DEF Ending
  <2> QED
    BY <1>2, <1>10, <2>1, <2>4
<1>15. CASE j + 1 = d - 1 /\ i < N
  <2>1. b = CR /\ j \in 1..(d - 2) /\ j + 1 < d /\ ~(i = N) /\ j + 1 \notin 1..(d - 2) /\ j + 1 # 0
    BY <1>1, <1>3, <1>4, <1>5, <1>15
  <2>2. m >= 1 /\ h[m] \notin {CR, LF}
    BY <1>12, <2>1
  <2>3. n >= 2 /\ g[n] = CR /\ g[n - 1] \notin {CR, LF}
    BY <1>10, <1>11, <2>1, <2>2
  <2>4. g # EndOfHead
    BY <1>1, <1>11, <1>13, <2>3
  <2>5. Ending(i, N, d, j + 1, g)
    BY <1>10, <1>11, <2>1, <2>3, <2>4 DEF Ending
  <2> QED
    BY <1>2, <1>10, <2>1, <2>5
<1>16. CASE j + 1 = d /\ i < N
  <2>1. b = LF /\ j = d - 1 /\ ~(j + 1 < d) /\ ~(i = N)
    BY <1>1, <1>3, <1>4, <1>5, <1>16
  <2>2. m >= 2 /\ h[m - 1] \notin {CR, LF} /\ h[m] = CR
    BY <1>12, <1>16, <2>1
  <2>3. n >= 3 /\ g[n] = LF /\ g[n - 1] = CR /\ g[n - 2] \notin {CR, LF}
    BY <1>10, <1>11, <2>1, <2>2
  <2>4. g # EndOfHead
    <3> SUFFICES ASSUME g = EndOfHead PROVE FALSE
      OBVIOUS
    <3>1. n = 4
      BY <1>8, <1>13
    <3>2. n - 2 = 2
      BY <3>1
    <3>3. g[2] \notin {CR, LF}
      BY <2>3, <3>2
    <3> QED
      BY <1>13, <3>3
  <2>5. ASSUME NEW e \in Nat, e >= 2 PROVE Ending(i + 1, N, e, 0, g)
    <3>1. 0 \notin 1..(e - 2) /\ 0 # e - 1
      BY <2>5
    <3> QED
      BY <1>10, <1>11, <2>3, <2>4, <3>1 DEF Ending
  <2> QED
    BY <1>2, <1>10, <2>1, <2>5
<1>17. CASE i = N /\ j = 0
  <2>1. d = 2 /\ b = CR /\ i > 0 /\ ~(i < N) /\ j + 1 = 1 /\ j + 1 < d
    BY <1>1, <1>3, <1>4, <1>5, <1>17
  <2>2. m >= 3 /\ h[m - 1] = CR /\ h[m] = LF
    BY <1>12, <1>17, <2>1
  <2>3. n = 4 /\ g[4] = CR /\ g[3] = LF /\ g[2] = CR
    <3>1. n = 4 /\ g[4] = b /\ g[3] = h[m] /\ g[2] = h[m - 1]
      BY <1>10, <2>2
    <3> QED
      BY <2>1, <2>2, <3>1
  <2>4. g # EndOfHead
    BY <1>1, <1>13, <2>3
  <2>5. j + 1 \notin 1..(d - 2) /\ j + 1 # 0
    BY <2>1
  <2>6. Ending(i, N, d, j + 1, g)
    BY <1>10, <1>11, <2>1, <2>3, <2>4, <2>5 DEF Ending
  <2> QED
    BY <1>2, <1>10, <2>1, <2>6
<1>18. CASE i = N /\ j = 1
  <2>1. d = 2 /\ b = LF /\ ~(i < N) /\ j + 1 = d /\ ~(j + 1 < d)
    BY <1>1, <1>3, <1>4, <1>5, <1>18
  <2>2. m = 4 /\ h[2] = CR /\ h[3] = LF /\ h[4] = CR
    BY <1>12, <1>18
  <2>3. n = 4 /\ g[4] = LF /\ g[3] = CR /\ g[2] = LF /\ g[1] = CR
    <3>1. n = 4 /\ g[4] = b /\ g[3] = h[m] /\ g[2] = h[m - 1] /\ g[1] = h[m - 2]
      <4>1. m >= 3
        BY <2>2
      <4> QED
        BY <1>10, <4>1
    <3>2. m - 1 = 3 /\ m - 2 = 2
      BY <2>2
    <3> QED
      BY <2>1, <2>2, <3>1, <3>2
  <2>4. \A k \in 1..4 : g[k] = EndOfHead[k]
    <3>1. \A k \in 1..4 : k = 1 \/ k = 2 \/ k = 3 \/ k = 4
      OBVIOUS
    <3> QED
      BY <1>13, <2>3, <3>1
  <2>5. g = EndOfHead
    <3>1. Len(g) = Len(EndOfHead) /\ \A k \in 1..Len(g) : g[k] = EndOfHead[k]
      BY <1>10, <1>11, <1>13, <2>3, <2>4
    <3> QED
      BY <1>10, <1>11, <1>13, <3>1, SeqEqual
  <2> QED
    BY <1>2, <1>10, <2>1, <2>5
<1>19. \/ j + 1 <= d - 2
       \/ j + 1 = d - 1 /\ i < N
       \/ j + 1 = d /\ i < N
       \/ i = N /\ j = 0
       \/ i = N /\ j = 1
  <2>1. i < N => j + 1 <= d - 2 \/ j + 1 = d - 1 \/ j + 1 = d
    BY <1>2, <1>3, <1>4
  <2>2. i = N => j = 0 \/ j = 1
    <3>1. i = N => d = 2
      BY <1>1, <1>3
    <3> QED
      BY <1>2, <3>1
  <2> QED
    BY <1>4, <2>1, <2>2
<1> QED
  BY <1>14, <1>15, <1>16, <1>17, <1>18, <1>19

-----------------------------------------------------------------------------
\* The local variables when t bytes have come: in the method, in the name, in the head, or with
\* the head behind it
Untouched(p) ==
    /\ p.content = <<>> /\ p.str_fifo = <<>> /\ p.content_head = <<>>
    /\ p.content_length = 0 /\ p.spilled = FALSE /\ p.returned = FALSE

WholeMethod(r, p) == Has(p.method, r.method, Least(method_size, Len(r.method)))
WholeName(r, p) == Has(p.filename, r.filename, Least(filename_size, Len(r.filename)))

InMethod(r, p, t) ==
    /\ p.state = "METHOD" /\ Untouched(p) /\ p.filename = <<>>
    /\ t \in 0..Len(r.method) /\ Has(p.method, r.method, Least(method_size, t))

InName(r, p, t) ==
    /\ p.state = "FILENAME" /\ Untouched(p) /\ WholeMethod(r, p)
    /\ \E k \in 0..Len(r.filename) :
        t = Len(r.method) + 1 + k /\ Has(p.filename, r.filename, Least(filename_size, k))

InHead(r, p, t) ==
    /\ p.state = "CONTENT" /\ WholeMethod(r, p) /\ WholeName(r, p)
    /\ p.content = <<>> /\ p.returned = FALSE
    /\ \E i \in 0..Len(r.lines), j \in Nat :
        /\ j < Len(Text(r, i)) /\ t = LineAt(r, i) + j
        /\ Ending(i, Len(r.lines), Len(Text(r, i)), j, p.content_head)
        /\ Plain(r) => /\ Has(p.str_fifo, Text(r, i), j) /\ p.content_length = DeclaredBy(r, i)
                       /\ Modest(r) => p.spilled = FALSE

InBody(r, Symbols, p, t) ==
    /\ p.state = "CONTENT" /\ WholeMethod(r, p) /\ WholeName(r, p)
    /\ p.content_head = EndOfHead
    /\ \E k \in 0..Len(r.body) :
        /\ Has(p.content, r.body, k)
        /\ p.returned = FALSE => t = BodyAt(r) + k
        /\ Plain(r) =>
            /\ p.content_length = Declared(r) /\ p.str_fifo \in Seq(Symbols \ Fields)
            /\ Modest(r) => p.spilled = FALSE
            /\ k <= content_size /\ k <= p.content_length
            /\ p.returned => k = Least(content_size, p.content_length)

AtByte(r, Symbols, p, t) ==
    Typed(p, Symbols) /\ (InMethod(r, p, t) \/ InName(r, p, t) \/ InHead(r, p, t)
                            \/ InBody(r, Symbols, p, t))

LEMMA Sizes ==
    /\ method_size \in Nat /\ filename_size \in Nat /\ content_size \in Nat /\ Pool \in Nat
    /\ Fifo \in Nat
  BY RequestParserAssumption

LEMMA MethodByte ==
    ASSUME NEW r, NEW Symbols, Whole(r, Symbols), NEW p, Typed(p, Symbols), NEW t,
           InMethod(r, p, t), NEW q, q = Byte1(p, Bytes(r)[t + 1])
    PROVE  Typed(q, Symbols) /\ (InMethod(r, q, t + 1) \/ InName(r, q, t + 1))
<1>1. PICK m \in Nat : m = Len(r.method)
  BY BytesAre
<1>2. PICK M \in Seq(Symbols \ {SP}) : M = r.method
  BY DEF Whole
<1>3. t \in Nat /\ t <= m /\ method_size \in Nat /\ SP \in Symbols
  BY <1>1, Sizes DEF InMethod, Whole
<1>4. p.state = "METHOD" /\ p.returned = FALSE /\ p.method \in Seq(Symbols)
  BY DEF InMethod, Untouched, Typed
<1>5. CASE t < m
  <2>1. t + 1 \in 1..m /\ t + 1 <= m
    BY <1>3, <1>5
  <2>2. Bytes(r)[t + 1] = M[t + 1]
    BY <1>1, <1>2, <2>1, BytesAre
  <2>3. M[t + 1] \in Symbols \ {SP}
    BY <1>1, <1>2, <2>1, ElementOfSeq
  <2>4. PICK word \in Seq(Symbols) :
            word = Fit(p.method, M[t + 1], method_size) /\ Has(word, M, Least(method_size, t + 1))
    <3>1. Has(p.method, M, Least(method_size, t))
      BY <1>2 DEF InMethod
    <3> QED
      BY <1>3, <1>4, <2>3, <3>1, FitHas
  <2>5. q = [p EXCEPT !.method = word]
    BY <1>4, <2>2, <2>3, <2>4 DEF Byte1
  <2>6. Typed(q, Symbols)
    BY <2>5 DEF Typed
  <2>7. /\ q.method = word /\ q.state = p.state /\ q.filename = p.filename
        /\ q.content = p.content /\ q.str_fifo = p.str_fifo /\ q.content_head = p.content_head
        /\ q.content_length = p.content_length /\ q.spilled = p.spilled
        /\ q.returned = p.returned
    BY <2>5 DEF Typed
  <2>8. InMethod(r, q, t + 1)
    BY <1>1, <1>2, <1>3, <2>1, <2>4, <2>7 DEF InMethod, Untouched
  <2> QED
    BY <2>6, <2>8
<1>6. CASE ~(t < m)
  <2>1. t = m
    BY <1>1, <1>3, <1>6
  <2>2. Bytes(r)[t + 1] = SP
    BY <1>1, <2>1, BytesAre
  <2>3. q = [p EXCEPT !.state = "FILENAME"]
    BY <1>4, <2>2 DEF Byte1
  <2>4. Typed(q, Symbols)
    BY <2>3 DEF Typed
  <2>5. /\ q.method = p.method /\ q.state = "FILENAME" /\ q.filename = p.filename
        /\ q.content = p.content /\ q.str_fifo = p.str_fifo /\ q.content_head = p.content_head
        /\ q.content_length = p.content_length /\ q.spilled = p.spilled
        /\ q.returned = p.returned
    BY <2>3 DEF Typed
  <2>6. 0 \in 0..Len(r.filename) /\ t + 1 = Len(r.method) + 1 + 0
    BY <1>1, <1>3, <2>1, BytesAre
  <2>7. Has(<<>>, r.filename, Least(filename_size, 0))
    <3>1. Least(filename_size, 0) = 0
      BY Sizes DEF Least
    <3> QED
      BY <3>1 DEF Has
  <2>8. WholeMethod(r, q)
    BY <1>1, <2>1, <2>5 DEF InMethod, WholeMethod
  <2>9. q.filename = <<>> /\ Untouched(q)
    BY <2>5 DEF InMethod, Untouched
  <2>10. InName(r, q, t + 1)
    BY <2>5, <2>6, <2>7, <2>8, <2>9 DEF InName
  <2> QED
    BY <2>4, <2>10
<1> QED
  BY <1>5, <1>6

LEMMA NameByte ==
    ASSUME NEW r, NEW Symbols, Whole(r, Symbols), NEW p, Typed(p, Symbols), NEW t,
           InName(r, p, t), NEW q, q = Byte1(p, Bytes(r)[t + 1])
    PROVE  Typed(q, Symbols) /\ (InName(r, q, t + 1) \/ InHead(r, q, t + 1))
<1>1. PICK m \in Nat, f \in Nat : m = Len(r.method) /\ f = Len(r.filename)
  BY BytesAre
<1>2. PICK F \in Seq(Symbols \ {SP}) : F = r.filename
  BY DEF Whole
<1>3. PICK k \in 0..f : t = m + 1 + k /\ Has(p.filename, F, Least(filename_size, k))
  BY <1>1, <1>2 DEF InName
<1>4. p.state = "FILENAME" /\ p.returned = FALSE /\ p.filename \in Seq(Symbols)
  BY DEF InName, Untouched, Typed
<1>5. filename_size \in Nat /\ SP \in Symbols
  BY Sizes DEF Whole
<1>6. CASE k < f
  <2>1. k + 1 \in 1..f /\ t + 1 = m + 1 + (k + 1) /\ k + 1 \in 0..f
    BY <1>3, <1>6
  <2>2. Bytes(r)[t + 1] = F[k + 1]
    <3>1. \A x \in 1..f : Bytes(r)[m + 1 + x] = F[x]
      BY <1>1, <1>2, BytesAre
    <3> QED
      BY <2>1, <3>1
  <2>3. F[k + 1] \in Symbols \ {SP}
    BY <1>1, <1>2, <2>1, ElementOfSeq
  <2>4. PICK word \in Seq(Symbols) :
            word = Fit(p.filename, F[k + 1], filename_size) /\ Has(word, F, Least(filename_size, k + 1))
    BY <1>3, <1>4, <1>5, <2>3, FitHas
  <2>5. q = [p EXCEPT !.filename = word]
    BY <1>4, <2>2, <2>3, <2>4 DEF Byte1
  <2>6. Typed(q, Symbols)
    BY <2>5 DEF Typed
  <2>7. /\ q.method = p.method /\ q.state = p.state /\ q.filename = word
        /\ q.content = p.content /\ q.str_fifo = p.str_fifo /\ q.content_head = p.content_head
        /\ q.content_length = p.content_length /\ q.spilled = p.spilled
        /\ q.returned = p.returned
    BY <2>5 DEF Typed
  <2>8. Untouched(q) /\ WholeMethod(r, q)
    BY <2>7 DEF InName, Untouched, WholeMethod
  <2>9. InName(r, q, t + 1)
    BY <1>1, <1>2, <1>4, <2>1, <2>4, <2>7, <2>8 DEF InName
  <2> QED
    BY <2>6, <2>9
<1>7. CASE ~(k < f)
  <2>1. k = f /\ t + 1 = m + f + 2
    BY <1>3, <1>7
  <2>2. Begins(r) = m + f + 2 /\ Begins(r) \in Nat
    BY <1>1, BeginsNat DEF Begins
  <2>3. Bytes(r)[t + 1] = SP
    BY <2>1, <2>2, BytesAre
  <2>4. q = [p EXCEPT !.state = "CONTENT"]
    BY <1>4, <2>3 DEF Byte1
  <2>5. Typed(q, Symbols)
    BY <2>4 DEF Typed
  <2>6. /\ q.method = p.method /\ q.state = "CONTENT" /\ q.filename = p.filename
        /\ q.content = p.content /\ q.str_fifo = p.str_fifo /\ q.content_head = p.content_head
        /\ q.content_length = p.content_length /\ q.spilled = p.spilled
        /\ q.returned = p.returned
    BY <2>4 DEF Typed
  <2>7. Untouched(p) /\ WholeMethod(r, p)
    BY DEF InName
  <2>8. WholeMethod(r, q) /\ WholeName(r, q)
    BY <1>1, <1>2, <1>3, <2>1, <2>6, <2>7 DEF WholeMethod, WholeName
  <2>9. PICK N, d : N = Len(r.lines) /\ d = Len(Text(r, 0))
    OBVIOUS
  <2>10. N \in Nat \ {0} /\ 0 \in 0..N
    BY <2>9, LinesGrow
  <2>11. d \in Nat /\ d >= 2
    BY <2>9, <2>10, TextIs
  <2>12. LineAt(r, 0) = t + 1
    <3>1. Lines(r)[0] = <<>>
      BY <2>9, <2>10, LinesAre
    <3>2. Len(<<>>) = 0
      OBVIOUS
    <3> QED
      BY <2>1, <2>2, <3>1, <3>2 DEF LineAt
  <2>13. Ending(0, N, d, 0, <<>>)
    <3>1. Len(<<>>) = 0 /\ <<>> # EndOfHead
      BY DEF EndOfHead
    <3>2. 0 \notin 1..(d - 2) /\ 0 # d - 1 /\ ~(0 > 0) /\ 0 # 1
      BY <2>11
    <3> QED
      BY <3>1, <3>2 DEF Ending
  <2>14. Has(<<>>, Text(r, 0), 0) /\ DeclaredBy(r, 0) = 0
    <3>1. DeclaredBy(r, 0) = 0
      BY <2>9, <2>10, DeclaredGoes
    <3> QED
      BY <3>1 DEF Has
  <2>15. InHead(r, q, t + 1)
    <3>1. q.content = <<>> /\ q.returned = FALSE /\ q.content_head = <<>> /\ q.str_fifo = <<>>
          /\ q.content_length = 0 /\ q.spilled = FALSE
      BY <2>6, <2>7 DEF Untouched
    <3>2. 0 < d /\ t + 1 = LineAt(r, 0) + 0 /\ 0 \in Nat
      BY <1>3, <2>11, <2>12
    <3> QED
      BY <2>6, <2>8, <2>9, <2>10, <2>13, <2>14, <3>1, <3>2 DEF InHead
  <2> QED
    BY <2>5, <2>15
<1> QED
  BY <1>6, <1>7

LEMMA HeadByte ==
    ASSUME NEW r, NEW Symbols, Whole(r, Symbols), NEW p, Typed(p, Symbols), NEW t,
           InHead(r, p, t), NEW q, q = Byte1(p, Bytes(r)[t + 1])
    PROVE  Typed(q, Symbols) /\ (InHead(r, q, t + 1) \/ InBody(r, Symbols, q, t + 1))
<1>1. PICK N \in Nat \ {0} : N = Len(r.lines)
  BY LinesGrow
<1>2. PICK i \in 0..N, j \in Nat :
          /\ j < Len(Text(r, i)) /\ t = LineAt(r, i) + j
          /\ Ending(i, N, Len(Text(r, i)), j, p.content_head)
          /\ Plain(r) => /\ Has(p.str_fifo, Text(r, i), j) /\ p.content_length = DeclaredBy(r, i)
                         /\ Modest(r) => p.spilled = FALSE
  BY <1>1 DEF InHead
<1>3. PICK x \in Seq(Symbols), d \in Nat : x = Text(r, i) /\ d = Len(x)
  BY <1>1, TextIs
<1>4. d >= 2 /\ (i < N <=> d > 2) /\ j + 1 \in 1..d
  BY <1>1, <1>2, <1>3, TextIs
<1>5. PICK a \in Nat : a = LineAt(r, i)
  BY <1>1, LineBytes
<1>6. /\ a + d = IF i < N THEN LineAt(r, i + 1) ELSE BodyAt(r)
      /\ \A k \in 1..d : Bytes(r)[a + k] = x[k]
  BY <1>1, <1>3, <1>5, LineBytes
<1>7. PICK b \in Symbols : b = x[j + 1]
  BY <1>3, <1>4, ElementOfSeq
<1>8. Bytes(r)[t + 1] = b /\ t + 1 = a + (j + 1)
  <2>1. t + 1 = a + (j + 1)
    BY <1>2, <1>5
  <2> QED
    BY <1>4, <1>6, <1>7, <2>1
<1>9. {CR, LF} \subseteq Symbols
  BY DEF Whole
<1>10. PICK l : l = Line(p, b)
  OBVIOUS
<1>11. /\ Typed(l, Symbols)
       /\ l.state = p.state /\ l.method = p.method /\ l.filename = p.filename
       /\ l.content = p.content /\ l.content_head = p.content_head
       /\ l.returned = p.returned
  BY <1>9, <1>10, LineType
<1>12. PICK three : three = 3
  OBVIOUS
<1>13. PICK h \in Seq(Symbols) : h = p.content_head
  BY DEF Typed
<1>14. PICK g : g = Append(LastOf(h, three), x[j + 1])
  OBVIOUS
<1>15. /\ g \in Seq(Symbols)
       /\ j + 1 < d => Ending(i, N, d, j + 1, g)
       /\ j + 1 = d /\ i < N => \A e \in Nat : e >= 2 => Ending(i + 1, N, e, 0, g)
       /\ j + 1 = d /\ i = N => g = EndOfHead
  BY <1>1, <1>2, <1>3, <1>12, <1>13, <1>14, HeadGoes
<1>16. h # EndOfHead
  BY <1>2, <1>13 DEF Ending
<1>17. p.state = "CONTENT" /\ p.returned = FALSE /\ p.content = <<>>
  BY DEF InHead
<1>18. q = [l EXCEPT !.content_head = g]
  <2>1. q = Content(l, b)
    BY <1>8, <1>10, <1>17 DEF Byte1
  <2>2. l.content_head # EndOfHead /\ Append(LastOf(l.content_head, 3), b) = g
    BY <1>7, <1>11, <1>12, <1>13, <1>14, <1>16
  <2> QED
    BY <2>1, <2>2 DEF Content
<1>19. Typed(q, Symbols)
  BY <1>11, <1>15, <1>18 DEF Typed
<1>20. /\ q.state = "CONTENT" /\ q.method = p.method /\ q.filename = p.filename
       /\ q.content = <<>> /\ q.content_head = g /\ q.returned = FALSE
       /\ q.str_fifo = l.str_fifo /\ q.content_length = l.content_length /\ q.spilled = l.spilled
  BY <1>11, <1>17, <1>18 DEF Typed
<1>21. WholeMethod(r, q) /\ WholeName(r, q)
  BY <1>20 DEF InHead, WholeMethod, WholeName
<1>22. Plain(r) => /\ j + 1 < d => Has(l.str_fifo, x, j + 1) /\ l.content_length = DeclaredBy(r, i)
                   /\ j + 1 = d => /\ l.str_fifo = <<>>
                                   /\ l.content_length =
                                        IF Told(x) = {} THEN DeclaredBy(r, i) ELSE LengthIn(x)
                   /\ Modest(r) => l.spilled = FALSE
  <2> SUFFICES ASSUME Plain(r)
               PROVE  /\ j + 1 < d => Has(l.str_fifo, x, j + 1) /\ l.content_length = DeclaredBy(r, i)
                      /\ j + 1 = d => /\ l.str_fifo = <<>>
                                      /\ l.content_length =
                                            IF Told(x) = {} THEN DeclaredBy(r, i) ELSE LengthIn(x)
                      /\ Modest(r) => l.spilled = FALSE
    OBVIOUS
  <2>1. EndsOnce(x) /\ Len(x) <= Fifo
    BY <1>1, <1>3, TextEnds
  <2>2. Has(p.str_fifo, x, j) /\ p.content_length = DeclaredBy(r, i) /\ j < Len(x)
    BY <1>2, <1>3
  <2>3. l = Line(p, x[j + 1])
    BY <1>7, <1>10
  <2>4. /\ j + 1 < Len(x) => /\ Has(l.str_fifo, x, j + 1) /\ l.content_length = p.content_length
                             /\ l.spilled = p.spilled
        /\ j + 1 = Len(x) => /\ l.str_fifo = <<>> /\ l.spilled = (p.spilled \/ AuthSpills(x))
                             /\ l.content_length =
                                    IF Told(x) = {} THEN p.content_length ELSE LengthIn(x)
    BY <1>9, <2>1, <2>2, <2>3, LineGoes
  <2>5. ASSUME Modest(r) PROVE l.spilled = FALSE
    <3>1. p.spilled = FALSE
      BY <1>2, <2>5
    <3>2. ~AuthSpills(x)
      BY <1>1, <1>3, <2>5, TextModest
    <3>3. j + 1 < Len(x) \/ j + 1 = Len(x)
      BY <1>3, <1>4
    <3>4. j + 1 < Len(x) => l.spilled = p.spilled
      BY <2>4
    <3>5. j + 1 = Len(x) => l.spilled = (p.spilled \/ AuthSpills(x))
      BY <2>4
    <3> QED
      BY <3>1, <3>2, <3>3, <3>4, <3>5
  <2> QED
    BY <1>3, <2>2, <2>4, <2>5
<1>23. CASE j + 1 < d
  <2>1. i \in 0..Len(r.lines) /\ j + 1 \in Nat /\ t + 1 = LineAt(r, i) + (j + 1)
    BY <1>1, <1>5, <1>8
  <2>2. Plain(r) => /\ Has(q.str_fifo, Text(r, i), j + 1) /\ q.content_length = DeclaredBy(r, i)
                    /\ Modest(r) => q.spilled = FALSE
    BY <1>3, <1>20, <1>22, <1>23
  <2>3. j + 1 < Len(Text(r, i)) /\ Ending(i, Len(r.lines), Len(Text(r, i)), j + 1, q.content_head)
    BY <1>1, <1>3, <1>15, <1>20, <1>23
  <2>4. InHead(r, q, t + 1)
    BY <1>20, <1>21, <2>1, <2>2, <2>3 DEF InHead
  <2> QED
    BY <1>19, <2>4
<1>24. CASE j + 1 = d /\ i < N
  <2>1. i + 1 \in 0..N
    BY <1>1, <1>24
  <2>2. PICK e \in Nat : e = Len(Text(r, i + 1)) /\ e >= 2
    BY <1>1, <2>1, TextIs
  <2>3. Ending(i + 1, Len(r.lines), Len(Text(r, i + 1)), 0, q.content_head)
    BY <1>1, <1>15, <1>20, <1>24, <2>2
  <2>4. 0 \in Nat /\ 0 < Len(Text(r, i + 1)) /\ t + 1 = LineAt(r, i + 1) + 0
    <3>1. t + 1 = LineAt(r, i + 1) /\ t + 1 \in Nat
      BY <1>5, <1>6, <1>8, <1>24
    <3> QED
      BY <2>2, <3>1
  <2>5. Plain(r) => /\ Has(q.str_fifo, Text(r, i + 1), 0) /\ q.content_length = DeclaredBy(r, i + 1)
                    /\ Modest(r) => q.spilled = FALSE
    <3> SUFFICES ASSUME Plain(r)
                 PROVE  /\ Has(q.str_fifo, Text(r, i + 1), 0) /\ q.content_length = DeclaredBy(r, i + 1)
                        /\ Modest(r) => q.spilled = FALSE
      OBVIOUS
    <3>1. DeclaredBy(r, i + 1) = IF Told(x) = {} THEN DeclaredBy(r, i) ELSE LengthIn(x)
      BY <1>1, <1>3, <1>24, DeclaredGoes
    <3>2. q.str_fifo = <<>> /\ q.content_length = DeclaredBy(r, i + 1)
      BY <1>20, <1>22, <1>24, <3>1
    <3>3. Modest(r) => q.spilled = FALSE
      BY <1>20, <1>22
    <3> QED
      BY <3>2, <3>3 DEF Has
  <2>6. InHead(r, q, t + 1)
    BY <1>1, <1>20, <1>21, <2>1, <2>3, <2>4, <2>5 DEF InHead
  <2> QED
    BY <1>19, <2>6
<1>25. CASE j + 1 = d /\ i = N
  <2>1. q.content_head = EndOfHead
    BY <1>15, <1>20, <1>25
  <2>2. t + 1 = BodyAt(r) + 0 /\ 0 \in 0..Len(r.body)
    <3>1. t + 1 = BodyAt(r) /\ t + 1 \in Nat
      BY <1>1, <1>5, <1>6, <1>8, <1>25
    <3>2. Len(r.body) \in Nat
      BY BytesAre
    <3> QED
      BY <3>1, <3>2
  <2>3. Has(q.content, r.body, 0)
    BY <1>20 DEF Has
  <2>4. q.content_length \in Nat /\ content_size \in Nat
    BY <1>19, Sizes DEF Typed
  <2>5. ASSUME Plain(r)
        PROVE  /\ q.content_length = Declared(r) /\ q.str_fifo \in Seq(Symbols \ Fields)
               /\ Modest(r) => q.spilled = FALSE
    <3>1. Told(x) = {}
      BY <1>1, <1>3, <1>25, DeclaredGoes
    <3>2. q.str_fifo = <<>> /\ q.content_length = DeclaredBy(r, N)
      BY <1>20, <1>22, <1>25, <2>5, <3>1
    <3>3. Modest(r) => q.spilled = FALSE
      BY <1>20, <1>22, <2>5
    <3> QED
      BY <1>1, <3>2, <3>3, EmptySeq DEF Declared
  <2>6. /\ 0 <= content_size /\ 0 <= q.content_length
        /\ ~q.returned
    BY <1>20, <2>4
  <2>7. InBody(r, Symbols, q, t + 1)
    BY <1>20, <1>21, <2>1, <2>2, <2>3, <2>5, <2>6 DEF InBody
  <2> QED
    BY <1>19, <2>7
<1>26. j + 1 < d \/ (j + 1 = d /\ i < N) \/ (j + 1 = d /\ i = N)
  BY <1>1, <1>4
<1> QED
  BY <1>23, <1>24, <1>25, <1>26

LEMMA BodyByte ==
    ASSUME NEW r, NEW Symbols, Whole(r, Symbols), NEW p, Typed(p, Symbols), NEW t \in Nat,
           t + 1 <= Len(Bytes(r)), InBody(r, Symbols, p, t), NEW q, q = Byte1(p, Bytes(r)[t + 1])
    PROVE  Typed(q, Symbols) /\ InBody(r, Symbols, q, t + 1)
<1>1. PICK n \in Nat, a \in Nat : n = Len(r.body) /\ a = BodyAt(r) /\ Len(Bytes(r)) = a + n
  BY BytesAre
<1>2. PICK k \in 0..n :
        /\ Has(p.content, r.body, k)
        /\ p.returned = FALSE => t = a + k
        /\ Plain(r) =>
            /\ p.content_length = Declared(r) /\ p.str_fifo \in Seq(Symbols \ Fields)
            /\ Modest(r) => p.spilled = FALSE
            /\ k <= content_size /\ k <= p.content_length
            /\ p.returned => k = Least(content_size, p.content_length)
  BY <1>1 DEF InBody
<1>3. p.state = "CONTENT" /\ p.content_head = EndOfHead
  BY DEF InBody
<1>4. CASE p.returned
  <2>0. p.returned = TRUE
    BY <1>4 DEF Typed
  <2>1. q = p
    BY <1>3, <1>4, <2>0 DEF Byte1
  <2>2. ~(q.returned = FALSE)
    BY <2>0, <2>1
  <2> QED
    BY <2>1, <2>2 DEF InBody
<1>5. CASE ~p.returned
  <2>1. p.returned = FALSE
    BY <1>5 DEF Typed
  <2>2. k + 1 \in 1..n /\ t + 1 = a + (k + 1) /\ k \in Nat
    BY <1>1, <1>2, <2>1
  <2>3. r.body \in Seq(Symbols) /\ {CR, LF} \subseteq Symbols
    BY DEF Whole
  <2>4. PICK b \in Symbols : b = r.body[k + 1]
    BY <1>1, <2>2, <2>3, ElementOfSeq
  <2>5. Bytes(r)[t + 1] = b
    <3>1. \A c \in 1..n : Bytes(r)[a + c] = r.body[c]
      BY <1>1, BytesAre
    <3> QED
      BY <2>2, <2>4, <3>1
  <2>6. PICK l : l = Line(p, b)
    OBVIOUS
  <2>7. /\ Typed(l, Symbols)
        /\ l.state = p.state /\ l.method = p.method /\ l.filename = p.filename
        /\ l.content = p.content /\ l.content_head = p.content_head
        /\ l.returned = p.returned
    BY <2>3, <2>6, LineType
  <2>8. Plain(r) => /\ l.str_fifo \in Seq(Symbols \ Fields) /\ l.content_length = p.content_length
                    /\ l.spilled = p.spilled
    <3> SUFFICES ASSUME Plain(r)
                 PROVE  /\ l.str_fifo \in Seq(Symbols \ Fields) /\ l.content_length = p.content_length
                        /\ l.spilled = p.spilled
      OBVIOUS
    <3>1. DOMAIN r.body = 1..n
      BY <1>1, <2>3, LenProperties
    <3>2. b \in Symbols \ Fields
      BY <2>2, <2>4, <3>1 DEF Plain, Fields
    <3> QED
      BY <1>2, <2>3, <2>6, <3>2, LineQuiet
  <2>9. q = Content(l, b)
    BY <1>3, <1>5, <2>5, <2>6 DEF Byte1
  <2>10. l.content_length \in Nat /\ l.content \in Seq(Symbols) /\ content_size \in Nat
    BY <2>7, Sizes DEF Typed
  <2>11. Len(l.content) = k
    BY <1>2, <2>7 DEF Has
  <2>12. CASE k < content_size /\ k < l.content_length
    <3>1. PICK more \in Seq(Symbols) : more = Append(l.content, b) /\ Has(more, r.body, k + 1)
      <4>1. Has(l.content, r.body, k)
        BY <1>2, <2>7
      <4> QED
        BY <2>2, <2>4, <2>10, <4>1, HasMore
    <3>2. q = [l EXCEPT !.content = more]
      BY <1>3, <2>7, <2>9, <2>11, <2>12, <3>1 DEF Content
    <3>3. Typed(q, Symbols)
      BY <2>7, <3>1, <3>2 DEF Typed
    <3>4. /\ q.state = "CONTENT" /\ q.method = p.method /\ q.filename = p.filename
          /\ q.content = more /\ q.content_head = EndOfHead /\ q.returned = FALSE
          /\ q.str_fifo = l.str_fifo /\ q.content_length = l.content_length /\ q.spilled = l.spilled
      BY <1>3, <2>1, <2>7, <3>2 DEF Typed
    <3>5. WholeMethod(r, q) /\ WholeName(r, q)
      BY <3>4 DEF InBody, WholeMethod, WholeName
    <3>6. k + 1 \in 0..Len(r.body) /\ t + 1 = BodyAt(r) + (k + 1)
      BY <1>1, <2>2
    <3>7. k + 1 <= content_size /\ k + 1 <= q.content_length
      BY <2>2, <2>10, <2>12, <3>4
    <3>8. Plain(r) => /\ q.content_length = Declared(r) /\ q.str_fifo \in Seq(Symbols \ Fields)
                      /\ Modest(r) => q.spilled = FALSE
      BY <1>2, <2>8, <3>4
    <3>9. Has(q.content, r.body, k + 1)
      BY <3>1, <3>4
    <3>10. InBody(r, Symbols, q, t + 1)
      BY <3>4, <3>5, <3>6, <3>7, <3>8, <3>9 DEF InBody
    <3> QED
      BY <3>3, <3>10
  <2>13. CASE ~(k < content_size /\ k < l.content_length)
    <3>1. q = [l EXCEPT !.returned = TRUE]
      BY <1>3, <2>7, <2>9, <2>11, <2>13 DEF Content
    <3>2. Typed(q, Symbols)
      BY <2>7, <3>1 DEF Typed
    <3>3. /\ q.state = "CONTENT" /\ q.method = p.method /\ q.filename = p.filename
          /\ q.content = p.content /\ q.content_head = EndOfHead /\ q.returned = TRUE
          /\ q.str_fifo = l.str_fifo /\ q.content_length = l.content_length /\ q.spilled = l.spilled
      BY <1>3, <2>7, <3>1 DEF Typed
    <3>4. WholeMethod(r, q) /\ WholeName(r, q)
      BY <3>3 DEF InBody, WholeMethod, WholeName
    <3>5. Plain(r) =>
            /\ q.content_length = Declared(r) /\ q.str_fifo \in Seq(Symbols \ Fields)
            /\ Modest(r) => q.spilled = FALSE
            /\ k <= content_size /\ k <= q.content_length
      BY <1>2, <2>8, <3>3
    <3>6. Plain(r) => k = Least(content_size, q.content_length)
      BY <2>2, <2>10, <2>13, <3>3, <3>5 DEF Least
    <3>7. k \in 0..Len(r.body) /\ Has(q.content, r.body, k)
      BY <1>1, <1>2, <3>3
    <3>8. InBody(r, Symbols, q, t + 1)
      BY <3>3, <3>4, <3>5, <3>6, <3>7 DEF InBody
    <3> QED
      BY <3>2, <3>8
  <2> QED
    BY <2>12, <2>13
<1> QED
  BY <1>4, <1>5

LEMMA AnyByte ==
    ASSUME NEW r, NEW Symbols, Whole(r, Symbols), NEW p, NEW t \in Nat, AtByte(r, Symbols, p, t),
           t + 1 <= Len(Bytes(r))
    PROVE  AtByte(r, Symbols, Byte1(p, Bytes(r)[t + 1]), t + 1)
<1>1. PICK q : q = Byte1(p, Bytes(r)[t + 1])
  OBVIOUS
<1>2. Typed(p, Symbols)
  BY DEF AtByte
<1>3. CASE InMethod(r, p, t)
  BY <1>1, <1>2, <1>3, MethodByte DEF AtByte
<1>4. CASE InName(r, p, t)
  BY <1>1, <1>2, <1>4, NameByte DEF AtByte
<1>5. CASE InHead(r, p, t)
  BY <1>1, <1>2, <1>5, HeadByte DEF AtByte
<1>6. CASE InBody(r, Symbols, p, t)
  BY <1>1, <1>2, <1>6, BodyByte DEF AtByte
<1> QED
  BY <1>3, <1>4, <1>5, <1>6 DEF AtByte

\* However much comes at a time, the loop takes the bytes one by one.
LEMMA PieceTaken ==
    ASSUME NEW r, NEW Symbols, Whole(r, Symbols), NEW p, NEW t \in Nat, AtByte(r, Symbols, p, t),
           NEW n \in Nat, t + n <= Len(Bytes(r)), NEW s, s = SubSeq(Bytes(r), t + 1, t + n)
    PROVE  AtByte(r, Symbols, Parsed(p, s), t + n)
<1>1. PICK B \in Seq(Symbols) : B = Bytes(r)
  BY BytesAre
<1>2. PICK l \in Nat : l = Len(B)
  BY LenProperties
<1>3. t + n <= l
  BY <1>1, <1>2
<1>4. PICK f \in Int, e \in Int : f = t + 1 /\ e = t + n
  OBVIOUS
<1>5. \A i \in f..e : B[i] \in Symbols
  <2>1. f..e \subseteq 1..l
    BY <1>3, <1>4
  <2> QED
    BY <1>2, <2>1, ElementOfSeq
<1>6. /\ SubSeq(B, f, e) \in Seq(Symbols)
      /\ Len(SubSeq(B, f, e)) = IF f <= e THEN e - f + 1 ELSE 0
      /\ \A i \in 1..(e - f + 1) : SubSeq(B, f, e)[i] = B[f + i - 1]
  BY <1>5, SubSeqProperties
<1>7. s = SubSeq(B, f, e)
  BY <1>1, <1>4
<1>8. Len(s) = n
  BY <1>4, <1>6, <1>7
<1>9. ASSUME NEW i \in 1..n PROVE s[i] = B[(t + (i - 1)) + 1]
  <2>1. i \in 1..(e - f + 1) /\ f + i - 1 = (t + (i - 1)) + 1
    BY <1>4
  <2> QED
    BY <1>6, <1>7, <2>1
<1>10. PICK after : /\ after[0] = p /\ Parsed(p, s) = after[n]
                    /\ \A i \in 1..n : after[i] = Byte1(after[i - 1], s[i])
  <2>1. \E after : After(after, p, s, n)
    BY <1>8, ParsedIs
  <2> QED
    BY <2>1 DEF After
<1> DEFINE S == {k \in Nat : k <= n => AtByte(r, Symbols, after[k], t + k)}
<1>11. 0 \in S
  <2>1. t + 0 = t
    OBVIOUS
  <2> QED
    BY <1>10, <2>1
<1>12. ASSUME NEW k \in S PROVE k + 1 \in S
  <2> SUFFICES ASSUME k + 1 <= n PROVE AtByte(r, Symbols, after[k + 1], t + (k + 1))
    OBVIOUS
  <2>1. k \in Nat /\ k + 1 \in 1..n /\ (k + 1) - 1 = k /\ t + (k + 1) = (t + k) + 1
    OBVIOUS
  <2>2. AtByte(r, Symbols, after[k], t + k)
    BY <2>1
  <2>3. PICK u \in Nat : u = t + k
    BY <2>1
  <2>4. u + 1 <= Len(Bytes(r)) /\ s[k + 1] = Bytes(r)[u + 1]
    BY <1>1, <1>2, <1>3, <1>9, <2>1, <2>3
  <2>5. AtByte(r, Symbols, Byte1(after[k], Bytes(r)[u + 1]), u + 1)
    BY <2>2, <2>3, <2>4, AnyByte
  <2>6. after[k + 1] = Byte1(after[k], s[k + 1])
    BY <1>10, <2>1
  <2> QED
    BY <2>1, <2>3, <2>4, <2>5, <2>6
<1>13. S = Nat
  <2>1. S \in SUBSET Nat
    OBVIOUS
  <2> HIDE DEF S
  <2> QED
    BY <1>11, <1>12, <2>1, NatSets
<1>14. AtByte(r, Symbols, after[n], t + n)
  <2>1. n \in S /\ n <= n
    BY <1>13
  <2> QED
    BY <2>1
<1> QED
  BY <1>10, <1>14

-----------------------------------------------------------------------------
WebInv ==
    /\ request \in Requests /\ taken \in Nat /\ web # "off"
    /\ \E Symbols : Whole(request, Symbols) /\ AtByte(request, Symbols, parse, taken)
    /\ web = "complete" => parse.returned = TRUE
    /\ web = "spilled" => parse.spilled = TRUE

LEMMA WebInitInv == WebInit(TRUE) => WebInv
<1> SUFFICES ASSUME WebInit(TRUE) PROVE WebInv
  OBVIOUS
<1>1. /\ taken = 0 /\ parse = Start /\ web = "read" /\ request \in Requests
  BY DEF WebInit
<1>2. PICK Symbols : Whole(request, Symbols)
  BY <1>1, RequestsAssumption
<1>3. <<>> \in Seq(Symbols) /\ Len(<<>>) = 0
  BY EmptySeq
<1>4. Typed(parse, Symbols)
  BY <1>1, <1>3 DEF Typed, Start
<1>5. InMethod(request, parse, 0)
  <2>1. 0 \in 0..Len(request.method)
    BY <1>2, BeginsNat
  <2>2. Has(<<>>, request.method, Least(method_size, 0))
    <3>1. Least(method_size, 0) = 0
      BY Sizes DEF Least
    <3> QED
      BY <3>1 DEF Has
  <2> QED
    BY <1>1, <2>1, <2>2 DEF InMethod, Untouched, Start
<1> QED
  BY <1>1, <1>2, <1>4, <1>5 DEF WebInv, AtByte

LEMMA WebStep == WebInv /\ [WebNext]_web_vars => WebInv'
<1> SUFFICES ASSUME WebInv, [WebNext]_web_vars PROVE WebInv'
  OBVIOUS
<1>1. CASE Receive
  <2>1. PICK n \in 1..Pool :
          /\ taken + n <= Len(Bytes(request)) /\ taken' = taken + n
          /\ parse' = Parsed(parse, SubSeq(Bytes(request), taken + 1, taken + n))
    BY <1>1 DEF Receive
  <2>2. PICK Symbols : Whole(request, Symbols) /\ AtByte(request, Symbols, parse, taken)
    BY DEF WebInv
  <2>3. n \in Nat /\ taken \in Nat /\ request' = request /\ request \in Requests
    BY <1>1, Sizes DEF Receive, WebInv
  <2>4. PICK s : s = SubSeq(Bytes(request), taken + 1, taken + n)
    OBVIOUS
  <2>5. AtByte(request, Symbols, Parsed(parse, s), taken + n)
    BY <2>1, <2>2, <2>3, <2>4, PieceTaken
  <2>6. AtByte(request', Symbols, parse', taken') /\ Whole(request', Symbols)
    BY <2>1, <2>2, <2>3, <2>4, <2>5
  <2>7. taken' \in Nat
    BY <2>1, <2>3
  <2>8. parse'.returned \in BOOLEAN /\ parse'.spilled \in BOOLEAN
    BY <2>6 DEF AtByte, Typed
  <2>9. /\ web' # "off" /\ (web' = "complete" => parse'.returned = TRUE)
        /\ web' = "spilled" => parse'.spilled = TRUE
    BY <1>1, <2>8 DEF Receive
  <2> QED
    BY <2>3, <2>6, <2>7, <2>9 DEF WebInv
<1>2. CASE GiveUp
  BY <1>2 DEF GiveUp, WebInv
<1>3. CASE UNCHANGED web_vars
  BY <1>3 DEF web_vars, WebInv
<1> QED
  BY <1>1, <1>2, <1>3 DEF WebNext

\* A word that is in the local variables as far as it fits
LEMMA WordPrefix ==
    ASSUME NEW S, NEW s \in Seq(S), NEW whole \in Seq(S), NEW size \in Nat, NEW n \in 0..Len(whole),
           Has(s, whole, Least(size, n))
    PROVE  IsPrefix(s, whole)
<1>1. PICK l \in Nat : l = Len(whole)
  BY LenProperties
<1>2. PICK k : k = Least(size, n)
  OBVIOUS
<1>3. k \in 0..Len(whole)
  BY <1>1, <1>2 DEF Least
<1> QED
  BY <1>2, <1>3, HasPrefix

LEMMA EmptyPrefix ==
    ASSUME NEW S, NEW s, s = <<>>, NEW whole \in Seq(S)
    PROVE  IsPrefix(s, whole)
<1>1. s \in Seq(S) /\ 0 \in 0..Len(whole)
  BY EmptySeq, LenProperties
<1>2. Has(s, whole, 0)
  BY DEF Has
<1> QED
  BY <1>1, <1>2, HasPrefix

LEMMA WebInvRight == WebInv => RequestRight
<1> SUFFICES ASSUME WebInv PROVE RequestRight
  OBVIOUS
<1>1. PICK Symbols : Whole(request, Symbols) /\ AtByte(request, Symbols, parse, taken)
  BY DEF WebInv
<1> DEFINE r == request
           p == parse
<1>2. PICK M \in Seq(Symbols), F \in Seq(Symbols), B \in Seq(Symbols) :
          M = r.method /\ F = r.filename /\ B = r.body
  <2>1. PICK M, F : M = r.method /\ F = r.filename
    OBVIOUS
  <2>2. Symbols \ {SP} \subseteq Symbols /\ M \in Seq(Symbols \ {SP}) /\ F \in Seq(Symbols \ {SP})
    BY <1>1, <2>1 DEF Whole
  <2>3. M \in Seq(Symbols) /\ F \in Seq(Symbols)
    BY <2>2, SeqMonotonic
  <2> QED
    BY <1>1, <2>1, <2>3 DEF Whole
<1>3. Len(M) \in Nat /\ Len(F) \in Nat /\ Len(B) \in Nat
  BY LenProperties
<1>4. p.method \in Seq(Symbols) /\ p.filename \in Seq(Symbols) /\ p.content \in Seq(Symbols)
  BY <1>1 DEF AtByte, Typed
<1>5. method_size \in Nat /\ filename_size \in Nat
  BY Sizes
<1>6. WholeMethod(r, p) => IsPrefix(p.method, M)
  <2>1. Len(M) \in 0..Len(M)
    BY <1>3
  <2> QED
    BY <1>2, <1>4, <1>5, <2>1, WordPrefix DEF WholeMethod
<1>7. WholeName(r, p) => IsPrefix(p.filename, F)
  <2>1. Len(F) \in 0..Len(F)
    BY <1>3
  <2> QED
    BY <1>2, <1>4, <1>5, <2>1, WordPrefix DEF WholeName
<1>8. /\ p.filename = <<>> => IsPrefix(p.filename, F)
      /\ p.content = <<>> => IsPrefix(p.content, B)
  BY EmptyPrefix
<1>13. SpilledByOneLine
  <2> SUFFICES ASSUME web = "spilled", Plain(r), Modest(r) PROVE FALSE
    BY DEF SpilledByOneLine
  <2>1. p.spilled = TRUE
    BY DEF WebInv
  <2>2. p.spilled = FALSE
    BY <1>1 DEF AtByte, InMethod, InName, InHead, InBody, Untouched
  <2> QED
    BY <2>1, <2>2
<1>9. CASE InMethod(r, p, taken)
  <2>1. IsPrefix(p.method, M)
    BY <1>2, <1>4, <1>5, <1>9, WordPrefix DEF InMethod
  <2>2. p.filename = <<>> /\ p.content = <<>> /\ p.returned = FALSE
    BY <1>9 DEF InMethod, Untouched
  <2>3. web # "complete"
    BY <2>2 DEF WebInv
  <2> QED
    BY <1>2, <1>8, <1>13, <2>1, <2>2, <2>3 DEF RequestRight, PartsOfRequest, CompleteIsWhole
<1>10. CASE InName(r, p, taken)
  <2>1. IsPrefix(p.filename, F)
    <3>1. PICK k \in 0..Len(F) : Has(p.filename, F, Least(filename_size, k))
      BY <1>2, <1>10 DEF InName
    <3> QED
      BY <1>4, <1>5, <3>1, WordPrefix
  <2>2. p.content = <<>> /\ p.returned = FALSE /\ IsPrefix(p.method, M)
    BY <1>6, <1>10 DEF InName, Untouched
  <2>3. web # "complete"
    BY <2>2 DEF WebInv
  <2> QED
    BY <1>2, <1>8, <1>13, <2>1, <2>2, <2>3 DEF RequestRight, PartsOfRequest, CompleteIsWhole
<1>11. CASE InHead(r, p, taken)
  <2>1. /\ p.content = <<>> /\ p.returned = FALSE
        /\ IsPrefix(p.method, M) /\ IsPrefix(p.filename, F)
    BY <1>6, <1>7, <1>11 DEF InHead
  <2>2. web # "complete"
    BY <2>1 DEF WebInv
  <2> QED
    BY <1>2, <1>8, <1>13, <2>1, <2>2 DEF RequestRight, PartsOfRequest, CompleteIsWhole
<1>12. CASE InBody(r, Symbols, p, taken)
  <2>1. WholeMethod(r, p) /\ WholeName(r, p)
    BY <1>12 DEF InBody
  <2>2. PICK k \in 0..Len(B) :
          /\ Has(p.content, B, k)
          /\ Plain(r) => /\ p.content_length = Declared(r)
                         /\ p.returned => k = Least(content_size, p.content_length)
    BY <1>2, <1>12 DEF InBody
  <2>3. IsPrefix(p.content, B)
    BY <1>4, <2>2, HasPrefix
  <2>4. PartsOfRequest
    BY <1>2, <1>6, <1>7, <2>1, <2>3 DEF PartsOfRequest
  <2>5. ASSUME web = "complete", Plain(r)
        PROVE  /\ Len(p.method) = Least(method_size, Len(r.method))
               /\ Len(p.filename) = Least(filename_size, Len(r.filename))
               /\ Len(p.content) = Least(content_size, Declared(r))
    <3>1. p.returned = TRUE
      BY <2>5 DEF WebInv
    <3>2. Len(p.content) = Least(content_size, Declared(r))
      BY <2>2, <2>5, <3>1 DEF Has
    <3> QED
      BY <2>1, <3>2 DEF WholeMethod, WholeName, Has
  <2> QED
    BY <1>13, <2>4, <2>5 DEF RequestRight, CompleteIsWhole
<1> QED
  BY <1>1, <1>9, <1>10, <1>11, <1>12 DEF AtByte

\* However a request is cut into pieces, what is taken for its method, name and content is the
\* beginning of them as long as nothing has been written behind auth; one taken for complete is,
\* with its lines no longer than the buffer; and only a user too long for auth in one of these
\* lines writes behind it.
THEOREM RequestTaken == WebSpec => []RequestRight
<1>1. WebInit(TRUE) => WebInv
  BY WebInitInv
<1>2. WebInv /\ [WebNext]_web_vars => WebInv'
  BY WebStep
<1>3. WebInv => RequestRight
  BY WebInvRight
<1> QED
  BY <1>1, <1>2, <1>3, PTL DEF WebSpec

-----------------------------------------------------------------------------
\* NTP_get_time: the date and the time are those of the calendar, for all years, zones and
\* seconds that the assumption allows.

CalendarSpec == CalendarInit(TRUE) /\ [][CalendarNext]_calendar_vars

\* A year of the loop has 365 or 366 days, and the next one begins after them.
LEMMA YearLengths == ASSUME NEW y \in Nat PROVE YearLength(y) \in {365, 366}
  BY DEF YearLength

LEMMA NextYear ==
    ASSUME NEW y \in Nat \ {0}
    PROVE  YearBegins(y + 1) = YearBegins(y) + YearLength(y)
<1>1. /\ y \div 4 = (y - 1) \div 4 + (IF y % 4 = 0 THEN 1 ELSE 0)
      /\ y \div 100 = (y - 1) \div 100 + (IF y % 100 = 0 THEN 1 ELSE 0)
      /\ y \div 400 = (y - 1) \div 400 + (IF y % 400 = 0 THEN 1 ELSE 0)
  BY SMT
<1>2. (y % 400 = 0 => y % 100 = 0) /\ (y % 100 = 0 => y % 4 = 0)
  BY SMT
<1>3. YearLength(y) = 365 + (IF y % 4 = 0 THEN 1 ELSE 0) - (IF y % 100 = 0 THEN 1 ELSE 0)
                          + (IF y % 400 = 0 THEN 1 ELSE 0)
  BY <1>2 DEF YearLength
<1>4. y + 1 - 1 = y
  OBVIOUS
<1> QED
  BY <1>1, <1>3, <1>4, SMT DEF YearBegins

\* Days are counted from the start of 1970, and later years begin later.
LEMMA FirstYear == YearBegins(1970) = 0
  BY SMT DEF YearBegins

LEMMA YearBeginsInt == ASSUME NEW y \in Nat PROVE YearBegins(y) \in Int
  BY SMT DEF YearBegins

LEMMA YearsFollow ==
    ASSUME NEW y \in Nat \ {0}, NEW z \in Nat, z >= y
    PROVE  YearBegins(z) >= YearBegins(y)
<1> DEFINE S == {j \in Nat : YearBegins(y + j) >= YearBegins(y)}
<1>1. 0 \in S
  <2>1. y + 0 = y /\ YearBegins(y) \in Int
    BY YearBeginsInt
  <2>2. YearBegins(y) >= YearBegins(y)
    BY <2>1
  <2> QED
    BY <2>1, <2>2
<1>2. ASSUME NEW j \in S PROVE j + 1 \in S
  <2>1. j \in Nat /\ y + j \in Nat \ {0} /\ y + (j + 1) = (y + j) + 1 /\ j + 1 \in Nat
    OBVIOUS
  <2>2. YearBegins(y + (j + 1)) = YearBegins(y + j) + YearLength(y + j)
    BY <2>1, NextYear
  <2>3. YearBegins(y) \in Int /\ YearBegins(y + j) \in Int /\ YearLength(y + j) \in {365, 366}
    BY <2>1, YearBeginsInt, YearLengths
  <2>4. YearBegins(y + j) >= YearBegins(y)
    BY <1>2
  <2>5. YearBegins(y + (j + 1)) >= YearBegins(y)
    BY <2>2, <2>3, <2>4
  <2> QED
    BY <2>1, <2>5
<1>3. S \in SUBSET Nat
  OBVIOUS
<1>4. S = Nat
  <2> HIDE DEF S
  <2> QED
    BY <1>1, <1>2, <1>3, NatSets
<1> DEFINE j == z - y
<1>5. j \in Nat /\ y + j = z
  OBVIOUS
<1>6. j \in S
  BY <1>4, <1>5
<1>7. YearBegins(y + j) >= YearBegins(y)
  BY <1>6
<1> HIDE DEF j
<1> QED
  BY <1>5, <1>7


\* The loop over the years as an equation.
Left(m) == (0..m) \X Nat
YearGone(left) == <<left[1] - YearLength(left[2]), left[2] + 1>>
Loops(f, m) == f = [left \in Left(m) |-> IF left[1] > 365 THEN f[YearGone(left)] ELSE left]

\* The function that the loop is satisfies it, on as many days as are counted.
LEMMA YearLoops ==
    ASSUME NEW m \in Nat
    PROVE  \E f : Year(m) = f[<<m, 1970>>] /\ Loops(f, m)
<1> DEFINE S == {n \in Nat : \E f : Loops(f, n)}
<1>0. ASSUME NEW n \in Nat, NEW left \in Left(n + 1), left[1] > 365
      PROVE  YearGone(left) \in Left(n)
  <2>1. PICK c \in 0..(n + 1), y \in Nat : left = <<c, y>>
    BY <1>0 DEF Left
  <2>2. YearLength(y) \in {365, 366}
    BY YearLengths
  <2>3. c - YearLength(y) \in 0..n /\ y + 1 \in Nat
    BY <1>0, <2>1, <2>2
  <2> QED
    BY <2>1, <2>3 DEF Left, YearGone
<1>1. 0 \in S
  <2> DEFINE g == [left \in Left(0) |-> left]
  <2>1. \A left \in Left(0) : ~(left[1] > 365)
    BY DEF Left
  <2>2. g = [left \in Left(0) |-> IF left[1] > 365 THEN g[YearGone(left)] ELSE left]
    BY <2>1
  <2>3. Loops(g, 0)
    BY <2>2 DEF Loops
  <2> QED
    BY <2>3
<1>2. ASSUME NEW n \in S PROVE n + 1 \in S
  <2>1. PICK f : Loops(f, n)
    BY <1>2
  <2>2. n \in Nat /\ n + 1 \in Nat
    OBVIOUS
  <2>3. \A left \in Left(n) : f[left] = IF left[1] > 365 THEN f[YearGone(left)] ELSE left
    BY <2>1 DEF Loops
  <2> DEFINE Value(left) == IF left[1] > 365 THEN f[YearGone(left)] ELSE left
             g == [left \in Left(n + 1) |-> Value(left)]
  <2>4. ASSUME NEW left \in Left(n) PROVE g[left] = f[left]
    <3>1. left \in Left(n + 1)
      BY <2>2 DEF Left
    <3> QED
      BY <2>3, <3>1
  <2>5. ASSUME NEW left \in Left(n + 1)
        PROVE  Value(left) = IF left[1] > 365 THEN g[YearGone(left)] ELSE left
    <3>1. CASE left[1] > 365
      <4>1. YearGone(left) \in Left(n)
        BY <1>0, <2>2, <3>1
      <4>2. g[YearGone(left)] = f[YearGone(left)]
        BY <2>4, <4>1
      <4> HIDE DEF g
      <4> QED
        BY <3>1, <4>2
    <3>2. CASE ~(left[1] > 365)
      BY <3>2
    <3> QED
      BY <3>1, <3>2
  <2>6. g = [left \in Left(n + 1) |-> IF left[1] > 365 THEN g[YearGone(left)] ELSE left]
    <3> DEFINE Again(h, left) == IF left[1] > 365 THEN h[YearGone(left)] ELSE left
    <3>1. \A left \in Left(n + 1) : Value(left) = Again(g, left)
      BY <2>5
    <3> HIDE DEF Value, Again
    <3>2. g = [left \in Left(n + 1) |-> Again(g, left)]
      BY <3>1
    <3> QED
      BY <3>2 DEF Again
  <2> HIDE DEF g
  <2>7. Loops(g, n + 1)
    BY <2>6 DEF Loops
  <2> QED
    BY <2>2, <2>7
<1>3. S = Nat
  <2>1. S \in SUBSET Nat
    OBVIOUS
  <2> HIDE DEF S
  <2> QED
    BY <1>1, <1>2, <2>1, NatSets
<1>4. \E f : Loops(f, m)
  BY <1>3
<1> DEFINE from == CHOOSE f : Loops(f, m)
<1>5. Loops(from, m)
  BY <1>4
<1>6. Year(m) = from[<<m, 1970>>]
  BY DEF Year, Loops, Left, YearGone
<1> HIDE DEF from
<1> QED
  BY <1>5, <1>6

\* Of the days counted it takes those of the years that are gone, and with the 366th day of
\* a leap year the year itself.
LEMMA YearIs ==
    ASSUME NEW y \in Nat, y >= 1970, NEW k \in 1..YearLength(y), NEW c \in Int,
           c = YearBegins(y) + k
    PROVE  c \in Nat /\ Year(c) = IF k = 366 THEN <<0, y + 1>> ELSE <<k, y>>
<1>1. \A z \in Nat : z >= 1970 => YearBegins(z) \in Nat
  <2> TAKE z \in Nat
  <2> HAVE z >= 1970
  <2>1. YearBegins(z) >= YearBegins(1970) /\ YearBegins(z) \in Int
    BY YearsFollow, YearBeginsInt
  <2> QED
    BY <2>1, FirstYear
<1>2. k \in Int /\ 1 <= k /\ k <= YearLength(y) /\ YearLength(y) \in {365, 366} /\ YearBegins(y) \in Nat
  BY <1>1, YearLengths
<1>3. c \in Nat
  BY <1>2
<1>4. PICK f : Year(c) = f[<<c, 1970>>] /\ Loops(f, c)
  BY <1>3, YearLoops
<1>5. ASSUME NEW r \in 0..c, NEW z \in Nat
      PROVE  f[<<r, z>>] = IF r > 365 THEN f[<<r - YearLength(z), z + 1>>] ELSE <<r, z>>
  <2> DEFINE left == <<r, z>>
  <2>1. left \in Left(c)
    BY DEF Left
  <2>2. f[left] = IF left[1] > 365 THEN f[YearGone(left)] ELSE left
    <3> HIDE DEF left
    <3> QED
      BY <1>4, <2>1 DEF Loops
  <2> QED
    BY <2>2 DEF YearGone
<1> DEFINE S == {n \in Nat : 1970 + n <= y => f[<<c, 1970>>] = f[<<c - YearBegins(1970 + n), 1970 + n>>]}
<1>6. 0 \in S
  BY <1>3, FirstYear
<1>7. ASSUME NEW n \in S PROVE n + 1 \in S
  <2> SUFFICES ASSUME 1970 + (n + 1) <= y
               PROVE  f[<<c, 1970>>] = f[<<c - YearBegins(1970 + (n + 1)), 1970 + (n + 1)>>]
    OBVIOUS
  <2> DEFINE z == 1970 + n
  <2>1. n \in Nat /\ z \in Nat \ {0} /\ z + 1 \in Nat \ {0} /\ z + 1 = 1970 + (n + 1) /\ z + 1 <= y /\ z >= 1970
    OBVIOUS
  <2>2. f[<<c, 1970>>] = f[<<c - YearBegins(z), z>>]
    BY <1>7, <2>1
  <2> HIDE DEF z
  <2>3. YearBegins(z + 1) = YearBegins(z) + YearLength(z)
    BY <2>1, NextYear
  <2>4. YearBegins(y) >= YearBegins(z + 1)
    BY <2>1, YearsFollow
  <2>5. YearBegins(z) \in Nat /\ YearLength(z) \in {365, 366} /\ YearBegins(z + 1) \in Nat
    BY <1>1, <2>1, YearLengths
  <2>6. c - YearBegins(z) \in 0..c /\ c - YearBegins(z) > 365
    BY <1>2, <1>3, <2>3, <2>4, <2>5
  <2>7. f[<<c - YearBegins(z), z>>] = f[<<(c - YearBegins(z)) - YearLength(z), z + 1>>]
    BY <1>5, <2>1, <2>6
  <2>8. (c - YearBegins(z)) - YearLength(z) = c - YearBegins(z + 1)
    BY <1>3, <2>3, <2>5
  <2> QED
    BY <2>1, <2>2, <2>7, <2>8
<1>8. S = Nat
  <2>1. S \in SUBSET Nat
    OBVIOUS
  <2> HIDE DEF S
  <2> QED
    BY <1>6, <1>7, <2>1, NatSets
<1>9. f[<<c, 1970>>] = f[<<k, y>>]
  <2> DEFINE j == y - 1970
  <2>1. j \in Nat /\ 1970 + j = y /\ c - YearBegins(y) = k
    BY <1>2
  <2> HIDE DEF j
  <2>2. j \in S
    <3> HIDE DEF S
    <3> QED
      BY <1>8, <2>1
  <2>3. 1970 + j <= y
    BY <2>1
  <2>4. f[<<c, 1970>>] = f[<<c - YearBegins(1970 + j), 1970 + j>>]
    BY <2>2, <2>3
  <2> QED
    BY <2>1, <2>4
<1>10. k \in 0..c
  BY <1>2
<1>11. CASE k = 366
  <2>1. f[<<k, y>>] = f[<<k - YearLength(y), y + 1>>] /\ YearLength(y) = 366
    BY <1>2, <1>5, <1>10, <1>11
  <2>2. k - YearLength(y) = 0 /\ 0 \in 0..c /\ y + 1 \in Nat
    BY <1>3, <1>11, <2>1
  <2>3. f[<<0, y + 1>>] = <<0, y + 1>>
    <3>1. PICK none \in 0..c : none = 0
      BY <2>2
    <3>2. PICK next \in Nat : next = y + 1
      BY <2>2
    <3>3. ~(none > 365)
      BY <3>1
    <3>4. f[<<none, next>>] = IF none > 365 THEN f[<<none - YearLength(next), next + 1>>] ELSE <<none, next>>
      BY <1>5
    <3>5. f[<<none, next>>] = <<none, next>>
      BY <3>3, <3>4
    <3> QED
      BY <3>1, <3>2, <3>5
  <2> QED
    BY <1>3, <1>4, <1>9, <1>11, <2>1, <2>2, <2>3
<1>12. CASE k # 366
  <2>1. ~(k > 365)
    BY <1>2, <1>12
  <2>2. f[<<k, y>>] = IF k > 365 THEN f[<<k - YearLength(y), y + 1>>] ELSE <<k, y>>
    BY <1>5, <1>10
  <2>3. f[<<k, y>>] = <<k, y>>
    BY <2>1, <2>2
  <2> QED
    BY <1>3, <1>4, <1>9, <1>12, <2>3
<1> QED
  BY <1>11, <1>12

\* The loop over the months as an equation.
MonthGone(d) ==
    LET m == m_d_table(d.year)[d.month]
    IN IF d.day > m THEN [d EXCEPT !.day = @ - m, !.month = @ + 1] ELSE d
FirstOf(left) == [year |-> left[2], month |-> 1, day |-> left[1]]

\* So does the one over the months.
LEMMA MonthLoops ==
    ASSUME NEW days \in Int
    PROVE  \E after : /\ DateOf(days) = after[11] /\ after[0] = FirstOf(Year(days + 1))
                      /\ \A n \in 1..11 : after[n] = MonthGone(after[n - 1])
<1> DEFINE d0 == FirstOf(Year(days + 1))
           Made(f, m) == f = [n \in 0..m |-> IF n = 0 THEN d0 ELSE MonthGone(f[n - 1])]
           S == {m \in Nat : \E f : Made(f, m)}
<1> HIDE DEF d0
<1>1. 0 \in S
  <2> DEFINE g == [n \in 0..0 |-> d0]
  <2>1. g = [n \in 0..0 |-> IF n = 0 THEN d0 ELSE MonthGone(g[n - 1])]
    OBVIOUS
  <2>2. Made(g, 0)
    BY <2>1
  <2> QED
    BY <2>2
<1>2. ASSUME NEW m \in S PROVE m + 1 \in S
  <2>1. PICK f : Made(f, m)
    BY <1>2
  <2>2. m \in Nat /\ m + 1 \in Nat
    OBVIOUS
  <2> DEFINE Value(n) == IF n = 0 THEN d0 ELSE MonthGone(f[n - 1])
             g == [n \in 0..(m + 1) |-> Value(n)]
  <2>3. \A n \in 0..m : g[n] = f[n]
    BY <2>1, <2>2
  <2>4. \A n \in 0..(m + 1) : Value(n) = IF n = 0 THEN d0 ELSE MonthGone(g[n - 1])
    <3>1. \A n \in 0..(m + 1) : n # 0 => n - 1 \in 0..m
      BY <2>2
    <3> HIDE DEF g
    <3> QED
      BY <2>3, <3>1
  <2>5. g = [n \in 0..(m + 1) |-> IF n = 0 THEN d0 ELSE MonthGone(g[n - 1])]
    <3> DEFINE Again(h, n) == IF n = 0 THEN d0 ELSE MonthGone(h[n - 1])
    <3>1. \A n \in 0..(m + 1) : Value(n) = Again(g, n)
      BY <2>4
    <3> HIDE DEF Value, Again
    <3>2. g = [n \in 0..(m + 1) |-> Again(g, n)]
      BY <3>1
    <3> QED
      BY <3>2 DEF Again
  <2> HIDE DEF g
  <2>6. Made(g, m + 1)
    BY <2>5
  <2> QED
    BY <2>2, <2>6
<1>3. S = Nat
  <2>1. S \in SUBSET Nat
    OBVIOUS
  <2> HIDE DEF S
  <2> QED
    BY <1>1, <1>2, <2>1, NatSets
<1>4. \E f : Made(f, 11)
  <2>1. 11 \in S
    BY <1>3
  <2> QED
    BY <2>1
<1> DEFINE after == CHOOSE f : Made(f, 11)
<1>5. Made(after, 11)
  BY <1>4
<1>6. DateOf(days) = after[11]
  BY DEF DateOf, d0, FirstOf, MonthGone
<1> HIDE DEF after
<1>7. after[0] = d0 /\ \A n \in 1..11 : after[n] = MonthGone(after[n - 1])
  BY <1>5
<1> QED
  BY <1>6, <1>7 DEF d0

\* The days of a year before a month of it.
DaysBefore(y, m) ==
    LET f == YearLength(y) - 337
    IN <<0, 31, 31 + f, 62 + f, 92 + f, 123 + f, 153 + f, 184 + f, 215 + f, 245 + f, 276 + f, 306 + f>>[m]

\* The tables agree with the calendar.
LEMMA MonthIs ==
    ASSUME NEW y \in Nat, NEW m \in 1..12
    PROVE  /\ m_d_table(y)[m] = MonthLength(y, m) /\ MonthLength(y, m) \in 28..31
           /\ DaysBefore(y, m) \in Nat /\ DaysBefore(y, m) <= 335 /\ DaysBefore(y, 1) = 0
           /\ m < 12 => DaysBefore(y, m + 1) = DaysBefore(y, m) + MonthLength(y, m)
           /\ m = 12 => YearLength(y) = DaysBefore(y, m) + MonthLength(y, m)
<1>1. \/ m = 1 \/ m = 2 \/ m = 3 \/ m = 4 \/ m = 5 \/ m = 6
      \/ m = 7 \/ m = 8 \/ m = 9 \/ m = 10 \/ m = 11 \/ m = 12
  OBVIOUS
<1>2. YearLength(y) = (IF Leap(y) THEN 366 ELSE 365) /\ YearLength(y) \in {365, 366}
  BY DEF YearLength, Leap
<1>3. m_d_table(y)[m] = MonthLength(y, m) /\ MonthLength(y, m) \in 28..31
  BY <1>1, <1>2 DEF m_d_table, MonthLength
<1>4. DaysBefore(y, m) \in Nat /\ DaysBefore(y, m) <= 335 /\ DaysBefore(y, 1) = 0
  BY <1>1, <1>2 DEF DaysBefore
<1>5. m < 12 => DaysBefore(y, m + 1) = DaysBefore(y, m) + MonthLength(y, m)
  BY <1>1, <1>2 DEF DaysBefore, MonthLength
<1>6. m = 12 => YearLength(y) = DaysBefore(y, m) + MonthLength(y, m)
  BY <1>2 DEF DaysBefore, MonthLength
<1> QED
  BY <1>3, <1>4, <1>5, <1>6

\* Later months begin later.
LEMMA MonthsFollow ==
    ASSUME NEW y \in Nat, NEW m \in 1..12, NEW j \in 1..m
    PROVE  DaysBefore(y, j) <= DaysBefore(y, m)
<1> DEFINE f == YearLength(y) - 337
<1>1. f \in {28, 29}
  BY YearLengths
<1>2. \A i \in 1..12 :
          DaysBefore(y, i) = <<0, 31, 31 + f, 62 + f, 92 + f, 123 + f, 153 + f, 184 + f,
                               215 + f, 245 + f, 276 + f, 306 + f>>[i]
  BY DEF DaysBefore
<1> HIDE DEF f
<1>3. \/ m = 1 \/ m = 2 \/ m = 3 \/ m = 4 \/ m = 5 \/ m = 6
      \/ m = 7 \/ m = 8 \/ m = 9 \/ m = 10 \/ m = 11 \/ m = 12
  OBVIOUS
<1>4. \/ j = 1 \/ j = 2 \/ j = 3 \/ j = 4 \/ j = 5 \/ j = 6
      \/ j = 7 \/ j = 8 \/ j = 9 \/ j = 10 \/ j = 11 \/ j = 12
  OBVIOUS
<1> QED
  BY <1>1, <1>2, <1>3, <1>4

\* Dates of the calendar, and the day of the year that one is.
IsDate(d) ==
    /\ d = [year |-> d.year, month |-> d.month, day |-> d.day]
    /\ d.year \in Nat /\ d.year >= 1970 /\ d.month \in 1..12
    /\ d.day \in 1..MonthLength(d.year, d.month)
DayOf(d) == DaysBefore(d.year, d.month) + d.day

\* The 366th day is the last of a leap year.
LEMMA DayIs ==
    ASSUME NEW d, IsDate(d)
    PROVE  /\ DayOf(d) \in 1..YearLength(d.year)
           /\ DayOf(d) = 366 <=> LastOfLeapYear(d)
<1> DEFINE y == d.year
           m == d.month
<1>1. y \in Nat /\ m \in 1..12 /\ d.day \in Int /\ 1 <= d.day /\ d.day <= MonthLength(y, m)
  <2>1. MonthLength(y, m) \in 28..31
    BY MonthIs DEF IsDate
  <2> QED
    BY <2>1 DEF IsDate
<1>2. YearLength(y) \in {365, 366} /\ (YearLength(y) = 366 <=> Leap(y))
  BY <1>1 DEF YearLength, Leap
<1>3. \A i \in 1..12 :
          /\ MonthLength(y, i) \in 28..31 /\ DaysBefore(y, i) \in Nat /\ DaysBefore(y, i) <= 335
          /\ i < 12 => DaysBefore(y, i + 1) = DaysBefore(y, i) + MonthLength(y, i)
          /\ i = 12 => YearLength(y) = DaysBefore(y, i) + MonthLength(y, i)
  BY <1>1, MonthIs
<1>4. DaysBefore(y, m) \in Nat /\ DaysBefore(y, m) <= 335 /\ MonthLength(y, m) \in 28..31
  BY <1>1, <1>3
<1>5. CASE m = 12
  <2>1. MonthLength(y, m) = 31
    BY <1>5 DEF MonthLength
  <2>2. YearLength(y) = DaysBefore(y, m) + 31
    BY <1>1, <1>3, <1>5, <2>1
  <2> HIDE DEF y, m
  <2>3. DaysBefore(y, m) + d.day \in 1..YearLength(y)
    BY <1>1, <1>2, <1>4, <2>1, <2>2
  <2>4. DaysBefore(y, m) + d.day = 366 <=> Leap(y) /\ d.day = 31
    BY <1>1, <1>2, <1>4, <2>1, <2>2
  <2> QED
    BY <1>5, <2>3, <2>4 DEF DayOf, LastOfLeapYear, y, m
<1>6. CASE m < 12
  <2>1. PICK next \in 1..12 : next = m + 1
    BY <1>1, <1>6
  <2>2. DaysBefore(y, next) = DaysBefore(y, m) + MonthLength(y, m)
    BY <1>1, <1>3, <1>6, <2>1
  <2>3. DaysBefore(y, next) \in Nat /\ DaysBefore(y, next) <= 335
    BY <1>3
  <2> HIDE DEF y, m
  <2>4. DaysBefore(y, m) + d.day \in Nat /\ 1 <= DaysBefore(y, m) + d.day /\ DaysBefore(y, m) + d.day <= 335
    <3>1. PICK b \in Nat : b = DaysBefore(y, m)
      BY <1>4
    <3>2. PICK a \in Nat : a = DaysBefore(y, next) /\ a <= 335
      BY <2>3
    <3>3. PICK l \in 28..31 : l = MonthLength(y, m)
      BY <1>4
    <3>4. PICK k \in Int : k = d.day /\ 1 <= k /\ k <= l
      BY <1>1, <3>3
    <3>5. a = b + l
      BY <2>2, <3>1, <3>2, <3>3
    <3>6. 1 <= k /\ k <= l
      BY <3>4
    <3>7. b + k \in Nat /\ 1 <= b + k /\ b + k <= 335
      BY <3>2, <3>5, <3>6
    <3> QED
      BY <3>1, <3>4, <3>7
  <2>5. DaysBefore(y, m) + d.day \in 1..YearLength(y) /\ DaysBefore(y, m) + d.day # 366
    BY <1>2, <2>4
  <2>6. m # 12
    BY <1>6, <1>1
  <2> QED
    BY <2>5, <2>6 DEF DayOf, LastOfLeapYear, y, m
<1> QED
  BY <1>1, <1>5, <1>6

\* Each day has its date, but for the last of a leap year.
LEMMA DateIs ==
    ASSUME NEW d, IsDate(d), NEW n \in Int, n = YearBegins(d.year) + DayOf(d) - 1
    PROVE  DateOf(n) = IF LastOfLeapYear(d) THEN [year |-> d.year + 1, month |-> 1, day |-> 0] ELSE d
<1>1. PICK y \in Nat : y = d.year /\ y >= 1970
  BY DEF IsDate
<1>2. PICK m \in 1..12 : m = d.month
  BY DEF IsDate
<1>3. PICK k \in 1..YearLength(y) : k = DayOf(d)
  BY <1>1, DayIs
<1>4. YearBegins(y) \in Int /\ YearLength(y) \in {365, 366} /\ k \in Int
  BY YearBeginsInt, YearLengths
<1>5. PICK c \in Int : c = n + 1 /\ c = YearBegins(y) + k
  BY <1>1, <1>3, <1>4
<1>6. c \in Nat /\ Year(c) = IF k = 366 THEN <<0, y + 1>> ELSE <<k, y>>
  BY <1>1, <1>5, YearIs
<1>7. PICK after : /\ DateOf(n) = after[11] /\ after[0] = FirstOf(Year(n + 1))
                   /\ \A i \in 1..11 : after[i] = MonthGone(after[i - 1])
  BY MonthLoops
<1>8. k = 366 <=> LastOfLeapYear(d)
  BY <1>1, <1>3, DayIs
<1>9. CASE k = 366
  <2> DEFINE last == [year |-> y + 1, month |-> 1, day |-> 0]
             S == {i \in Nat : i <= 11 => after[i] = last}
  <2>1. MonthGone(last) = last
    <3>1. m_d_table(y + 1)[1] = 31
      BY DEF m_d_table
    <3>2. last.year = y + 1 /\ last.month = 1 /\ last.day = 0
      OBVIOUS
    <3> HIDE DEF last
    <3>3. ~(last.day > m_d_table(last.year)[last.month])
      BY <3>1, <3>2
    <3> QED
      BY <3>3 DEF MonthGone
  <2>2. after[0] = last
    BY <1>5, <1>6, <1>7, <1>9 DEF FirstOf
  <2> HIDE DEF last
  <2>3. 0 \in S
    BY <2>2
  <2>4. ASSUME NEW i \in S PROVE i + 1 \in S
    <3> SUFFICES ASSUME i + 1 <= 11 PROVE after[i + 1] = last
      OBVIOUS
    <3>1. PICK j \in 1..11 : j = i + 1 /\ j - 1 = i
      OBVIOUS
    <3>2. after[i] = last
      BY <3>1
    <3>3. after[j] = MonthGone(after[j - 1])
      BY <1>7
    <3> QED
      BY <2>1, <3>1, <3>2, <3>3
  <2>5. S = Nat
    <3>1. S \in SUBSET Nat
      OBVIOUS
    <3> HIDE DEF S
    <3> QED
      BY <2>3, <2>4, <3>1, NatSets
  <2>6. after[11] = last
    <3>1. 11 \in S
      BY <2>5
    <3> QED
      BY <3>1
  <2> QED
    BY <1>1, <1>7, <1>8, <1>9, <2>6 DEF last
<1>10. CASE k # 366
  <2> DEFINE At(i) == IF i < m THEN [year |-> y, month |-> i + 1, day |-> k - DaysBefore(y, i + 1)] ELSE d
             S == {i \in Nat : i <= 11 => after[i] = At(i)}
  <2>0. \A i \in 1..12 :
            /\ m_d_table(y)[i] = MonthLength(y, i) /\ MonthLength(y, i) \in 28..31
            /\ DaysBefore(y, i) \in Nat /\ DaysBefore(y, i) <= 335 /\ DaysBefore(y, 1) = 0
            /\ i < 12 => DaysBefore(y, i + 1) = DaysBefore(y, i) + MonthLength(y, i)
    BY MonthIs
  <2>1. d = [year |-> y, month |-> m, day |-> k - DaysBefore(y, m)] /\ d.day \in Int
        /\ d.day >= 1 /\ d.day <= MonthLength(y, m) /\ d.day = k - DaysBefore(y, m)
    BY <1>1, <1>2, <1>3, <2>0 DEF IsDate, DayOf
  <2>2. MonthGone(d) = d
    <3>1. ~(d.day > m_d_table(d.year)[d.month])
      BY <1>1, <1>2, <2>0, <2>1
    <3> QED
      BY <3>1 DEF MonthGone
  <2>3. 0 \in S
    <3>1. after[0] = [year |-> y, month |-> 1, day |-> k]
      BY <1>5, <1>6, <1>7, <1>10 DEF FirstOf
    <3>2. k - DaysBefore(y, 1) = k /\ 0 + 1 = 1 /\ 0 < m
      BY <1>4, <2>0
    <3>3. At(0) = [year |-> y, month |-> 1, day |-> k]
      BY <3>2
    <3> QED
      BY <3>1, <3>3
  <2>4. ASSUME NEW i \in S PROVE i + 1 \in S
    <3> SUFFICES ASSUME i + 1 <= 11 PROVE after[i + 1] = At(i + 1)
      OBVIOUS
    <3>1. PICK j \in 1..11 : j = i + 1 /\ j - 1 = i
      OBVIOUS
    <3>2. after[i] = At(i) /\ i \in Nat /\ i <= 11
      BY <3>1
    <3>3. after[j] = MonthGone(At(i))
      BY <1>7, <3>1, <3>2
    <3>4. CASE j < m
      <4> DEFINE e == [year |-> y, month |-> j, day |-> k - DaysBefore(y, j)]
      <4>1. At(i) = e
        BY <3>1, <3>4
      <4>2. j \in 1..12 /\ j + 1 \in 1..m
        BY <3>4
      <4>3. DaysBefore(y, j + 1) = DaysBefore(y, j) + MonthLength(y, j)
        BY <2>0, <3>4, <4>2
      <4>4. DaysBefore(y, j + 1) <= DaysBefore(y, m)
        BY <4>2, MonthsFollow
      <4>5. /\ m_d_table(y)[j] = MonthLength(y, j) /\ MonthLength(y, j) \in 28..31
            /\ DaysBefore(y, j) \in Nat /\ DaysBefore(y, j) <= 335 /\ DaysBefore(y, m) \in Nat /\ DaysBefore(y, m) <= 335
        BY <2>0, <4>2
      <4>6. k - DaysBefore(y, j) > m_d_table(y)[j]
        <5>1. PICK b \in Nat : b = DaysBefore(y, j)
          BY <4>5
        <5>2. PICK a \in Nat : a = DaysBefore(y, m)
          BY <4>5
        <5>3. PICK l \in 28..31 : l = MonthLength(y, j) /\ l = m_d_table(y)[j]
          BY <4>5
        <5>4. b + l <= a
          BY <4>3, <4>4, <5>1, <5>2, <5>3
        <5>5. k - a >= 1
          BY <2>1, <5>2
        <5>6. k - b > l
          BY <1>4, <5>4, <5>5
        <5> QED
          BY <5>1, <5>3, <5>6
      <4>7. (k - DaysBefore(y, j)) - m_d_table(y)[j] = k - DaysBefore(y, j + 1)
        BY <1>4, <4>3, <4>5
      <4>8. MonthGone(e) = [year |-> y, month |-> j + 1, day |-> (k - DaysBefore(y, j)) - m_d_table(y)[j]]
        BY <4>6 DEF MonthGone
      <4>9. At(j) = [year |-> y, month |-> j + 1, day |-> k - DaysBefore(y, j + 1)]
        BY <3>4
      <4> HIDE DEF At, e
      <4> QED
        BY <3>1, <3>3, <4>1, <4>7, <4>8, <4>9
    <3>5. CASE ~(j < m)
      <4>1. At(i) = d
        <5>1. CASE i < m
          <6>1. i + 1 = m
            BY <3>1, <3>2, <3>5, <5>1
          <6> QED
            BY <2>1, <5>1, <6>1
        <5>2. CASE ~(i < m)
          BY <5>2
        <5> QED
          BY <5>1, <5>2
      <4>2. At(j) = d
        BY <3>5
      <4> HIDE DEF At
      <4> QED
        BY <2>2, <3>1, <3>3, <4>1, <4>2
    <3> QED
      BY <3>4, <3>5
  <2>5. S = Nat
    <3>1. S \in SUBSET Nat
      OBVIOUS
    <3> HIDE DEF S
    <3> QED
      BY <2>3, <2>4, <3>1, NatSets
  <2>6. after[11] = At(11)
    <3>1. 11 \in S
      BY <2>5
    <3> QED
      BY <3>1
  <2>7. At(11) = d
    <3>1. CASE 11 < m
      <4>1. 11 + 1 = m
        BY <3>1
      <4> QED
        BY <2>1, <3>1, <4>1
    <3>2. CASE ~(11 < m)
      BY <3>2
    <3> QED
      BY <3>1, <3>2
  <2> QED
    BY <1>7, <1>8, <1>10, <2>6, <2>7
<1> QED
  BY <1>9, <1>10

\* An int holds the offsets of these zones.
LEMMA OffsetIs ==
    ASSUME NEW gmt \in Int, gmt >= -9, gmt <= 9
    PROVE  GmtOffset(gmt) = gmt * 3600
  BY SMT DEF GmtOffset

\* A local time in seconds and without the days it is off by; the one of a zone, and what is
\* made of it.
OffBy(l, q, s) == l = s - 86400 * q
SplitsTo(l, q, s) == l \div 86400 = 0 - q /\ l % 86400 = s /\ l % 60 = s % 60
Utc(utc, gmt, s) == utc = s - gmt * 3600
Local(n, utc, gmt) == TimeOf(n + utc \div 86400, utc % 86400, gmt)
Shows(got, n, s) == got.date = DateOf(n) /\ got.hour * 3600 + got.minute * 60 + got.second = s

\* What is left of a local time is the time of the day.
LEMMA Split ==
    ASSUME NEW l \in Int, NEW q \in Int, NEW s \in Int, s >= 0, s < 86400, l = s - 86400 * q
    PROVE  l \div 86400 = 0 - q /\ l % 86400 = s /\ l % 60 = s % 60
<1>1. l \div 86400 = 0 - q
  BY SMT
<1>2. l % 86400 = s
  <2>1. l = 86400 * (l \div 86400) + (l % 86400)
    BY SMT
  <2> QED
    BY <1>1, <2>1, SMT
<1>3. l % 60 = s % 60
  BY SMT
<1> QED
  BY <1>1, <1>2, <1>3

LEMMA DaySplit ==
    ASSUME NEW l \in Int, NEW q \in Int, NEW s \in Int, s >= 0, s < 86400, OffBy(l, q, s)
    PROVE  SplitsTo(l, q, s)
  BY Split DEF OffBy, SplitsTo

LEMMA DayTime ==
    ASSUME NEW s \in Int, s >= 0, s < 86400
    PROVE  (s \div 3600) * 3600 + ((s \div 60) % 60) * 60 + (s % 60) = s
  BY SMT

\* The time shown is the one that the timestamp is of, on the day it is of.
LEMMA TimeIs ==
    ASSUME NEW n \in Int, NEW gmt \in Int, gmt >= -9, gmt <= 9, NEW s \in Int, s >= 0, s < 86400,
           NEW utc \in Int, Utc(utc, gmt, s), NEW got, got = Local(n, utc, gmt)
    PROVE  Shows(got, n, s)
<1> DEFINE local == (utc % 86400) + GmtOffset(gmt)
<1>1. GmtOffset(gmt) = gmt * 3600 /\ gmt * 3600 \in Int
  BY OffsetIs
<1>2. utc = s - gmt * 3600
  BY DEF Utc
<1>3. PICK q \in Int : q = utc \div 86400
  OBVIOUS
<1>4. PICK l \in Int : l = local
  BY <1>1
<1>5. OffBy(l, q, s)
  BY <1>1, <1>2, <1>3, <1>4, SMT DEF OffBy
<1>6. SplitsTo(l, q, s)
  BY <1>3, <1>4, <1>5, DaySplit
<1>7. got = [date |-> DateOf((n + q) + l \div 86400), hour |-> (l % 86400) \div 3600,
             minute |-> ((l % 86400) \div 60) % 60, second |-> l % 60]
  BY <1>3, <1>4 DEF Local, TimeOf
<1> HIDE DEF local
<1>8. l % 86400 = s /\ l % 60 = s % 60
  BY <1>6 DEF SplitsTo
<1>9. (n + q) + l \div 86400 = n
  BY <1>3, <1>6 DEF SplitsTo
<1>10. got = [date |-> DateOf(n), hour |-> s \div 3600, minute |-> (s \div 60) % 60, second |-> s % 60]
  BY <1>7, <1>8, <1>9
<1>11. (s \div 3600) * 3600 + ((s \div 60) % 60) * 60 + (s % 60) = s
  BY DayTime
<1> QED
  BY <1>10, <1>11 DEF Shows

\* The days that went by are those of the date.
CalendarInv ==
    /\ counted \in Nat /\ IsDate(date)
    /\ counted = YearBegins(date.year) + DayOf(date) - 1

\* The first day of a year is counted as YearBegins says, and each day adds one.
LEMMA CalendarInitInv == CalendarInit(TRUE) => CalendarInv
<1> SUFFICES ASSUME CalendarInit(TRUE) PROVE CalendarInv
  OBVIOUS
<1>1. PICK y \in Years : counted = YearBegins(y) /\ date = [year |-> y, month |-> 1, day |-> 1]
  BY DEF CalendarInit
<1>2. y \in Nat /\ y >= 1970 /\ y \in Nat \ {0}
  <2>1. y \in Nat /\ 1970 <= y
    BY NtpCalendarAssumption
  <2> QED
    BY <2>1
<1>3. YearBegins(y) \in Int /\ YearBegins(y) >= 0
  BY <1>2, YearBeginsInt, YearsFollow, FirstYear
<1>4. PICK one \in 1..12 : one = 1
  OBVIOUS
<1>5. MonthLength(y, one) \in 28..31 /\ DaysBefore(y, one) = 0
  BY <1>2, <1>4, MonthIs
<1>6. date.year = y /\ date.month = one /\ date.day = 1
  BY <1>1, <1>4
<1>7. IsDate(date)
  BY <1>1, <1>2, <1>5, <1>6 DEF IsDate
<1> QED
  BY <1>1, <1>3, <1>5, <1>6, <1>7 DEF CalendarInv, DayOf

LEMMA CalendarStep == CalendarInv /\ [CalendarNext]_calendar_vars => CalendarInv'
<1> SUFFICES ASSUME CalendarInv, [CalendarNext]_calendar_vars PROVE CalendarInv'
  OBVIOUS
<1>1. CASE UNCHANGED calendar_vars
  BY <1>1 DEF CalendarInv, calendar_vars
<1>2. CASE CalendarNext
  <2>1. PICK y \in Nat : y = date.year /\ y >= 1970
    BY DEF CalendarInv, IsDate
  <2>2. PICK m \in 1..12 : m = date.month
    BY DEF CalendarInv, IsDate
  <2>3. /\ MonthLength(y, m) \in 28..31 /\ DaysBefore(y, m) \in Nat /\ DaysBefore(y, m) <= 335 /\ YearBegins(y) \in Int
        /\ m < 12 => DaysBefore(y, m + 1) = DaysBefore(y, m) + MonthLength(y, m)
    BY MonthIs, YearBeginsInt
  <2>4. PICK k \in 1..MonthLength(y, m) : date = [year |-> y, month |-> m, day |-> k]
    BY <2>1, <2>2 DEF CalendarInv, IsDate
  <2>5. counted' = counted + 1 /\ date' = Tomorrow(date) /\ Tomorrow(date).year = y
    BY <1>2, <2>1 DEF CalendarNext
  <2>6. counted \in Nat /\ counted = YearBegins(y) + (DaysBefore(y, m) + k) - 1
    BY <2>4 DEF CalendarInv, DayOf
  <2>7. CASE k < MonthLength(y, m)
    <3>1. date' = [year |-> y, month |-> m, day |-> k + 1]
      BY <2>4, <2>5, <2>7 DEF Tomorrow
    <3>2. k + 1 \in 1..MonthLength(y, m)
      BY <2>3, <2>7
    <3>3. IsDate(date')
      BY <2>1, <3>1, <3>2 DEF IsDate
    <3>4. DayOf(date') = DaysBefore(y, m) + (k + 1)
      BY <3>1 DEF DayOf
    <3>5. counted' \in Nat /\ counted' = YearBegins(y) + (DaysBefore(y, m) + (k + 1)) - 1
      BY <2>3, <2>5, <2>6
    <3>6. date'.year = y
      BY <3>1
    <3> QED
      BY <3>3, <3>4, <3>5, <3>6 DEF CalendarInv
  <2>8. CASE ~(k < MonthLength(y, m)) /\ m < 12
    <3>1. date' = [year |-> y, month |-> m + 1, day |-> 1]
      BY <2>4, <2>5, <2>8 DEF Tomorrow
    <3>2. PICK next \in 1..12 : next = m + 1
      BY <2>8
    <3>3. MonthLength(y, next) \in 28..31 /\ DaysBefore(y, next) = DaysBefore(y, m) + k
      <4>1. k = MonthLength(y, m)
        BY <2>3, <2>8
      <4>2. MonthLength(y, next) \in 28..31
        BY MonthIs
      <4> QED
        BY <2>3, <2>8, <3>2, <4>1, <4>2
    <3>4. IsDate(date')
      BY <2>1, <3>1, <3>2, <3>3 DEF IsDate
    <3>5. DayOf(date') = DaysBefore(y, m) + k + 1 /\ date'.year = y
      BY <3>1, <3>2, <3>3 DEF DayOf
    <3>6. counted' \in Nat /\ counted' = YearBegins(y) + (DaysBefore(y, m) + k + 1) - 1
      BY <2>3, <2>5, <2>6
    <3> QED
      BY <3>4, <3>5, <3>6 DEF CalendarInv
  <2>9. CASE ~(k < MonthLength(y, m)) /\ ~(m < 12)
    <3>1. Tomorrow(date).year = y + 1
      BY <2>4, <2>9 DEF Tomorrow
    <3> QED
      BY <2>5, <3>1
  <2> QED
    BY <2>7, <2>8, <2>9
<1> QED
  BY <1>1, <1>2

LEMMA CalendarInvRight == CalendarInv => CalendarRight
<1> SUFFICES ASSUME CalendarInv PROVE CalendarRight
  OBVIOUS
<1>1. DatesRight
  BY DateIs DEF CalendarInv, DatesRight
<1>2. TimesRight
  <2> SUFFICES ASSUME NEW gmt \in Zones, NEW s \in Seconds, gmt \in -9..9
               PROVE  LET utc == s - gmt * 3600
                          got == TimeOf(counted + utc \div 86400, utc % 86400, gmt)
                      IN /\ got.date = DateOf(counted)
                         /\ got.hour * 3600 + got.minute * 60 + got.second = s
    BY DEF TimesRight
  <2>1. s \in Int /\ s >= 0 /\ s < 86400 /\ gmt \in Int /\ gmt >= -9 /\ gmt <= 9
    <3>1. s \in Nat /\ s < 86400
      BY NtpCalendarAssumption
    <3> QED
      BY <3>1
  <2>4. counted \in Int
    BY DEF CalendarInv
  <2>2. PICK utc \in Int : utc = s - gmt * 3600 /\ Utc(utc, gmt, s)
    <3>1. gmt \in Int /\ s \in Int
      BY <2>1
    <3> QED
      BY <3>1 DEF Utc
  <2> DEFINE got == TimeOf(counted + utc \div 86400, utc % 86400, gmt)
  <2>3. got.date = DateOf(counted) /\ got.hour * 3600 + got.minute * 60 + got.second = s
    <3>1. PICK g : g = got
      OBVIOUS
    <3> HIDE DEF got
    <3>2. g = TimeOf(counted + utc \div 86400, utc % 86400, gmt)
      BY <3>1 DEF got
    <3>3. PICK n \in Int : n = counted
      BY <2>4
    <3>4. g = Local(n, utc, gmt)
      BY <3>2, <3>3 DEF Local
    <3>5. Shows(g, n, s)
      BY <2>1, <2>2, <3>3, <3>4, TimeIs
    <3> QED
      BY <3>1, <3>3, <3>5 DEF Shows
  <2> QED
    BY <2>2, <2>3
<1> QED
  BY <1>1, <1>2 DEF CalendarRight

\* NTP_get_time makes the right date and time of every day of every year, but for the last day
\* of a leap year, and for every second of a day in the zones that an int holds the offset of.
THEOREM DatesCounted == CalendarSpec => []CalendarRight
<1>1. CalendarInit(TRUE) => CalendarInv
  BY CalendarInitInv
<1>2. CalendarInv /\ [CalendarNext]_calendar_vars => CalendarInv'
  BY CalendarStep
<1>3. CalendarInv => CalendarRight
  BY CalendarInvRight
<1> QED
  BY <1>1, <1>2, <1>3, PTL DEF CalendarSpec

-----------------------------------------------------------------------------
\* aes_encrypt and aes_decrypt: what one makes of a block the other makes the block of again.
\* A byte is known by its bits, where exclusive or and galois_mul2 are sums.

Byte8(n) == n \in Nat /\ n < 256
BitValues == {1, 2, 4, 8, 16, 32, 64, 128}
On(n, v) == BitOf(n, v) = 1

SumOf(x, a, b, c, d, e, f, g, h) ==
    /\ a \in {0, 1} /\ b \in {0, 2} /\ c \in {0, 4} /\ d \in {0, 8}
    /\ e \in {0, 16} /\ f \in {0, 32} /\ g \in {0, 64} /\ h \in {0, 128}
    /\ x = a + b + c + d + e + f + g + h
HasBits(x, a, b, c, d, e, f, g, h) ==
    /\ x \in Nat /\ x < 256
    /\ (x \div 1) % 2 = 1 <=> a = 1
    /\ (x \div 2) % 2 = 1 <=> b = 2
    /\ (x \div 4) % 2 = 1 <=> c = 4
    /\ (x \div 8) % 2 = 1 <=> d = 8
    /\ (x \div 16) % 2 = 1 <=> e = 16
    /\ (x \div 32) % 2 = 1 <=> f = 32
    /\ (x \div 64) % 2 = 1 <=> g = 64
    /\ (x \div 128) % 2 = 1 <=> h = 128

\* The bits of a sum of bits.
LEMMA SumBits ==
    ASSUME NEW x, NEW a, NEW b, NEW c, NEW d, NEW e, NEW f, NEW g, NEW h,
           SumOf(x, a, b, c, d, e, f, g, h)
    PROVE  HasBits(x, a, b, c, d, e, f, g, h)
  BY SMTT(30) DEF SumOf, HasBits

LEMMA XorIs ==
    ASSUME NEW a, NEW b
    PROVE  Byte8(Xor(a, b)) /\ \A v \in BitValues : On(Xor(a, b), v) <=> BitOf(a, v) # BitOf(b, v)
<1> DEFINE bit(v) == IF BitOf(a, v) = BitOf(b, v) THEN 0 ELSE v
<1>1. /\ bit(1) \in {0, 1} /\ bit(2) \in {0, 2} /\ bit(4) \in {0, 4} /\ bit(8) \in {0, 8}
      /\ bit(16) \in {0, 16} /\ bit(32) \in {0, 32} /\ bit(64) \in {0, 64} /\ bit(128) \in {0, 128}
  OBVIOUS
<1>2. \A v \in BitValues : bit(v) = v <=> BitOf(a, v) # BitOf(b, v)
  BY DEF BitValues
<1>3. PICK x : x = Xor(a, b)
  OBVIOUS
<1>4. x = bit(1) + bit(2) + bit(4) + bit(8) + bit(16) + bit(32) + bit(64) + bit(128)
  BY <1>3 DEF Xor
<1> HIDE DEF bit
<1>4a. SumOf(x, bit(1), bit(2), bit(4), bit(8), bit(16), bit(32), bit(64), bit(128))
  BY <1>1, <1>4 DEF SumOf
<1>4b. HasBits(x, bit(1), bit(2), bit(4), bit(8), bit(16), bit(32), bit(64), bit(128))
  BY <1>4a, SumBits
<1>5. /\ x \in Nat /\ x < 256
      /\ (x \div 1) % 2 = 1 <=> bit(1) = 1
      /\ (x \div 2) % 2 = 1 <=> bit(2) = 2
      /\ (x \div 4) % 2 = 1 <=> bit(4) = 4
      /\ (x \div 8) % 2 = 1 <=> bit(8) = 8
      /\ (x \div 16) % 2 = 1 <=> bit(16) = 16
      /\ (x \div 32) % 2 = 1 <=> bit(32) = 32
      /\ (x \div 64) % 2 = 1 <=> bit(64) = 64
      /\ (x \div 128) % 2 = 1 <=> bit(128) = 128
  BY <1>4b DEF HasBits
<1>6. \A v \in BitValues : On(x, v) <=> bit(v) = v
  BY <1>5 DEF BitValues, On, BitOf
<1> QED
  BY <1>2, <1>3, <1>5, <1>6 DEF Byte8

LEMMA BitIs == ASSUME NEW n \in Nat, NEW v \in BitValues PROVE BitOf(n, v) \in {0, 1}
  BY DEF BitOf, BitValues

LEMMA XorOn ==
    ASSUME NEW a, Byte8(a), NEW b, Byte8(b), NEW v \in BitValues
    PROVE  On(Xor(a, b), v) <=> ~(On(a, v) <=> On(b, v))
<1>1. BitOf(a, v) \in {0, 1} /\ BitOf(b, v) \in {0, 1}
  BY BitIs DEF Byte8
<1>2. On(Xor(a, b), v) <=> BitOf(a, v) # BitOf(b, v)
  BY XorIs
<1> QED
  BY <1>1, <1>2 DEF On

LEMMA SameBits ==
    ASSUME NEW a, Byte8(a), NEW b, Byte8(b), \A v \in BitValues : On(a, v) <=> On(b, v)
    PROVE  a = b
<1>1. a \in Nat /\ a < 256 /\ b \in Nat /\ b < 256
  BY DEF Byte8
<1>2. \A v \in BitValues : BitOf(a, v) \in {0, 1} /\ BitOf(b, v) \in {0, 1}
  BY <1>1, BitIs
<1>3. \A v \in BitValues : BitOf(a, v) = BitOf(b, v)
  BY <1>2 DEF On
<1>4. /\ (a \div 1) % 2 = (b \div 1) % 2 /\ (a \div 2) % 2 = (b \div 2) % 2
      /\ (a \div 4) % 2 = (b \div 4) % 2 /\ (a \div 8) % 2 = (b \div 8) % 2
      /\ (a \div 16) % 2 = (b \div 16) % 2 /\ (a \div 32) % 2 = (b \div 32) % 2
      /\ (a \div 64) % 2 = (b \div 64) % 2 /\ (a \div 128) % 2 = (b \div 128) % 2
  BY <1>3 DEF BitOf, BitValues
<1> QED
  BY <1>1, <1>4, SMTT(30)

-----------------------------------------------------------------------------
\* The bits of a doubled byte: each is the one below it, and the lowest, the second, the
\* fourth and the fifth take the highest.
DoubledBits(x, y) ==
    /\ y \in Nat /\ y < 256
    /\ (y \div 1) % 2 = 0
    /\ (y \div 2) % 2 = (x \div 1) % 2
    /\ (y \div 4) % 2 = (x \div 2) % 2
    /\ (y \div 8) % 2 = (x \div 4) % 2
    /\ (y \div 16) % 2 = (x \div 8) % 2
    /\ (y \div 32) % 2 = (x \div 16) % 2
    /\ (y \div 64) % 2 = (x \div 32) % 2
    /\ (y \div 128) % 2 = (x \div 64) % 2

LEMMA ShiftBits == ASSUME NEW x \in Nat, x < 256 PROVE DoubledBits(x, (2 * x) % 256)
  BY SMTT(30) DEF DoubledBits

Doubled(x, y) ==
    /\ On(y, 1) <=> On(x, 128)
    /\ On(y, 2) <=> ~(On(x, 1) <=> On(x, 128))
    /\ On(y, 4) <=> On(x, 2)
    /\ On(y, 8) <=> ~(On(x, 4) <=> On(x, 128))
    /\ On(y, 16) <=> ~(On(x, 8) <=> On(x, 128))
    /\ On(y, 32) <=> On(x, 16)
    /\ On(y, 64) <=> On(x, 32)
    /\ On(y, 128) <=> On(x, 64)

LEMMA DoubleIs ==
    ASSUME NEW x, Byte8(x)
    PROVE  Byte8(galois_mul2(x)) /\ Doubled(x, galois_mul2(x))
<1> DEFINE y == (2 * x) % 256
<1>1. x \in Nat /\ x < 256
  BY DEF Byte8
<1>2. y \in Nat /\ y < 256
  BY <1>1
<1>3. /\ On(y, 2) <=> On(x, 1)
      /\ On(y, 4) <=> On(x, 2)
      /\ On(y, 8) <=> On(x, 4)
      /\ On(y, 16) <=> On(x, 8)
      /\ On(y, 32) <=> On(x, 16)
      /\ On(y, 64) <=> On(x, 32)
      /\ On(y, 128) <=> On(x, 64)
      /\ ~On(y, 1)
  <2>1. DoubledBits(x, y)
    BY <1>1, ShiftBits
  <2> HIDE DEF y
  <2> QED BY <1>1, <2>1 DEF DoubledBits, On, BitOf
<1>4. On(27, 1) /\ On(27, 2) /\ ~On(27, 4) /\ On(27, 8) /\ On(27, 16) /\ ~On(27, 32)
      /\ ~On(27, 64) /\ ~On(27, 128)
  BY DEF On, BitOf
<1>5. On(x, 128) <=> x \div 128 = 1
  BY <1>1 DEF On, BitOf
<1>6. CASE x \div 128 = 1
  <2>1. galois_mul2(x) = Xor(y, 27)
    BY <1>6 DEF galois_mul2
  <2>2. Byte8(y) /\ Byte8(27)
    BY <1>2 DEF Byte8
  <2> HIDE DEF y
  <2>3. \A v \in BitValues : On(Xor(y, 27), v) <=> ~(On(y, v) <=> On(27, v))
    BY <2>2, XorOn
  <2>4. Byte8(Xor(y, 27))
    BY XorIs
  <2>5. On(x, 128)
    BY <1>5, <1>6
  <2>6. /\ On(Xor(y, 27), 1) <=> ~On(y, 1)
        /\ On(Xor(y, 27), 2) <=> ~On(y, 2)
        /\ On(Xor(y, 27), 4) <=> On(y, 4)
        /\ On(Xor(y, 27), 8) <=> ~On(y, 8)
        /\ On(Xor(y, 27), 16) <=> ~On(y, 16)
        /\ On(Xor(y, 27), 32) <=> On(y, 32)
        /\ On(Xor(y, 27), 64) <=> On(y, 64)
        /\ On(Xor(y, 27), 128) <=> On(y, 128)
    BY <1>4, <2>3 DEF BitValues, On
  <2>7. Doubled(x, Xor(y, 27))
    BY <1>3, <2>5, <2>6 DEF Doubled, On
  <2> QED BY <2>1, <2>4, <2>7
<1>7. CASE x \div 128 # 1
  <2>1. galois_mul2(x) = 2 * x /\ x < 128
    BY <1>1, <1>7 DEF galois_mul2
  <2>2. 2 * x = y
    BY <1>1, <2>1
  <2>3. galois_mul2(x) = y
    BY <2>1, <2>2
  <2> HIDE DEF y
  <2>4. ~On(x, 128)
    BY <1>5, <1>7
  <2>5. Doubled(x, y)
    BY <1>3, <2>4 DEF Doubled, On
  <2>6. Byte8(y)
    BY <1>2 DEF Byte8
  <2> QED BY <2>3, <2>5, <2>6
<1> QED BY <1>6, <1>7

\* Doubling is linear.
LEMMA DoubleXor ==
    ASSUME NEW x, Byte8(x), NEW y, Byte8(y), NEW v \in BitValues
    PROVE  On(galois_mul2(Xor(x, y)), v) <=> ~(On(galois_mul2(x), v) <=> On(galois_mul2(y), v))
<1>1. Doubled(x, galois_mul2(x)) /\ Doubled(y, galois_mul2(y))
  BY DoubleIs
<1>2. Byte8(Xor(x, y))
  BY XorIs
<1>3. Doubled(Xor(x, y), galois_mul2(Xor(x, y)))
  BY <1>2, DoubleIs
<1>4. \A u \in BitValues : On(Xor(x, y), u) <=> ~(On(x, u) <=> On(y, u))
  BY XorOn
<1>5. /\ On(Xor(x, y), 1) <=> ~(On(x, 1) <=> On(y, 1))
      /\ On(Xor(x, y), 2) <=> ~(On(x, 2) <=> On(y, 2))
      /\ On(Xor(x, y), 4) <=> ~(On(x, 4) <=> On(y, 4))
      /\ On(Xor(x, y), 8) <=> ~(On(x, 8) <=> On(y, 8))
      /\ On(Xor(x, y), 16) <=> ~(On(x, 16) <=> On(y, 16))
      /\ On(Xor(x, y), 32) <=> ~(On(x, 32) <=> On(y, 32))
      /\ On(Xor(x, y), 64) <=> ~(On(x, 64) <=> On(y, 64))
      /\ On(Xor(x, y), 128) <=> ~(On(x, 128) <=> On(y, 128))
  BY <1>4 DEF BitValues
<1>6. v \in {1, 2, 4, 8, 16, 32, 64, 128}
  BY DEF BitValues
<1> QED BY <1>1, <1>3, <1>5, <1>6 DEF Doubled

LEMMA DoubleLinear ==
    ASSUME NEW x, Byte8(x), NEW y, Byte8(y)
    PROVE  galois_mul2(Xor(x, y)) = Xor(galois_mul2(x), galois_mul2(y))
<1>1. /\ Byte8(galois_mul2(x)) /\ Byte8(galois_mul2(y)) /\ Byte8(Xor(x, y))
      /\ Byte8(Xor(galois_mul2(x), galois_mul2(y)))
  BY DoubleIs, XorIs
<1>2. Byte8(galois_mul2(Xor(x, y)))
  BY <1>1, DoubleIs
<1>3. \A v \in BitValues : On(galois_mul2(Xor(x, y)), v) <=> On(Xor(galois_mul2(x), galois_mul2(y)), v)
  BY <1>1, DoubleXor, XorOn
<1> QED BY <1>1, <1>2, <1>3, SameBits

-----------------------------------------------------------------------------
\* What Mix makes of a byte and the three that follow it in its column, and Barreto of a byte
\* and the second after it.
Mixed(a, p, q, r) == Xor(Xor(a, galois_mul2(Xor(a, p))), Xor(Xor(a, p), Xor(q, r)))
Prepared(a, q) == Xor(a, galois_mul2(galois_mul2(Xor(a, q))))

Twice(x) == galois_mul2(galois_mul2(x))
Thrice(x) == galois_mul2(galois_mul2(galois_mul2(x)))
Xor4(a, p, q, r) == Xor(Xor(a, p), Xor(q, r))

LEMMA Doublings ==
    ASSUME NEW x, Byte8(x)
    PROVE  Byte8(galois_mul2(x)) /\ Byte8(Twice(x)) /\ Byte8(Thrice(x))
  BY DoubleIs DEF Twice, Thrice

LEMMA Double4 ==
    ASSUME NEW a, Byte8(a), NEW p, Byte8(p), NEW q, Byte8(q), NEW r, Byte8(r)
    PROVE  galois_mul2(Xor4(a, p, q, r)) =
               Xor4(galois_mul2(a), galois_mul2(p), galois_mul2(q), galois_mul2(r))
  BY DoubleLinear, XorIs DEF Xor4

LEMMA Xor4On ==
    ASSUME NEW a, Byte8(a), NEW p, Byte8(p), NEW q, Byte8(q), NEW r, Byte8(r), NEW v \in BitValues
    PROVE  On(Xor4(a, p, q, r), v) <=> ~((On(a, v) <=> On(p, v)) <=> (On(q, v) <=> On(r, v)))
<1>1. /\ On(Xor(a, p), v) <=> ~(On(a, v) <=> On(p, v))
      /\ On(Xor(q, r), v) <=> ~(On(q, v) <=> On(r, v))
  BY XorOn
<1>2. On(Xor(Xor(a, p), Xor(q, r)), v) <=> ~(On(Xor(a, p), v) <=> On(Xor(q, r), v))
  BY XorIs, XorOn
<1> QED BY <1>1, <1>2 DEF Xor4

LEMMA MixedIs ==
    ASSUME NEW a, Byte8(a), NEW p, Byte8(p), NEW q, Byte8(q), NEW r, Byte8(r)
    PROVE  /\ Byte8(Mixed(a, p, q, r))
           /\ \A v \in BitValues :
                  On(Mixed(a, p, q, r), v) <=>
                      ~((On(galois_mul2(a), v) <=> On(galois_mul2(p), v)) <=>
                        ~(On(p, v) <=> (On(q, v) <=> On(r, v))))
<1>1. Byte8(galois_mul2(a)) /\ Byte8(galois_mul2(p)) /\ Byte8(Xor(a, p)) /\ Byte8(galois_mul2(Xor(a, p)))
  BY DoubleIs, XorIs
<1>2. Byte8(Xor(a, galois_mul2(Xor(a, p)))) /\ Byte8(Xor(Xor(a, p), Xor(q, r))) /\ Byte8(Xor(q, r))
  BY XorIs
<1>3. ASSUME NEW v \in BitValues
      PROVE  On(Mixed(a, p, q, r), v) <=>
                 ~((On(galois_mul2(a), v) <=> On(galois_mul2(p), v)) <=>
                   ~(On(p, v) <=> (On(q, v) <=> On(r, v))))
  <2>1. On(galois_mul2(Xor(a, p)), v) <=> ~(On(galois_mul2(a), v) <=> On(galois_mul2(p), v))
    BY DoubleXor
  <2>2. On(Xor(a, galois_mul2(Xor(a, p))), v) <=> ~(On(a, v) <=> On(galois_mul2(Xor(a, p)), v))
    BY <1>1, XorOn
  <2>3. /\ On(Xor(a, p), v) <=> ~(On(a, v) <=> On(p, v))
        /\ On(Xor(q, r), v) <=> ~(On(q, v) <=> On(r, v))
    BY XorOn
  <2>4. On(Xor(Xor(a, p), Xor(q, r)), v) <=> ~(On(Xor(a, p), v) <=> On(Xor(q, r), v))
    BY <1>1, <1>2, XorOn
  <2>5. On(Mixed(a, p, q, r), v) <=>
            ~(On(Xor(a, galois_mul2(Xor(a, p))), v) <=> On(Xor(Xor(a, p), Xor(q, r)), v))
    BY <1>2, XorOn DEF Mixed
  <2> QED BY <2>1, <2>2, <2>3, <2>4, <2>5
<1> QED BY <1>3, XorIs DEF Mixed

LEMMA Xor4Is ==
    ASSUME NEW a, NEW p, NEW q, NEW r
    PROVE  Byte8(Xor4(a, p, q, r))
  BY XorIs DEF Xor4

\* Mixed with the second after it, what Mix makes of a byte loses its own sum.
LEMMA Across ==
    ASSUME NEW a, Byte8(a), NEW p, Byte8(p), NEW q, Byte8(q), NEW r, Byte8(r)
    PROVE  Xor(Mixed(a, p, q, r), Mixed(q, r, a, p)) =
               Xor(Xor(a, q), Xor4(galois_mul2(a), galois_mul2(p), galois_mul2(q), galois_mul2(r)))
<1> DEFINE left == Xor(Mixed(a, p, q, r), Mixed(q, r, a, p))
           sum == Xor4(galois_mul2(a), galois_mul2(p), galois_mul2(q), galois_mul2(r))
           right == Xor(Xor(a, q), sum)
<1>1. /\ Byte8(galois_mul2(a)) /\ Byte8(galois_mul2(p)) /\ Byte8(galois_mul2(q)) /\ Byte8(galois_mul2(r))
      /\ Byte8(Mixed(a, p, q, r)) /\ Byte8(Mixed(q, r, a, p))
  BY DoubleIs, MixedIs
<1>2. Byte8(left) /\ Byte8(right) /\ Byte8(Xor(a, q)) /\ Byte8(sum)
  BY XorIs, Xor4Is
<1>3. ASSUME NEW v \in BitValues PROVE On(left, v) <=> On(right, v)
  <2>1. On(left, v) <=> ~(On(Mixed(a, p, q, r), v) <=> On(Mixed(q, r, a, p), v))
    BY <1>1, XorOn
  <2>2. On(right, v) <=> ~(On(Xor(a, q), v) <=> On(sum, v))
    BY <1>2, XorOn
  <2>3. On(Xor(a, q), v) <=> ~(On(a, v) <=> On(q, v))
    BY XorOn
  <2>4. On(sum, v) <=> ~((On(galois_mul2(a), v) <=> On(galois_mul2(p), v)) <=>
                         (On(galois_mul2(q), v) <=> On(galois_mul2(r), v)))
    BY <1>1, Xor4On
  <2>5. On(Mixed(a, p, q, r), v) <=>
            ~((On(galois_mul2(a), v) <=> On(galois_mul2(p), v)) <=>
              ~(On(p, v) <=> (On(q, v) <=> On(r, v))))
    BY MixedIs
  <2>6. On(Mixed(q, r, a, p), v) <=>
            ~((On(galois_mul2(q), v) <=> On(galois_mul2(r), v)) <=>
              ~(On(r, v) <=> (On(a, v) <=> On(p, v))))
    BY MixedIs
  <2> HIDE DEF left, right, sum
  <2> QED BY <2>1, <2>2, <2>3, <2>4, <2>5, <2>6
<1> HIDE DEF left, right
<1>4. left = right
  BY <1>2, <1>3, SameBits
<1> QED BY <1>4 DEF left, right

PreparedOf(a, p, q, r) ==
    Xor(Mixed(a, p, q, r),
        Xor(Xor(Twice(a), Twice(q)), Xor4(Thrice(a), Thrice(p), Thrice(q), Thrice(r))))

LEMMA PreparedIs ==
    ASSUME NEW a, Byte8(a), NEW p, Byte8(p), NEW q, Byte8(q), NEW r, Byte8(r)
    PROVE  Prepared(Mixed(a, p, q, r), Mixed(q, r, a, p)) = PreparedOf(a, p, q, r)
<1> DEFINE g(x) == galois_mul2(x)
<1>1. Byte8(g(a)) /\ Byte8(g(p)) /\ Byte8(g(q)) /\ Byte8(g(r))
  BY DoubleIs
<1>2. Byte8(g(g(a))) /\ Byte8(g(g(p))) /\ Byte8(g(g(q))) /\ Byte8(g(g(r)))
  BY <1>1, DoubleIs
<1>3. Xor(Mixed(a, p, q, r), Mixed(q, r, a, p)) = Xor(Xor(a, q), Xor4(g(a), g(p), g(q), g(r)))
  BY Across
<1>4. g(Xor(Xor(a, q), Xor4(g(a), g(p), g(q), g(r)))) =
          Xor(Xor(g(a), g(q)), Xor4(g(g(a)), g(g(p)), g(g(q)), g(g(r))))
  <2>1. Byte8(Xor(a, q)) /\ Byte8(Xor4(g(a), g(p), g(q), g(r)))
    BY XorIs, Xor4Is
  <2>2. g(Xor(a, q)) = Xor(g(a), g(q))
    BY DoubleLinear
  <2>3. g(Xor4(g(a), g(p), g(q), g(r))) = Xor4(g(g(a)), g(g(p)), g(g(q)), g(g(r)))
    BY <1>1, Double4
  <2>4. g(Xor(Xor(a, q), Xor4(g(a), g(p), g(q), g(r)))) = Xor(g(Xor(a, q)), g(Xor4(g(a), g(p), g(q), g(r))))
    BY <2>1, DoubleLinear
  <2> QED BY <2>2, <2>3, <2>4
<1>5. g(Xor(Xor(g(a), g(q)), Xor4(g(g(a)), g(g(p)), g(g(q)), g(g(r))))) =
          Xor(Xor(g(g(a)), g(g(q))), Xor4(g(g(g(a))), g(g(g(p))), g(g(g(q))), g(g(g(r)))))
  <2>1. Byte8(Xor(g(a), g(q))) /\ Byte8(Xor4(g(g(a)), g(g(p)), g(g(q)), g(g(r))))
    BY XorIs, Xor4Is
  <2>2. g(Xor(g(a), g(q))) = Xor(g(g(a)), g(g(q)))
    BY <1>1, DoubleLinear
  <2>3. g(Xor4(g(g(a)), g(g(p)), g(g(q)), g(g(r)))) = Xor4(g(g(g(a))), g(g(g(p))), g(g(g(q))), g(g(g(r))))
    BY <1>2, Double4
  <2>4. g(Xor(Xor(g(a), g(q)), Xor4(g(g(a)), g(g(p)), g(g(q)), g(g(r))))) =
            Xor(g(Xor(g(a), g(q))), g(Xor4(g(g(a)), g(g(p)), g(g(q)), g(g(r)))))
    BY <2>1, DoubleLinear
  <2> QED BY <2>2, <2>3, <2>4
<1> QED BY <1>3, <1>4, <1>5 DEF Prepared, PreparedOf, Twice, Thrice

LEMMA PreparedOn ==
    ASSUME NEW a, Byte8(a), NEW p, Byte8(p), NEW q, Byte8(q), NEW r, Byte8(r)
    PROVE  /\ Byte8(PreparedOf(a, p, q, r))
           /\ \A v \in BitValues :
                  On(PreparedOf(a, p, q, r), v) <=>
                      ~(On(Mixed(a, p, q, r), v) <=>
                        ~(~(On(Twice(a), v) <=> On(Twice(q), v)) <=>
                          ~((On(Thrice(a), v) <=> On(Thrice(p), v)) <=>
                            (On(Thrice(q), v) <=> On(Thrice(r), v)))))
<1> DEFINE two == Xor(Twice(a), Twice(q))
           four == Xor4(Thrice(a), Thrice(p), Thrice(q), Thrice(r))
<1>1. /\ Byte8(Twice(a)) /\ Byte8(Twice(q)) /\ Byte8(Mixed(a, p, q, r))
      /\ Byte8(Thrice(a)) /\ Byte8(Thrice(p)) /\ Byte8(Thrice(q)) /\ Byte8(Thrice(r))
  BY Doublings, MixedIs
<1>2. Byte8(two) /\ Byte8(four) /\ Byte8(Xor(two, four)) /\ Byte8(PreparedOf(a, p, q, r))
  BY XorIs, Xor4Is DEF PreparedOf
<1>3. ASSUME NEW v \in BitValues
      PROVE  On(PreparedOf(a, p, q, r), v) <=>
                 ~(On(Mixed(a, p, q, r), v) <=>
                   ~(~(On(Twice(a), v) <=> On(Twice(q), v)) <=>
                     ~((On(Thrice(a), v) <=> On(Thrice(p), v)) <=>
                       (On(Thrice(q), v) <=> On(Thrice(r), v)))))
  <2>1. On(two, v) <=> ~(On(Twice(a), v) <=> On(Twice(q), v))
    BY <1>1, XorOn
  <2>2. On(four, v) <=> ~((On(Thrice(a), v) <=> On(Thrice(p), v)) <=> (On(Thrice(q), v) <=> On(Thrice(r), v)))
    BY <1>1, Xor4On
  <2>3. PreparedOf(a, p, q, r) = Xor(Mixed(a, p, q, r), Xor(two, four))
    BY DEF PreparedOf
  <2> HIDE DEF two, four
  <2>4. On(Xor(two, four), v) <=> ~(On(two, v) <=> On(four, v))
    BY <1>2, XorOn
  <2>5. On(PreparedOf(a, p, q, r), v) <=> ~(On(Mixed(a, p, q, r), v) <=> On(Xor(two, four), v))
    BY <1>1, <1>2, <2>3, XorOn
  <2> QED BY <2>1, <2>2, <2>4, <2>5
<1> QED BY <1>2, <1>3

\* Of two neighbours the multiples by eight go.
LEMMA Beside ==
    ASSUME NEW a, Byte8(a), NEW p, Byte8(p), NEW q, Byte8(q), NEW r, Byte8(r)
    PROVE  Xor(PreparedOf(a, p, q, r), PreparedOf(p, q, r, a)) =
               Xor(Xor4(a, p, galois_mul2(a), galois_mul2(q)), Xor4(Twice(a), Twice(p), Twice(q), Twice(r)))
<1> DEFINE left == Xor(PreparedOf(a, p, q, r), PreparedOf(p, q, r, a))
           low == Xor4(a, p, galois_mul2(a), galois_mul2(q))
           high == Xor4(Twice(a), Twice(p), Twice(q), Twice(r))
           right == Xor(low, high)
<1>1. /\ Byte8(galois_mul2(a)) /\ Byte8(galois_mul2(q))
      /\ Byte8(Twice(a)) /\ Byte8(Twice(p)) /\ Byte8(Twice(q)) /\ Byte8(Twice(r))
  BY Doublings
<1>2. Byte8(PreparedOf(a, p, q, r)) /\ Byte8(PreparedOf(p, q, r, a))
  BY PreparedOn
<1>3. Byte8(left) /\ Byte8(right) /\ Byte8(low) /\ Byte8(high)
  BY XorIs, Xor4Is
<1>4. ASSUME NEW v \in BitValues PROVE On(left, v) <=> On(right, v)
  <2>1. On(left, v) <=> ~(On(PreparedOf(a, p, q, r), v) <=> On(PreparedOf(p, q, r, a), v))
    BY <1>2, XorOn
  <2>2. On(right, v) <=> ~(On(low, v) <=> On(high, v))
    BY <1>3, XorOn
  <2>3. On(low, v) <=> ~((On(a, v) <=> On(p, v)) <=> (On(galois_mul2(a), v) <=> On(galois_mul2(q), v)))
    BY <1>1, Xor4On
  <2>4. On(high, v) <=> ~((On(Twice(a), v) <=> On(Twice(p), v)) <=> (On(Twice(q), v) <=> On(Twice(r), v)))
    BY <1>1, Xor4On
  <2>5. On(PreparedOf(a, p, q, r), v) <=>
            ~(On(Mixed(a, p, q, r), v) <=>
              ~(~(On(Twice(a), v) <=> On(Twice(q), v)) <=>
                ~((On(Thrice(a), v) <=> On(Thrice(p), v)) <=>
                  (On(Thrice(q), v) <=> On(Thrice(r), v)))))
    BY PreparedOn
  <2>6. On(PreparedOf(p, q, r, a), v) <=>
            ~(On(Mixed(p, q, r, a), v) <=>
              ~(~(On(Twice(p), v) <=> On(Twice(r), v)) <=>
                ~((On(Thrice(p), v) <=> On(Thrice(q), v)) <=>
                  (On(Thrice(r), v) <=> On(Thrice(a), v)))))
    BY PreparedOn
  <2>7. On(Mixed(a, p, q, r), v) <=>
            ~((On(galois_mul2(a), v) <=> On(galois_mul2(p), v)) <=>
              ~(On(p, v) <=> (On(q, v) <=> On(r, v))))
    BY MixedIs
  <2>8. On(Mixed(p, q, r, a), v) <=>
            ~((On(galois_mul2(p), v) <=> On(galois_mul2(q), v)) <=>
              ~(On(q, v) <=> (On(r, v) <=> On(a, v))))
    BY MixedIs
  <2> HIDE DEF left, right, low, high
  <2> QED BY <2>1, <2>2, <2>3, <2>4, <2>5, <2>6, <2>7, <2>8
<1> HIDE DEF left, right
<1>5. left = right
  BY <1>3, <1>4, SameBits
<1> QED BY <1>5 DEF left, right

\* The mixing undone.
LEMMA ColumnBack ==
    ASSUME NEW a, Byte8(a), NEW p, Byte8(p), NEW q, Byte8(q), NEW r, Byte8(r)
    PROVE  Mixed(PreparedOf(a, p, q, r), PreparedOf(p, q, r, a), PreparedOf(q, r, a, p), PreparedOf(r, a, p, q)) = a
<1> DEFINE n0 == PreparedOf(a, p, q, r)
           n1 == PreparedOf(p, q, r, a)
           n2 == PreparedOf(q, r, a, p)
           n3 == PreparedOf(r, a, p, q)
           low == Xor4(galois_mul2(a), galois_mul2(p), Twice(a), Twice(q))
           high == Xor4(Thrice(a), Thrice(p), Thrice(q), Thrice(r))
           beside == Xor(Xor4(a, p, galois_mul2(a), galois_mul2(q)), Xor4(Twice(a), Twice(p), Twice(q), Twice(r)))
<1>1. /\ Byte8(galois_mul2(a)) /\ Byte8(galois_mul2(p)) /\ Byte8(galois_mul2(q))
      /\ Byte8(Twice(a)) /\ Byte8(Twice(p)) /\ Byte8(Twice(q)) /\ Byte8(Twice(r))
      /\ Byte8(Thrice(a)) /\ Byte8(Thrice(p)) /\ Byte8(Thrice(q)) /\ Byte8(Thrice(r))
  BY Doublings
<1>2. Byte8(n0) /\ Byte8(n1) /\ Byte8(n2) /\ Byte8(n3)
  BY PreparedOn
<1>3. galois_mul2(Xor(n0, n1)) = Xor(low, high)
  <2>1. Xor(n0, n1) = beside
    BY Beside
  <2>2. /\ galois_mul2(galois_mul2(a)) = Twice(a) /\ galois_mul2(galois_mul2(q)) = Twice(q)
        /\ galois_mul2(Twice(a)) = Thrice(a) /\ galois_mul2(Twice(p)) = Thrice(p)
        /\ galois_mul2(Twice(q)) = Thrice(q) /\ galois_mul2(Twice(r)) = Thrice(r)
    BY DEF Twice, Thrice
  <2>3. galois_mul2(Xor4(a, p, galois_mul2(a), galois_mul2(q))) = low
    BY <1>1, <2>2, Double4
  <2>4. galois_mul2(Xor4(Twice(a), Twice(p), Twice(q), Twice(r))) = high
    BY <1>1, <2>2, Double4
  <2>5. /\ Byte8(Xor4(a, p, galois_mul2(a), galois_mul2(q)))
        /\ Byte8(Xor4(Twice(a), Twice(p), Twice(q), Twice(r)))
    BY Xor4Is
  <2>6. galois_mul2(beside) = Xor(low, high)
    BY <2>3, <2>4, <2>5, DoubleLinear
  <2> QED BY <2>1, <2>6
<1>4. Byte8(low) /\ Byte8(high) /\ Byte8(Xor(low, high))
  BY Xor4Is, XorIs
<1>5. Byte8(Mixed(n0, n1, n2, n3))
  BY <1>2, MixedIs
<1>6. ASSUME NEW v \in BitValues PROVE On(Mixed(n0, n1, n2, n3), v) <=> On(a, v)
  <2>1. On(Mixed(n0, n1, n2, n3), v) <=>
            ~((On(galois_mul2(n0), v) <=> On(galois_mul2(n1), v)) <=>
              ~(On(n1, v) <=> (On(n2, v) <=> On(n3, v))))
    BY <1>2, MixedIs
  <2>2. On(galois_mul2(Xor(n0, n1)), v) <=> ~(On(galois_mul2(n0), v) <=> On(galois_mul2(n1), v))
    BY <1>2, DoubleXor
  <2>3. On(Xor(low, high), v) <=> ~(On(low, v) <=> On(high, v))
    BY <1>4, XorOn
  <2>4. On(low, v) <=> ~((On(galois_mul2(a), v) <=> On(galois_mul2(p), v)) <=> (On(Twice(a), v) <=> On(Twice(q), v)))
    <3>1. Byte8(galois_mul2(a)) /\ Byte8(galois_mul2(p)) /\ Byte8(Twice(a)) /\ Byte8(Twice(q))
      BY <1>1
    <3> QED BY <3>1, Xor4On
  <2>5. On(high, v) <=> ~((On(Thrice(a), v) <=> On(Thrice(p), v)) <=> (On(Thrice(q), v) <=> On(Thrice(r), v)))
    <3>1. Byte8(Thrice(a)) /\ Byte8(Thrice(p)) /\ Byte8(Thrice(q)) /\ Byte8(Thrice(r))
      BY <1>1
    <3> QED BY <3>1, Xor4On
  <2>6. On(PreparedOf(p, q, r, a), v) <=>
            ~(On(Mixed(p, q, r, a), v) <=>
              ~(~(On(Twice(p), v) <=> On(Twice(r), v)) <=>
                ~((On(Thrice(p), v) <=> On(Thrice(q), v)) <=>
                  (On(Thrice(r), v) <=> On(Thrice(a), v)))))
    BY PreparedOn
  <2>7. On(PreparedOf(q, r, a, p), v) <=>
            ~(On(Mixed(q, r, a, p), v) <=>
              ~(~(On(Twice(q), v) <=> On(Twice(a), v)) <=>
                ~((On(Thrice(q), v) <=> On(Thrice(r), v)) <=>
                  (On(Thrice(a), v) <=> On(Thrice(p), v)))))
    BY PreparedOn
  <2>8. On(PreparedOf(r, a, p, q), v) <=>
            ~(On(Mixed(r, a, p, q), v) <=>
              ~(~(On(Twice(r), v) <=> On(Twice(p), v)) <=>
                ~((On(Thrice(r), v) <=> On(Thrice(a), v)) <=>
                  (On(Thrice(p), v) <=> On(Thrice(q), v)))))
    BY PreparedOn
  <2>9. On(Mixed(p, q, r, a), v) <=>
            ~((On(galois_mul2(p), v) <=> On(galois_mul2(q), v)) <=>
              ~(On(q, v) <=> (On(r, v) <=> On(a, v))))
    BY MixedIs
  <2>10. On(Mixed(q, r, a, p), v) <=>
            ~((On(galois_mul2(q), v) <=> On(galois_mul2(r), v)) <=>
              ~(On(r, v) <=> (On(a, v) <=> On(p, v))))
    BY MixedIs
  <2>11. On(Mixed(r, a, p, q), v) <=>
            ~((On(galois_mul2(r), v) <=> On(galois_mul2(a), v)) <=>
              ~(On(a, v) <=> (On(p, v) <=> On(q, v))))
    BY MixedIs
  <2>12. On(galois_mul2(n0), v) <=> (On(galois_mul2(n1), v) <=> ~(~(On(low, v) <=> On(high, v))))
    BY <1>3, <2>2, <2>3
  <2> HIDE DEF low, high, beside
  <2> QED BY <2>1, <2>12, <2>4, <2>5, <2>6, <2>7, <2>8, <2>9, <2>10, <2>11
<1> HIDE DEF n0, n1, n2, n3
<1>7. Mixed(n0, n1, n2, n3) = a
  BY <1>5, <1>6, SameBits
<1> QED BY <1>7 DEF n0, n1, n2, n3
IsBlock(b) == b \in [Place -> Nat] /\ \A i \in Place : b[i] < 256

\* Substituted and back.
BoxBack(a) == Byte8(sbox[a + 1]) /\ rsbox[sbox[a + 1] + 1] = a
LEMMA Boxes == ASSUME NEW a, Byte8(a) PROVE BoxBack(a)
<1>1. a \in Nat /\ a < 256
  BY DEF Byte8
<1>2. ASSUME a \in {0, 1, 2, 3, 4, 5, 6, 7, 8, 9, 10, 11, 12, 13, 14, 15}
      PROVE  BoxBack(a)
  BY <1>2 DEF BoxBack, Byte8, sbox, rsbox
<1>3. ASSUME a \in {16, 17, 18, 19, 20, 21, 22, 23, 24, 25, 26, 27, 28, 29, 30, 31}
      PROVE  BoxBack(a)
  BY <1>3 DEF BoxBack, Byte8, sbox, rsbox
<1>4. ASSUME a \in {32, 33, 34, 35, 36, 37, 38, 39, 40, 41, 42, 43, 44, 45, 46, 47}
      PROVE  BoxBack(a)
  BY <1>4 DEF BoxBack, Byte8, sbox, rsbox
<1>5. ASSUME a \in {48, 49, 50, 51, 52, 53, 54, 55, 56, 57, 58, 59, 60, 61, 62, 63}
      PROVE  BoxBack(a)
  BY <1>5 DEF BoxBack, Byte8, sbox, rsbox
<1>6. ASSUME a \in {64, 65, 66, 67, 68, 69, 70, 71, 72, 73, 74, 75, 76, 77, 78, 79}
      PROVE  BoxBack(a)
  BY <1>6 DEF BoxBack, Byte8, sbox, rsbox
<1>7. ASSUME a \in {80, 81, 82, 83, 84, 85, 86, 87, 88, 89, 90, 91, 92, 93, 94, 95}
      PROVE  BoxBack(a)
  BY <1>7 DEF BoxBack, Byte8, sbox, rsbox
<1>8. ASSUME a \in {96, 97, 98, 99, 100, 101, 102, 103, 104, 105, 106, 107, 108, 109, 110, 111}
      PROVE  BoxBack(a)
  BY <1>8 DEF BoxBack, Byte8, sbox, rsbox
<1>9. ASSUME a \in {112, 113, 114, 115, 116, 117, 118, 119, 120, 121, 122, 123, 124, 125, 126, 127}
      PROVE  BoxBack(a)
  BY <1>9 DEF BoxBack, Byte8, sbox, rsbox
<1>10. ASSUME a \in {128, 129, 130, 131, 132, 133, 134, 135, 136, 137, 138, 139, 140, 141, 142, 143}
       PROVE  BoxBack(a)
  BY <1>10 DEF BoxBack, Byte8, sbox, rsbox
<1>11. ASSUME a \in {144, 145, 146, 147, 148, 149, 150, 151, 152, 153, 154, 155, 156, 157, 158, 159}
       PROVE  BoxBack(a)
  BY <1>11 DEF BoxBack, Byte8, sbox, rsbox
<1>12. ASSUME a \in {160, 161, 162, 163, 164, 165, 166, 167, 168, 169, 170, 171, 172, 173, 174, 175}
       PROVE  BoxBack(a)
  BY <1>12 DEF BoxBack, Byte8, sbox, rsbox
<1>13. ASSUME a \in {176, 177, 178, 179, 180, 181, 182, 183, 184, 185, 186, 187, 188, 189, 190, 191}
       PROVE  BoxBack(a)
  BY <1>13 DEF BoxBack, Byte8, sbox, rsbox
<1>14. ASSUME a \in {192, 193, 194, 195, 196, 197, 198, 199, 200, 201, 202, 203, 204, 205, 206, 207}
       PROVE  BoxBack(a)
  BY <1>14 DEF BoxBack, Byte8, sbox, rsbox
<1>15. ASSUME a \in {208, 209, 210, 211, 212, 213, 214, 215, 216, 217, 218, 219, 220, 221, 222, 223}
       PROVE  BoxBack(a)
  BY <1>15 DEF BoxBack, Byte8, sbox, rsbox
<1>16. ASSUME a \in {224, 225, 226, 227, 228, 229, 230, 231, 232, 233, 234, 235, 236, 237, 238, 239}
       PROVE  BoxBack(a)
  BY <1>16 DEF BoxBack, Byte8, sbox, rsbox
<1>17. ASSUME a \in {240, 241, 242, 243, 244, 245, 246, 247, 248, 249, 250, 251, 252, 253, 254, 255}
       PROVE  BoxBack(a)
  BY <1>17 DEF BoxBack, Byte8, sbox, rsbox
<1>18. \/ a \in {0, 1, 2, 3, 4, 5, 6, 7, 8, 9, 10, 11, 12, 13, 14, 15}
       \/ a \in {16, 17, 18, 19, 20, 21, 22, 23, 24, 25, 26, 27, 28, 29, 30, 31}
       \/ a \in {32, 33, 34, 35, 36, 37, 38, 39, 40, 41, 42, 43, 44, 45, 46, 47}
       \/ a \in {48, 49, 50, 51, 52, 53, 54, 55, 56, 57, 58, 59, 60, 61, 62, 63}
       \/ a \in {64, 65, 66, 67, 68, 69, 70, 71, 72, 73, 74, 75, 76, 77, 78, 79}
       \/ a \in {80, 81, 82, 83, 84, 85, 86, 87, 88, 89, 90, 91, 92, 93, 94, 95}
       \/ a \in {96, 97, 98, 99, 100, 101, 102, 103, 104, 105, 106, 107, 108, 109, 110, 111}
       \/ a \in {112, 113, 114, 115, 116, 117, 118, 119, 120, 121, 122, 123, 124, 125, 126, 127}
       \/ a \in {128, 129, 130, 131, 132, 133, 134, 135, 136, 137, 138, 139, 140, 141, 142, 143}
       \/ a \in {144, 145, 146, 147, 148, 149, 150, 151, 152, 153, 154, 155, 156, 157, 158, 159}
       \/ a \in {160, 161, 162, 163, 164, 165, 166, 167, 168, 169, 170, 171, 172, 173, 174, 175}
       \/ a \in {176, 177, 178, 179, 180, 181, 182, 183, 184, 185, 186, 187, 188, 189, 190, 191}
       \/ a \in {192, 193, 194, 195, 196, 197, 198, 199, 200, 201, 202, 203, 204, 205, 206, 207}
       \/ a \in {208, 209, 210, 211, 212, 213, 214, 215, 216, 217, 218, 219, 220, 221, 222, 223}
       \/ a \in {224, 225, 226, 227, 228, 229, 230, 231, 232, 233, 234, 235, 236, 237, 238, 239}
       \/ a \in {240, 241, 242, 243, 244, 245, 246, 247, 248, 249, 250, 251, 252, 253, 254, 255}
  BY <1>1, SMTT(30)
<1> QED BY <1>2, <1>3, <1>4, <1>5, <1>6, <1>7, <1>8, <1>9, <1>10, <1>11, <1>12, <1>13, <1>14, <1>15, <1>16, <1>17, <1>18

\* Every place of a block moves to one place, and back.
Turn(i, j) == 4 * (i \div 4) + ((i + j) % 4)
Shifts(i) == (i + 4 * (i % 4)) % 16
Unshifts(i) == (i + 12 * (i % 4)) % 16

LEMMA Places ==
    ASSUME NEW i \in Place
    PROVE  /\ Turn(i, 0) = i /\ Turn(i, 1) \in Place /\ Turn(i, 2) \in Place /\ Turn(i, 3) \in Place
           /\ Shifts(i) \in Place /\ Unshifts(i) \in Place /\ Shifts(Unshifts(i)) = i
  BY DEF Place, Turn, Shifts, Unshifts

LEMMA Turns ==
    ASSUME NEW i \in Place
    PROVE  /\ Turn(Turn(i, 1), 1) = Turn(i, 2) /\ Turn(Turn(i, 1), 2) = Turn(i, 3) /\ Turn(Turn(i, 1), 3) = i
           /\ Turn(Turn(i, 2), 1) = Turn(i, 3) /\ Turn(Turn(i, 2), 2) = i /\ Turn(Turn(i, 2), 3) = Turn(i, 1)
           /\ Turn(Turn(i, 3), 1) = i /\ Turn(Turn(i, 3), 2) = Turn(i, 1) /\ Turn(Turn(i, 3), 3) = Turn(i, 2)
  BY DEF Place, Turn

\* The substitution and the shift of the rows undone.
LEMMA SubBack ==
    ASSUME NEW b, IsBlock(b)
    PROVE  IsBlock(SubShift(b)) /\ UnshiftSub(SubShift(b)) = b
<1>1. \A i \in Place : Byte8(b[i])
  BY DEF IsBlock, Byte8
<1>2. \A i \in Place : SubShift(b)[i] = sbox[b[Shifts(i)] + 1]
  BY DEF SubShift, Shifts
<1>3. \A i \in Place : Byte8(SubShift(b)[i])
  BY <1>1, <1>2, Places, Boxes DEF BoxBack
<1>4. ASSUME NEW i \in Place PROVE UnshiftSub(SubShift(b))[i] = b[i]
  <2>1. UnshiftSub(SubShift(b))[i] = rsbox[SubShift(b)[Unshifts(i)] + 1]
    BY DEF UnshiftSub, Unshifts
  <2>2. SubShift(b)[Unshifts(i)] = sbox[b[i] + 1]
    BY <1>2, Places
  <2>3. BoxBack(b[i])
    BY <1>1, Boxes
  <2> QED BY <2>1, <2>2, <2>3 DEF BoxBack
<1>5. SubShift(b) = [i \in Place |-> SubShift(b)[i]]
  BY DEF SubShift
<1>6. UnshiftSub(SubShift(b)) = [i \in Place |-> UnshiftSub(SubShift(b))[i]]
  BY DEF UnshiftSub
<1>7. b = [i \in Place |-> b[i]]
  BY DEF IsBlock
<1>8. IsBlock(SubShift(b))
  <2> DEFINE x == SubShift(b)
  <2> HIDE DEF x
  <2>1. \A i \in Place : x[i] \in Nat /\ x[i] < 256
    BY <1>3 DEF x, Byte8
  <2>2. x = [i \in Place |-> x[i]]
    BY <1>5 DEF x
  <2>3. IsBlock(x)
    BY <2>1, <2>2 DEF IsBlock
  <2> QED BY <2>3 DEF x
<1>9. UnshiftSub(SubShift(b)) = b
  <2> DEFINE x == UnshiftSub(SubShift(b))
  <2> HIDE DEF x
  <2>1. \A i \in Place : x[i] = b[i]
    BY <1>4 DEF x
  <2>2. x = [i \in Place |-> x[i]]
    BY <1>6 DEF x
  <2>3. x = b
    BY <1>7, <2>1, <2>2
  <2> QED BY <2>3 DEF x
<1> QED BY <1>8, <1>9

\* The key added and added again.
IsKey(w) == \A r \in 0..10 : \A i \in Place : Byte8(w[16 * r + i + 1])

LEMMA XorBack ==
    ASSUME NEW a, Byte8(a), NEW k, Byte8(k)
    PROVE  Xor(Xor(a, k), k) = a
<1>1. Byte8(Xor(a, k)) /\ Byte8(Xor(Xor(a, k), k))
  BY XorIs
<1>2. ASSUME NEW v \in BitValues PROVE On(Xor(Xor(a, k), k), v) <=> On(a, v)
  <2>1. On(Xor(a, k), v) <=> ~(On(a, v) <=> On(k, v))
    BY XorOn
  <2>2. On(Xor(Xor(a, k), k), v) <=> ~(On(Xor(a, k), v) <=> On(k, v))
    BY <1>1, XorOn
  <2> QED BY <2>1, <2>2
<1> QED BY <1>1, <1>2, SameBits

LEMMA AddBack ==
    ASSUME NEW b, IsBlock(b), NEW w, IsKey(w), NEW r \in 0..10
    PROVE  IsBlock(AddKey(b, w, r)) /\ AddKey(AddKey(b, w, r), w, r) = b
<1> DEFINE k(i) == w[16 * r + i + 1]
           x == AddKey(b, w, r)
           y == AddKey(AddKey(b, w, r), w, r)
<1>1. \A i \in Place : Byte8(b[i]) /\ Byte8(k(i))
  BY DEF IsBlock, IsKey, Byte8
<1>2. x = [i \in Place |-> Xor(b[i], k(i))]
  BY DEF AddKey
<1>3. y = [i \in Place |-> Xor(x[i], k(i))]
  BY DEF AddKey
<1> HIDE DEF x, y, k
<1>4. IsBlock(x)
  BY <1>2, XorIs DEF IsBlock, Byte8
<1>5. \A i \in Place : x[i] = Xor(b[i], k(i)) /\ Xor(x[i], k(i)) = b[i]
  BY <1>1, <1>2, XorBack
<1>6. b = [i \in Place |-> b[i]]
  BY DEF IsBlock
<1>7. y = b
  BY <1>3, <1>5, <1>6
<1> QED BY <1>4, <1>7 DEF x, y

LEMMA ColumnIs ==
    ASSUME NEW b, NEW i, NEW j
    PROVE  Column(b, i, j) = b[Turn(i, j)]
  BY DEF Column, Turn

LEMMA MixIs ==
    ASSUME NEW b, IsBlock(b)
    PROVE  /\ IsBlock(Mix(b))
           /\ \A i \in Place : Mix(b)[i] = Mixed(b[i], b[Turn(i, 1)], b[Turn(i, 2)], b[Turn(i, 3)])
<1>1. \A i \in Place : Byte8(b[i])
  BY DEF IsBlock, Byte8
<1> DEFINE x == Mix(b)
<1>2. x = [i \in Place |-> Mixed(b[i], b[Turn(i, 1)], b[Turn(i, 2)], b[Turn(i, 3)])]
  BY ColumnIs DEF Mix, Mixed
<1> HIDE DEF x
<1>3. \A i \in Place : x[i] = Mixed(b[i], b[Turn(i, 1)], b[Turn(i, 2)], b[Turn(i, 3)])
  BY <1>2
<1>4. \A i \in Place : Byte8(x[i])
  BY <1>1, <1>3, Places, MixedIs
<1>5. \A i \in Place : x[i] \in Nat /\ x[i] < 256
  BY <1>4 DEF Byte8
<1>6. x = [i \in Place |-> x[i]]
  BY <1>2
<1>7. IsBlock(x)
  BY <1>5, <1>6 DEF IsBlock
<1> QED BY <1>3, <1>7 DEF x

\* The mixing of a block undone, column by column.
LEMMA MixBack ==
    ASSUME NEW b, IsBlock(b)
    PROVE  Unmix(Mix(b)) = b
<1>1. \A i \in Place : Byte8(b[i])
  BY DEF IsBlock, Byte8
<1> DEFINE m == Mix(b)
           n == Barreto(m)
           u == Mix(n)
           Of(i) == PreparedOf(b[i], b[Turn(i, 1)], b[Turn(i, 2)], b[Turn(i, 3)])
<1>2. \A i \in Place : m[i] = Mixed(b[i], b[Turn(i, 1)], b[Turn(i, 2)], b[Turn(i, 3)])
  BY MixIs
<1>3. n = [i \in Place |-> Prepared(m[i], m[Turn(i, 2)])]
  BY ColumnIs DEF Barreto, Prepared
<1> HIDE DEF m, n
<1>4. ASSUME NEW i \in Place PROVE n[i] = Of(i)
  <2>1. n[i] = Prepared(m[i], m[Turn(i, 2)])
    BY <1>3
  <2>2. Turn(i, 1) \in Place /\ Turn(i, 2) \in Place /\ Turn(i, 3) \in Place
    BY Places
  <2>3. m[i] = Mixed(b[i], b[Turn(i, 1)], b[Turn(i, 2)], b[Turn(i, 3)])
    BY <1>2
  <2>4. m[Turn(i, 2)] = Mixed(b[Turn(i, 2)], b[Turn(i, 3)], b[i], b[Turn(i, 1)])
    BY <1>2, <2>2, Turns
  <2>5. Byte8(b[i]) /\ Byte8(b[Turn(i, 1)]) /\ Byte8(b[Turn(i, 2)]) /\ Byte8(b[Turn(i, 3)])
    BY <1>1, <2>2
  <2> QED BY <2>1, <2>3, <2>4, <2>5, PreparedIs
<1> HIDE DEF Of
<1>5. IsBlock(n)
  <2>1. \A i \in Place : Byte8(Of(i))
    BY <1>1, Places, PreparedOn DEF Of
  <2>2. \A i \in Place : n[i] \in Nat /\ n[i] < 256
    BY <1>4, <2>1 DEF Byte8
  <2>3. n = [i \in Place |-> n[i]]
    BY <1>3
  <2> QED BY <2>2, <2>3 DEF IsBlock
<1>6. IsBlock(u) /\ \A i \in Place : u[i] = Mixed(n[i], n[Turn(i, 1)], n[Turn(i, 2)], n[Turn(i, 3)])
  BY <1>5, MixIs
<1>7. ASSUME NEW i \in Place PROVE u[i] = b[i]
  <2>1. Turn(i, 1) \in Place /\ Turn(i, 2) \in Place /\ Turn(i, 3) \in Place
    BY Places
  <2>2. Byte8(b[i]) /\ Byte8(b[Turn(i, 1)]) /\ Byte8(b[Turn(i, 2)]) /\ Byte8(b[Turn(i, 3)])
    BY <1>1, <2>1
  <2>3. u[i] = Mixed(n[i], n[Turn(i, 1)], n[Turn(i, 2)], n[Turn(i, 3)])
    BY <1>6
  <2>4. n[i] = PreparedOf(b[i], b[Turn(i, 1)], b[Turn(i, 2)], b[Turn(i, 3)])
    BY <1>4 DEF Of
  <2>5. n[Turn(i, 1)] = PreparedOf(b[Turn(i, 1)], b[Turn(i, 2)], b[Turn(i, 3)], b[i])
    BY <1>4, <2>1, Turns DEF Of
  <2>6. n[Turn(i, 2)] = PreparedOf(b[Turn(i, 2)], b[Turn(i, 3)], b[i], b[Turn(i, 1)])
    BY <1>4, <2>1, Turns DEF Of
  <2>7. n[Turn(i, 3)] = PreparedOf(b[Turn(i, 3)], b[i], b[Turn(i, 1)], b[Turn(i, 2)])
    BY <1>4, <2>1, Turns DEF Of
  <2> QED BY <2>2, <2>3, <2>4, <2>5, <2>6, <2>7, ColumnBack
<1>8. Unmix(Mix(b)) = u
  BY DEF Unmix, m, n
<1> HIDE DEF u
<1>9. b = [i \in Place |-> b[i]] /\ u = [i \in Place |-> u[i]]
  BY <1>6 DEF IsBlock
<1> QED BY <1>7, <1>8, <1>9

-----------------------------------------------------------------------------
\* A round of encryption and the one of decryption that undoes it.
Round(b, w, r) == Mix(SubShift(AddKey(b, w, r)))

LEMMA RoundBack ==
    ASSUME NEW b, IsBlock(b), NEW w, IsKey(w), NEW r \in 0..10
    PROVE  IsBlock(Round(b, w, r)) /\ AddKey(UnshiftSub(Unmix(Round(b, w, r))), w, r) = b
<1>1. IsBlock(AddKey(b, w, r)) /\ AddKey(AddKey(b, w, r), w, r) = b
  BY AddBack
<1>2. IsBlock(SubShift(AddKey(b, w, r))) /\ UnshiftSub(SubShift(AddKey(b, w, r))) = AddKey(b, w, r)
  BY <1>1, SubBack
<1>3. IsBlock(Round(b, w, r)) /\ Unmix(Round(b, w, r)) = SubShift(AddKey(b, w, r))
  BY <1>2, MixIs, MixBack DEF Round
<1> QED BY <1>1, <1>2, <1>3

\* The last one, which does not mix.
LastRound(b, w) == AddKey(SubShift(AddKey(b, w, 9)), w, 10)

LEMMA LastBack ==
    ASSUME NEW b, IsBlock(b), NEW w, IsKey(w)
    PROVE  AddKey(UnshiftSub(AddKey(LastRound(b, w), w, 10)), w, 9) = b
<1>1. 9 \in 0..10 /\ 10 \in 0..10
  OBVIOUS
<1>2. IsBlock(AddKey(b, w, 9)) /\ AddKey(AddKey(b, w, 9), w, 9) = b
  BY <1>1, AddBack
<1>3. IsBlock(SubShift(AddKey(b, w, 9))) /\ UnshiftSub(SubShift(AddKey(b, w, 9))) = AddKey(b, w, 9)
  BY <1>2, SubBack
<1>4. AddKey(LastRound(b, w), w, 10) = SubShift(AddKey(b, w, 9))
  BY <1>1, <1>3, AddBack DEF LastRound
<1> QED BY <1>2, <1>3, <1>4

-----------------------------------------------------------------------------
\* The key as far as a round.
KeyUpTo(w, r) ==
    /\ w \in Seq(Nat) /\ Len(w) = 16 * r + 16
    /\ \A n \in 1..Len(w) : w[n] < 256

LEMMA KeyGrows ==
    ASSUME NEW r \in Nat, NEW s \in Nat, s = r + 1, NEW w, KeyUpTo(w, r)
    PROVE  KeyUpTo(ExpandRound(w, s), s)
<1> DEFINE before(n) == w[16 * (s - 1) + n + 1]
           turned(k) == Xor(sbox[before(12 + ((k + 1) % 4)) + 1], IF k = 0 THEN Rcon[s + 1] ELSE 0)
           front(i) == XorAll(<<turned(i % 4)>> \o [n \in 1..(i \div 4) |-> before(4 * (n - 1) + (i % 4))])
           Next16(i) == Xor(before(i - 1), front(i - 1))
           more == [i \in 1..16 |-> Next16(i)]
<1>1. ExpandRound(w, s) = w \o more
  BY DEF ExpandRound
<1>2. \A i \in 1..16 : Byte8(Next16(i))
  BY XorIs
<1> HIDE DEF before, turned, front, Next16
<1>3. more \in Seq(Nat) /\ Len(more) = 16 /\ \A i \in 1..16 : more[i] < 256
  BY <1>2 DEF Byte8
<1> HIDE DEF more
<1>4. w \in Seq(Nat) /\ Len(w) = 16 * r + 16 /\ \A n \in 1..Len(w) : w[n] < 256
  BY DEF KeyUpTo
<1> DEFINE x == w \o more
<1>5. /\ x \in Seq(Nat) /\ Len(x) = Len(w) + 16
      /\ \A n \in 1..(Len(w) + 16) : x[n] = IF n <= Len(w) THEN w[n] ELSE more[n - Len(w)]
  <2>1. w \in Seq(Nat) /\ more \in Seq(Nat) /\ Len(more) = 16
    BY <1>3, <1>4
  <2>2. /\ x \in Seq(Nat) /\ Len(x) = Len(w) + Len(more)
        /\ \A n \in 1..(Len(w) + Len(more)) : x[n] = IF n <= Len(w) THEN w[n] ELSE more[n - Len(w)]
    BY <2>1, ConcatProperties
  <2> QED BY <2>1, <2>2
<1>6. ASSUME NEW n \in 1..Len(x) PROVE x[n] < 256
  <2>1. CASE n <= Len(w)
    BY <1>3, <1>4, <1>5, <2>1
  <2>2. CASE n > Len(w)
    <3>1. PICK m \in Nat : m = Len(w)
      BY <1>4
    <3>2. n \in Nat /\ 1 <= n /\ n <= m + 16 /\ n > m
      BY <1>5, <2>2, <3>1
    <3>3. x[n] = more[n - m]
      BY <1>5, <3>1, <3>2
    <3>4. n - m \in 1..16
      BY <3>2
    <3> QED BY <1>3, <3>3, <3>4
  <2> QED BY <1>4, <1>5, <2>1, <2>2
<1> HIDE DEF x
<1>7. Len(x) = 16 * s + 16
  BY <1>4, <1>5
<1>8. KeyUpTo(x, s)
  BY <1>5, <1>6, <1>7 DEF KeyUpTo
<1> QED BY <1>1, <1>8 DEF x

\* The loop over the rounds as an equation.
LEMMA KeyLoops ==
    ASSUME NEW key
    PROVE  \E w : /\ expandKey(key) = w[10] /\ w[0] = key
                  /\ \A r \in 1..10 : w[r] = ExpandRound(w[r - 1], r)
<1> DEFINE v0 == key
           v1 == ExpandRound(v0, 1)
           v2 == ExpandRound(v1, 2)
           v3 == ExpandRound(v2, 3)
           v4 == ExpandRound(v3, 4)
           v5 == ExpandRound(v4, 5)
           v6 == ExpandRound(v5, 6)
           v7 == ExpandRound(v6, 7)
           v8 == ExpandRound(v7, 8)
           v9 == ExpandRound(v8, 9)
           v10 == ExpandRound(v9, 10)
           Made(f) == f = [r \in 0..10 |-> IF r = 0 THEN key ELSE ExpandRound(f[r - 1], r)]
           all == <<v0, v1, v2, v3, v4, v5, v6, v7, v8, v9, v10>>
           g == [r \in 0..10 |-> all[r + 1]]
           Value(r) == IF r = 0 THEN key ELSE ExpandRound(g[r - 1], r)
<1>1. /\ v1 = ExpandRound(v0, 1) /\ v2 = ExpandRound(v1, 2) /\ v3 = ExpandRound(v2, 3)
      /\ v4 = ExpandRound(v3, 4) /\ v5 = ExpandRound(v4, 5) /\ v6 = ExpandRound(v5, 6)
      /\ v7 = ExpandRound(v6, 7) /\ v8 = ExpandRound(v7, 8) /\ v9 = ExpandRound(v8, 9)
      /\ v10 = ExpandRound(v9, 10) /\ v0 = key
  OBVIOUS
<1> HIDE DEF v0, v1, v2, v3, v4, v5, v6, v7, v8, v9, v10
<1>2. /\ g[0] = v0 /\ g[1] = v1 /\ g[2] = v2 /\ g[3] = v3 /\ g[4] = v4 /\ g[5] = v5
      /\ g[6] = v6 /\ g[7] = v7 /\ g[8] = v8 /\ g[9] = v9 /\ g[10] = v10
  OBVIOUS
<1>3. g = [r \in 0..10 |-> g[r]]
  OBVIOUS
<1> HIDE DEF g, all
<1>4. ASSUME NEW r \in 0..10 PROVE g[r] = Value(r)
  <2>1. \/ r = 0 \/ r = 1 \/ r = 2 \/ r = 3 \/ r = 4 \/ r = 5
        \/ r = 6 \/ r = 7 \/ r = 8 \/ r = 9 \/ r = 10
    OBVIOUS
  <2> QED BY <1>1, <1>2, <2>1
<1>5. g = [r \in 0..10 |-> Value(r)]
  <2> HIDE DEF Value
  <2> QED BY <1>3, <1>4
<1>6. \E f : Made(f)
  BY <1>5
<1> DEFINE w == CHOOSE f : Made(f)
<1>7. Made(w)
  BY <1>6
<1>8. expandKey(key) = w[10]
  BY DEF expandKey
<1> HIDE DEF w
<1>9. w[0] = key /\ \A r \in 1..10 : w[r] = ExpandRound(w[r - 1], r)
  BY <1>7
<1> QED BY <1>8, <1>9

LEMMA KeyIs ==
    ASSUME NEW key, KeyUpTo(key, 0)
    PROVE  IsKey(expandKey(key))
<1>1. PICK w : /\ expandKey(key) = w[10] /\ w[0] = key
               /\ \A r \in 1..10 : w[r] = ExpandRound(w[r - 1], r)
  BY KeyLoops
<1> DEFINE P(r) == KeyUpTo(w[r], r)
<1>2. P(0)
  BY <1>1
<1>3. ASSUME NEW r \in 0..9, P(r) PROVE P(r + 1)
  <2>1. PICK s \in Nat : s = r + 1
    OBVIOUS
  <2>2. s \in 1..10 /\ s - 1 = r /\ r \in Nat
    BY <2>1
  <2>3. w[s] = ExpandRound(w[r], s)
    BY <1>1, <2>2
  <2>4. KeyUpTo(ExpandRound(w[r], s), s)
    BY <1>3, <2>1, <2>2, KeyGrows
  <2> QED BY <2>1, <2>3, <2>4
<1>4. P(10)
  <2> HIDE DEF P
  <2> QED BY <1>2, <1>3
<1>5. PICK k : k = expandKey(key)
  OBVIOUS
<1>6. k \in Seq(Nat) /\ Len(k) = 176 /\ \A n \in 1..Len(k) : k[n] < 256
  <2>1. KeyUpTo(k, 10)
    BY <1>1, <1>4, <1>5
  <2> QED BY <2>1 DEF KeyUpTo
<1>7. ASSUME NEW r \in 0..10, NEW i \in Place PROVE Byte8(k[16 * r + i + 1])
  <2>1. PICK n \in Nat : n = 16 * r + i + 1
    BY DEF Place
  <2>2. 1 <= n /\ n <= 176
    BY <2>1 DEF Place
  <2>3. n \in 1..Len(k)
    BY <1>6, <2>2
  <2>4. k[n] \in Nat
    <3>1. k \in Seq(Nat)
      BY <1>6
    <3> QED BY <2>3, <3>1, ElementOfSeq
  <2>5. k[n] < 256
    BY <1>6, <2>3
  <2> QED BY <2>1, <2>4, <2>5 DEF Byte8
<1> QED BY <1>5, <1>7 DEF IsKey

-----------------------------------------------------------------------------
PlainBlock(in) == [i \in Place |-> in.plain[i + 1]]

\* The blocks of an encryption as far as a round: the plain one, and what each round makes
\* of the one before it.
Goes(h, in, w, n) ==
    /\ h = [r \in 0..9 |-> h[r]] /\ h[0] = PlainBlock(in)
    /\ \A r \in 0..9 : r <= n => IsBlock(h[r])
    /\ \A r \in 0..8 : r < n => h[r + 1] = Round(h[r], w, r)

\* Encryption goes along such blocks, and decryption goes back along them.
AesEncrypting == round \in 0..9 /\ \E h : Goes(h, input, expandedKey, round) /\ state = h[round]
AesEncrypted == \E h : Goes(h, input, expandedKey, 9) /\ state = LastRound(h[9], expandedKey)
AesDecrypting == round \in 0..8 /\ \E h : Goes(h, input, expandedKey, 9) /\ state = h[round + 1]
AesDecrypted == state = PlainBlock(input)

AesInv ==
    /\ input \in Blocks /\ expandedKey = expandKey(input.key)
    /\ aes \in {"encrypt", "encrypted", "decrypt", "decrypted"}
    /\ aes = "encrypt" => AesEncrypting
    /\ aes = "encrypted" => AesEncrypted
    /\ aes = "decrypt" => AesDecrypting
    /\ aes = "decrypted" => AesDecrypted

LEMMA BytesOf ==
    ASSUME NEW in \in Blocks
    PROVE  IsKey(expandKey(in.key)) /\ IsBlock(PlainBlock(in))
<1>1. /\ in.key \in Seq(Nat) /\ Len(in.key) = 16 /\ \A i \in 1..16 : in.key[i] < 256
      /\ in.plain \in Seq(Nat) /\ Len(in.plain) = 16 /\ \A i \in 1..16 : in.plain[i] < 256
  BY AesAssumption
<1>2. KeyUpTo(in.key, 0)
  <2>1. PICK key : key = in.key
    OBVIOUS
  <2>2. key \in Seq(Nat) /\ Len(key) = 16
    BY <1>1, <2>1
  <2>3. \A i \in 1..Len(key) : key[i] < 256
    BY <1>1, <2>1, <2>2
  <2>4. 16 * 0 + 16 = 16
    OBVIOUS
  <2>5. Len(key) = 16 * 0 + 16
    BY <2>2, <2>4
  <2>6. KeyUpTo(key, 0)
    BY <2>2, <2>3, <2>5 DEF KeyUpTo
  <2> QED BY <2>1, <2>6
<1>3. ASSUME NEW i \in Place PROVE in.plain[i + 1] \in Nat /\ in.plain[i + 1] < 256
  <2>1. PICK n \in 1..16 : n = i + 1
    BY DEF Place
  <2>2. in.plain[n] \in Nat
    BY <1>1, ElementOfSeq
  <2> QED BY <1>1, <2>1, <2>2
<1>4. IsBlock(PlainBlock(in))
  BY <1>3 DEF IsBlock, PlainBlock
<1> QED BY <1>2, <1>4, KeyIs

LEMMA AesInitInv == AesInit(TRUE) => AesInv
<1> SUFFICES ASSUME AesInit(TRUE) PROVE AesInv
  OBVIOUS
<1>1. /\ aes = "encrypt" /\ input \in Blocks /\ state = PlainBlock(input)
      /\ expandedKey = expandKey(input.key) /\ round = 0
  BY DEF AesInit, PlainBlock
<1> DEFINE h == [r \in 0..9 |-> state]
<1>2. IsBlock(state)
  BY <1>1, BytesOf
<1>3. h = [r \in 0..9 |-> h[r]] /\ h[0] = state /\ \A r \in 0..9 : h[r] = state
  OBVIOUS
<1> HIDE DEF h
<1>4. Goes(h, input, expandedKey, 0)
  BY <1>1, <1>2, <1>3 DEF Goes
<1> QED BY <1>1, <1>3, <1>4 DEF AesInv, AesEncrypting

LEMMA AesStep == AesInv /\ [AesNext]_aes_vars => AesInv'
<1> SUFFICES ASSUME AesInv, [AesNext]_aes_vars PROVE AesInv'
  OBVIOUS
<1>1. CASE UNCHANGED aes_vars
  BY <1>1 DEF aes_vars, AesInv, AesEncrypting, AesEncrypted, AesDecrypting, AesDecrypted
<1>2. input \in Blocks /\ expandedKey = expandKey(input.key) /\ IsKey(expandedKey)
  BY BytesOf DEF AesInv
<1>3. CASE EncryptRound
  <2>1. /\ aes = "encrypt" /\ input' = input /\ expandedKey' = expandedKey /\ round' = round + 1
        /\ aes' = IF round < 9 THEN "encrypt" ELSE "encrypted"
    BY <1>3 DEF EncryptRound
  <2>2. round \in 0..9
    BY <2>1 DEF AesInv, AesEncrypting
  <2>3. PICK h : Goes(h, input, expandedKey, round) /\ state = h[round]
    BY <2>1 DEF AesInv, AesEncrypting
  <2>4. IsBlock(state)
    BY <2>2, <2>3 DEF Goes
  <2>5. CASE round < 9
    <3>1. state' = Round(state, expandedKey, round) /\ aes' = "encrypt"
      BY <1>3, <2>1, <2>5 DEF EncryptRound, Round
    <3>2. IsBlock(state')
      <4>1. round \in 0..10
        BY <2>2
      <4> QED BY <1>2, <2>4, <3>1, <4>1, RoundBack
    <3>3. PICK next \in 1..9 : next = round + 1
      BY <2>2, <2>5
    <3> DEFINE g == [r \in 0..9 |-> IF r = next THEN state' ELSE h[r]]
    <3>4. g = [r \in 0..9 |-> g[r]] /\ g[0] = h[0] /\ g[next] = state'
      OBVIOUS
    <3>5. \A r \in 0..9 : r # next => g[r] = h[r]
      OBVIOUS
    <3> HIDE DEF g
    <3>6. ASSUME NEW r \in 0..9, r <= next PROVE IsBlock(g[r])
      BY <2>2, <2>3, <3>2, <3>3, <3>4, <3>5, <3>6 DEF Goes
    <3>7. ASSUME NEW r \in 0..8, r < next PROVE g[r + 1] = Round(g[r], expandedKey, r)
      <4>1. g[r] = h[r]
        BY <3>5, <3>7
      <4>2. CASE r = round
        BY <2>3, <3>1, <3>3, <3>4, <4>1, <4>2
      <4>3. CASE r # round
        <5>1. r < round /\ r + 1 \in 0..9 /\ r + 1 # next
          BY <2>2, <3>3, <3>7, <4>3
        <5>2. g[r + 1] = h[r + 1]
          BY <3>5, <5>1
        <5>3. h[r + 1] = Round(h[r], expandedKey, r)
          BY <2>3, <5>1 DEF Goes
        <5> QED BY <4>1, <5>2, <5>3
      <4> QED BY <4>2, <4>3
    <3>8. Goes(g, input, expandedKey, next)
      BY <2>3, <3>4, <3>6, <3>7 DEF Goes
    <3>9. AesEncrypting'
      BY <2>1, <3>3, <3>4, <3>8 DEF AesEncrypting
    <3> QED BY <1>2, <2>1, <3>1, <3>9 DEF AesInv
  <2>6. CASE ~(round < 9)
    <3>1. round = 9
      BY <2>2, <2>6
    <3>2. state' = LastRound(state, expandedKey) /\ aes' = "encrypted"
      BY <1>3, <2>1, <3>1 DEF EncryptRound, LastRound
    <3>3. AesEncrypted'
      BY <2>1, <2>3, <3>1, <3>2 DEF AesEncrypted
    <3> QED BY <1>2, <2>1, <3>2, <3>3 DEF AesInv
  <2> QED BY <2>5, <2>6
<1>4. CASE DecryptStart
  <2>1. aes = "encrypted" /\ aes' = "decrypt" /\ input' = input /\ expandedKey' = expandedKey /\ round' = 8
    BY <1>2, <1>4 DEF DecryptStart
  <2>2. PICK h : Goes(h, input, expandedKey, 9) /\ state = LastRound(h[9], expandedKey)
    BY <2>1 DEF AesInv, AesEncrypted
  <2>3. IsBlock(h[9])
    BY <2>2 DEF Goes
  <2>4. state' = AddKey(UnshiftSub(AddKey(state, expandedKey, 10)), expandedKey, 9)
    BY <1>4, <2>1 DEF DecryptStart
  <2>5. state' = h[9]
    BY <1>2, <2>2, <2>3, <2>4, LastBack
  <2>6. round' + 1 = 9 /\ round' \in 0..8
    BY <2>1
  <2>7. AesDecrypting'
    BY <2>1, <2>2, <2>5, <2>6 DEF AesDecrypting
  <2> QED BY <1>2, <2>1, <2>7 DEF AesInv
<1>5. CASE DecryptRound
  <2>1. /\ aes = "decrypt" /\ input' = input /\ expandedKey' = expandedKey /\ round' = round - 1
        /\ aes' = IF round = 0 THEN "decrypted" ELSE "decrypt"
        /\ state' = AddKey(UnshiftSub(Unmix(state)), expandedKey, round)
    BY <1>5 DEF DecryptRound
  <2>2. round \in 0..8
    BY <2>1 DEF AesInv, AesDecrypting
  <2>3. PICK h : Goes(h, input, expandedKey, 9) /\ state = h[round + 1]
    BY <2>1 DEF AesInv, AesDecrypting
  <2>4. IsBlock(h[round]) /\ h[round + 1] = Round(h[round], expandedKey, round)
    BY <2>2, <2>3 DEF Goes
  <2>5. state' = h[round]
    <3>1. round \in 0..10
      BY <2>2
    <3>2. AddKey(UnshiftSub(Unmix(Round(h[round], expandedKey, round))), expandedKey, round) = h[round]
      BY <1>2, <2>4, <3>1, RoundBack
    <3>3. state = Round(h[round], expandedKey, round)
      BY <2>3, <2>4
    <3> QED BY <2>1, <3>2, <3>3
  <2>6. CASE round = 0
    <3>1. AesDecrypted' /\ aes' = "decrypted"
      BY <2>1, <2>3, <2>5, <2>6 DEF AesDecrypted, Goes
    <3> QED BY <1>2, <2>1, <3>1 DEF AesInv
  <2>7. CASE round # 0
    <3>1. aes' = "decrypt" /\ round' \in 0..8 /\ round' + 1 = round
      BY <2>1, <2>2, <2>7
    <3>2. AesDecrypting'
      BY <2>1, <2>3, <2>5, <3>1 DEF AesDecrypting
    <3> QED BY <1>2, <2>1, <3>1, <3>2 DEF AesInv
  <2> QED BY <2>6, <2>7
<1> QED BY <1>1, <1>3, <1>4, <1>5 DEF AesNext

AesSpec == AesInit(TRUE) /\ [][AesNext]_aes_vars

\* aes_decrypt, with rounds of its own and the key expanded again, gives back every block that
\* aes_encrypt was called with, under every key.
THEOREM Deciphered == AesSpec => []DecryptsBack
<1>1. AesInit(TRUE) => AesInv
  BY AesInitInv
<1>2. AesInv /\ [AesNext]_aes_vars => AesInv'
  BY AesStep
<1>3. AesInv => DecryptsBack
  BY DEF AesInv, AesDecrypted, DecryptsBack, PlainBlock
<1> QED
  BY <1>1, <1>2, <1>3, PTL DEF AesSpec
=============================================================================
