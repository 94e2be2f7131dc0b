----------------------------- MODULE NvmemPatch -----------------------------
(***************************************************************************)
(* nvmem_write_patch: a patch goes to a file portion by portion. The offset     *)
(* is narrower than the length, and the status than what nvmem_write returns.  *)
(***************************************************************************)
EXTENDS Integers

CONSTANTS
    SP_PORTION_SIZE,  \* 32 in the code
    Offsets,          \* numbers a UINT16 holds: 65536
    PatchSizes,       \* lengths of the patches written
    WriteResults      \* what nvmem_write returns

ASSUME NvmemPatchAssumption ==
    /\ SP_PORTION_SIZE \in Nat \ {0} /\ Offsets \in Nat \ {0}
    /\ PatchSizes \subseteq 0..Offsets
    /\ WriteResults \subseteq {r \in Int : r % 256 = 0 => r = 0}

VARIABLES
    nvmem,                      \* "off", "write", "done"
    spTotal, spLength, offset,  \* the length, what is left of it, the place in the file
    status,
    file                        \* <<place, byte of the patch written there>>

nvmem_vars == <<nvmem, spTotal, spLength, offset, status, file>>

-----------------------------------------------------------------------------
PatchInit ==
    /\ nvmem = "write"
    /\ spTotal \in PatchSizes /\ spLength = spTotal
    /\ offset = 0 /\ status = 0 /\ file = {}

\* nvmem_write: from where spDataPtr points to, or nothing at all if it fails
Written(length, r) ==
    IF r = 0 THEN file \cup {<<offset + k, spTotal - spLength + k>> : k \in 0..(length - 1)}
    ELSE file

\* A whole portion. Variant: the offset does not move.
SameOffset == offset
NextOffset == (offset + SP_PORTION_SIZE) % Offsets

Portion ==
    /\ nvmem = "write" /\ status = 0 /\ spLength >= SP_PORTION_SIZE
    /\ \E r \in WriteResults :
        /\ status' = r % 256
        /\ file' = Written(SP_PORTION_SIZE, r)
    /\ offset' = NextOffset
    /\ spLength' = spLength - SP_PORTION_SIZE
    /\ UNCHANGED <<nvmem, spTotal>>

\* The rest, if no portion has failed.
Rest ==
    /\ nvmem = "write" /\ (status # 0 \/ spLength < SP_PORTION_SIZE)
    /\ nvmem' = "done"
    /\ \/ /\ status = 0 /\ spLength # 0
          /\ \E r \in WriteResults :
              /\ status' = r % 256
              /\ file' = Written(spLength, r)
          /\ spLength' = 0
       \/ /\ status # 0 \/ spLength = 0
          /\ UNCHANGED <<status, file, spLength>>
    /\ UNCHANGED <<spTotal, offset>>

PatchNext == Portion \/ Rest

PatchSpec == PatchInit /\ [][PatchNext]_nvmem_vars

-----------------------------------------------------------------------------
\* Success means that the whole patch is in the file, each byte at its place, however
\* many portions it takes: a failed portion is not followed by a good one.
PatchWritten == nvmem = "done" /\ status = 0 => file = {<<i, i>> : i \in 0..(spTotal - 1)}
=============================================================================
