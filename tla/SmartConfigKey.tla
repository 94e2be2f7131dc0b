--------------------------- MODULE SmartConfigKey ---------------------------
(***************************************************************************)
(* wlan_smart_config_process: the profile that the phone has left on the       *)
(* device is read, its key decrypted and told from its padding, and the        *)
(* profile added. The 32 bytes of the key are as decrypted (Aes).             *)
(***************************************************************************)
EXTENDS Integers, SequencesExt

CONSTANTS
    Keys,          \* of the networks: sequences of bytes
    Securities,    \* WLAN_SEC_*: 0 for none, WEP, WPA, WPA2
    Leftover       \* the last byte of the file behind a short key

ASSUME SmartConfigKeyAssumption ==
    /\ \A k \in Keys : Len(k) <= 32 /\ (Len(k) = 32 => k[1] # 31)
    /\ Securities \subseteq 0..255 /\ Leftover \in 0..255

VARIABLES
    smart,         \* "off", "key", "profile", "add", "done"
    network,       \* the one the phone told of
    profileArray,  \* the key in the file, and how much of it is encrypted
    returnValue, added

smart_vars == <<smart, network, profileArray, returnValue, added>>

WLAN_SEC_UNSEC == 0
WLAN_SEC_WEP == 1
WLAN_SEC_WPA == 2
WLAN_SEC_WPA2 == 3

Nothing == [security |-> -1, key |-> <<>>]

-----------------------------------------------------------------------------
\* The device: a key of 32 bytes is stored as it is, a shorter one behind its length,
\* in one block if that holds it, and what the file had in the other stays there. The comment
\* in the code has the key always in 32 bytes; the code decrypts the second 16 only if told of
\* them, so both are stored here.
Stored(key) ==
    LET text == IF Len(key) = 32 THEN key ELSE <<Len(key)>> \o key
        blocks == IF Len(text) <= 16 THEN 16 ELSE 32
    IN [encrypted |-> blocks,
        bytes |-> [i \in 1..32 |-> IF i <= Len(text) THEN text[i]
                                   ELSE IF i = 32 /\ blocks = 16 THEN Leftover ELSE 0]]

\* Which bytes can be read after the calls of aes_decrypt.
Decrypted(p) == IF p.encrypted > 16 THEN 1..32 ELSE 1..16

\* Variant: a key that fills the two blocks is taken for one of 32 bytes.
LongIs32(b) == IF b[32] # 0 THEN b ELSE SubSeq(b, 2, b[1] + 1)
KeyOf(b) ==
    IF b[32] # 0 /\ b[1] # 31 THEN b ELSE SubSeq(b, 2, b[1] + 1)

-----------------------------------------------------------------------------
\* nvmem_read returns the status byte of the device, which is positive when it fails.
FailedReads == {1, 255}

ReadKey ==
    /\ smart = "key"
    /\ \/ smart' = "profile" /\ returnValue' = 0
       \/ smart' = "done" /\ returnValue' \in FailedReads
    /\ UNCHANGED <<network, profileArray, added>>

ReadProfile ==
    /\ smart = "profile"
    /\ \/ smart' = "add" /\ returnValue' = 0 /\ profileArray' = Stored(network.key)
       \/ smart' = "done" /\ returnValue' \in FailedReads /\ UNCHANGED profileArray
    /\ UNCHANGED <<network, added>>

\* What is told to wlan_add_profile; a security of another number adds no profile, and
\* is no error.
Profile ==
    CASE network.security = WLAN_SEC_UNSEC -> [security |-> WLAN_SEC_UNSEC, key |-> <<>>]
      [] network.security = WLAN_SEC_WEP ->
            [security |-> WLAN_SEC_WEP, key |-> KeyOf(profileArray.bytes)]
      [] network.security \in {WLAN_SEC_WPA, WLAN_SEC_WPA2} ->
            [security |-> WLAN_SEC_WPA2, key |-> KeyOf(profileArray.bytes)]
      [] OTHER -> Nothing

AddProfile ==
    /\ smart = "add"
    /\ smart' = "done"
    /\ \/ returnValue' = 0 /\ added' = Profile
       \/ returnValue' = -1 /\ Profile # Nothing /\ UNCHANGED added
    /\ UNCHANGED <<network, profileArray>>

-----------------------------------------------------------------------------
SmartInit(on) ==
    /\ returnValue = 0 /\ added = Nothing /\ profileArray = [encrypted |-> 0, bytes |-> <<>>]
    /\ IF on THEN smart = "key" /\ network \in [security : Securities, key : Keys]
       ELSE smart = "off" /\ network = Nothing

SmartNext == ReadKey \/ ReadProfile \/ AddProfile

-----------------------------------------------------------------------------
\* The profile added has the key of the network, of whatever length, and no byte of it
\* is left encrypted.
KeyRecovered ==
    smart = "done" /\ returnValue = 0 /\ network.security \in 1..3 =>
        /\ added.key = network.key
        /\ \A i \in 1..Len(network.key) :
            (IF Len(network.key) = 32 THEN i ELSE i + 1) \in Decrypted(profileArray)
=============================================================================
