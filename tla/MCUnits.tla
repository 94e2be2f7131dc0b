------------------------------ MODULE MCUnits ------------------------------
(***************************************************************************)
(* The computations of the library, one at a time: Init chooses which.         *)
(***************************************************************************)
EXTENDS NtpCalendar, NvmemPatch, HciPatch, Aes, SmartConfigKey, RequestParser

vars == <<calendar_vars, nvmem_vars, hci_vars, aes_vars, smart_vars, web_vars>>

NvmemOff ==
    nvmem = "off" /\ spTotal = 0 /\ spLength = 0 /\ offset = 0 /\ status = 0 /\ file = {}

Init ==
    \E unit \in {"calendar", "nvmem", "hci", "aes", "smart", "web"} :
        /\ CalendarInit(unit = "calendar")
        /\ IF unit = "nvmem" THEN PatchInit ELSE NvmemOff
        /\ HciInit(unit = "hci")
        /\ AesInit(unit = "aes")
        /\ SmartInit(unit = "smart")
        /\ WebInit(unit = "web")

Next ==
    \/ CalendarNext /\ UNCHANGED <<nvmem_vars, hci_vars, aes_vars, smart_vars, web_vars>>
    \/ PatchNext /\ UNCHANGED <<calendar_vars, hci_vars, aes_vars, smart_vars, web_vars>>
    \/ HciNext /\ UNCHANGED <<calendar_vars, nvmem_vars, aes_vars, smart_vars, web_vars>>
    \/ AesNext /\ UNCHANGED <<calendar_vars, nvmem_vars, hci_vars, smart_vars, web_vars>>
    \/ SmartNext /\ UNCHANGED <<calendar_vars, nvmem_vars, hci_vars, aes_vars, web_vars>>
    \/ WebNext /\ UNCHANGED <<calendar_vars, nvmem_vars, hci_vars, aes_vars, smart_vars>>

Spec == Init /\ [][Next]_vars

-----------------------------------------------------------------------------
\* A year of each kind, and the first of the second era.
ShortAndLong == {1970, 1972, 2000, 2036, 2100}
HalfDayZones == {-9, 0, 8, 10}
MidnightAndBefore == {0, 86399}

Failures == {0, -1, 4}

\* Lengths of keys at the borders of the blocks, and a key that begins with 31.
LengthsOfKeys == {0, 1, 5, 15, 16, 30, 31, 32}
KeysOfAll == {[i \in 1..n |-> 64 + i] : n \in LengthsOfKeys} \cup {[i \in 1..8 |-> 31]}

\* With and without a body, short of its length and beyond it; two lengths, one too far to
\* the left in its line, and one in the body; a user that there is room for, one that there
\* is not, one on the line before the word, and one in front of another.
Heads ==
    {<<<<"a">>>>, <<<<"a", "b">>>>, <<<<"a">>, <<"Content-Length: 2">>>>,
     <<<<"Content-Length: 1">>, <<"a", "Content-Length: 3">>>>,
     <<<<"Content-Length: 1">>, <<"Content-Length: 3">>>>,
     <<<<AUTH, "a">>, <<"Content-Length: 2">>>>, <<<<"a", AUTH, SP, "a", "b">>, <<"Content-Length: 2">>>>,
     <<<<AUTH>>, <<"a", "b">>>>, <<<<AUTH, "a", SP, AUTH, "a", "b">>>>,
     <<<<"Content-Length: 2", "a", "b", "c", "d", "e", "f">>>>}
Bodies ==
    {<<>>, <<"x", "y">>, <<"x", "y", "z", "w">>, <<"Content-Length: 1", CR, LF, "z">>}
Asked ==
    [method : {<<"G">>, <<"P", "O", "S">>}, filename : {<<"/">>, <<"/", "i", "j">>},
     lines : Heads, body : Bodies]

\* The vectors of FIPS 197 and of NIST SP 800-38A (F.1.1).
FipsKey == <<43, 126, 21, 22, 40, 174, 210, 166, 171, 247, 21, 136, 9, 207, 79, 60>>
Known ==
    {[key |-> <<0, 1, 2, 3, 4, 5, 6, 7, 8, 9, 10, 11, 12, 13, 14, 15>>,
      plain |-> <<0, 17, 34, 51, 68, 85, 102, 119, 136, 153, 170, 187, 204, 221, 238, 255>>,
      cipher |-> <<105, 196, 224, 216, 106, 123, 4, 48, 216, 205, 183, 128, 112, 180, 197, 90>>],
     [key |-> FipsKey,
      plain |-> <<50, 67, 246, 168, 136, 90, 48, 141, 49, 49, 152, 162, 224, 55, 7, 52>>,
      cipher |-> <<57, 37, 132, 29, 2, 220, 9, 251, 220, 17, 133, 151, 25, 106, 11, 50>>],
     [key |-> FipsKey,
      plain |-> <<107, 193, 190, 226, 46, 64, 159, 150, 233, 61, 126, 17, 115, 147, 23, 42>>,
      cipher |-> <<58, 215, 123, 180, 13, 122, 54, 96, 168, 158, 202, 243, 36, 102, 239, 151>>],
     [key |-> FipsKey,
      plain |-> <<174, 45, 138, 87, 30, 3, 172, 156, 158, 183, 111, 172, 69, 175, 142, 81>>,
      cipher |-> <<245, 211, 213, 133, 3, 185, 105, 157, 231, 133, 137, 90, 150, 253, 186, 175>>],
     [key |-> FipsKey,
      plain |-> <<48, 200, 28, 70, 163, 92, 228, 17, 229, 251, 193, 25, 26, 10, 82, 239>>,
      cipher |-> <<67, 177, 205, 127, 89, 142, 206, 35, 136, 27, 0, 227, 237, 3, 6, 136>>],
     [key |-> FipsKey,
      plain |-> <<246, 159, 36, 69, 223, 79, 155, 23, 173, 43, 65, 123, 230, 108, 55, 16>>,
      cipher |-> <<123, 12, 120, 94, 39, 232, 173, 63, 130, 35, 32, 113, 4, 114, 93, 212>>]}
=============================================================================
