-------------------------------- MODULE Aes --------------------------------
(***************************************************************************)
(* security.c: AES with a key of 128 bits, one round a step. A block is a       *)
(* function from 0..15, column by column; the tables are the program's.        *)
(***************************************************************************)
EXTENDS Integers, SequencesExt

CONSTANTS
    Blocks         \* keys, blocks and what the standard encrypts them to

ASSUME AesAssumption ==
    \A b \in Blocks : \A s \in {b.key, b.plain, b.cipher} :
        s \in Seq(Nat) /\ Len(s) = 16 /\ \A i \in 1..16 : s[i] < 256

VARIABLES
    aes,           \* "off", "encrypt", "encrypted", "decrypt", "decrypted"
    state,         \* the block
    expandedKey, round,
    input          \* the key and the block it was

aes_vars == <<aes, state, expandedKey, round, input>>

sbox ==
    << 99, 124, 119, 123, 242, 107, 111, 197,  48,   1, 103,  43, 254, 215, 171, 118, 202, 130, 201, 125, 250,  89,
       71, 240, 173, 212, 162, 175, 156, 164, 114, 192, 183, 253, 147,  38,  54,  63, 247, 204,  52, 165, 229, 241,
      113, 216,  49,  21,   4, 199,  35, 195,  24, 150,   5, 154,   7,  18, 128, 226, 235,  39, 178, 117,   9, 131,
       44,  26,  27, 110,  90, 160,  82,  59, 214, 179,  41, 227,  47, 132,  83, 209,   0, 237,  32, 252, 177,  91,
      106, 203, 190,  57,  74,  76,  88, 207, 208, 239, 170, 251,  67,  77,  51, 133,  69, 249,   2, 127,  80,  60,
      159, 168,  81, 163,  64, 143, 146, 157,  56, 245, 188, 182, 218,  33,  16, 255, 243, 210, 205,  12,  19, 236,
       95, 151,  68,  23, 196, 167, 126,  61, 100,  93,  25, 115,  96, 129,  79, 220,  34,  42, 144, 136,  70, 238,
      184,  20, 222,  94,  11, 219, 224,  50,  58,  10,  73,   6,  36,  92, 194, 211, 172,  98, 145, 149, 228, 121,
      231, 200,  55, 109, 141, 213,  78, 169, 108,  86, 244, 234, 101, 122, 174,   8, 186, 120,  37,  46,  28, 166,
      180, 198, 232, 221, 116,  31,  75, 189, 139, 138, 112,  62, 181, 102,  72,   3, 246,  14,  97,  53,  87, 185,
      134, 193,  29, 158, 225, 248, 152,  17, 105, 217, 142, 148, 155,  30, 135, 233, 206,  85,  40, 223, 140, 161,
      137,  13, 191, 230,  66, 104,  65, 153,  45,  15, 176,  84, 187,  22>>
rsbox ==
    << 82,   9, 106, 213,  48,  54, 165,  56, 191,  64, 163, 158, 129, 243, 215, 251, 124, 227,  57, 130, 155,  47,
      255, 135,  52, 142,  67,  68, 196, 222, 233, 203,  84, 123, 148,  50, 166, 194,  35,  61, 238,  76, 149,  11,
       66, 250, 195,  78,   8,  46, 161, 102,  40, 217,  36, 178, 118,  91, 162,  73, 109, 139, 209,  37, 114, 248,
      246, 100, 134, 104, 152,  22, 212, 164,  92, 204,  93, 101, 182, 146, 108, 112,  72,  80, 253, 237, 185, 218,
       94,  21,  70,  87, 167, 141, 157, 132, 144, 216, 171,   0, 140, 188, 211,  10, 247, 228,  88,   5, 184, 179,
       69,   6, 208,  44,  30, 143, 202,  63,  15,   2, 193, 175, 189,   3,   1,  19, 138, 107,  58, 145,  17,  65,
       79, 103, 220, 234, 151, 242, 207, 206, 240, 180, 230, 115, 150, 172, 116,  34, 231, 173,  53, 133, 226, 249,
       55, 232,  28, 117, 223, 110,  71, 241,  26, 113,  29,  41, 197, 137, 111, 183,  98,  14, 170,  24, 190,  27,
      252,  86,  62,  75, 198, 210, 121,  32, 154, 219, 192, 254, 120, 205,  90, 244,  31, 221, 168,  51, 136,   7,
      199,  49, 177,  18,  16,  89,  39, 128, 236,  95,  96,  81, 127, 169,  25, 181,  74,  13,  45, 229, 122, 159,
      147, 201, 156, 239, 160, 224,  59,  77, 174,  42, 245, 176, 200, 235, 187,  60, 131,  83, 153,  97,  23,  43,
        4, 126, 186, 119, 214,  38, 225, 105,  20,  99,  85,  33,  12, 125>>
Rcon ==
    <<141,   1,   2,   4,   8,  16,  32,  64, 128,  27,  54>>

Place == 0..15

\* Exclusive or of bytes, bit by bit. The bits are given by their values.
BitOf(n, v) == (n \div v) % 2
Xor(a, b) ==
    LET bit(v) == IF BitOf(a, v) = BitOf(b, v) THEN 0 ELSE v
    IN bit(1) + bit(2) + bit(4) + bit(8) + bit(16) + bit(32) + bit(64) + bit(128)
XorAll(s) == FoldLeft(Xor, 0, s)

-----------------------------------------------------------------------------
\* Variant: what does not fit is lost.
Shifted(value) == (2 * value) % 256
galois_mul2(value) ==
    IF value \div 128 = 1 THEN Xor((2 * value) % 256, 27) ELSE 2 * value

\* The next round key: each word is the one of the round before with the word in front of it,
\* and the first with the last before it, turned, substituted and marked.
ExpandRound(w, r) ==
    LET before(n) == w[16 * (r - 1) + n + 1]
        turned(k) == Xor(sbox[before(12 + ((k + 1) % 4)) + 1], IF k = 0 THEN Rcon[r + 1] ELSE 0)
        front(i) == XorAll(<<turned(i % 4)>> \o [n \in 1..(i \div 4) |-> before(4 * (n - 1) + (i % 4))])
    IN w \o [i \in 1..16 |-> Xor(before(i - 1), front(i - 1))]
expandKey(key) ==
    LET w[r \in 0..10] == IF r = 0 THEN key ELSE ExpandRound(w[r - 1], r)
    IN w[10]

AddKey(b, w, r) == [i \in Place |-> Xor(b[i], w[16 * r + i + 1])]

\* The bytes of row i % 4 move that many columns.
SubShift(b)   == [i \in Place |-> sbox[b[(i + 4 * (i % 4)) % 16] + 1]]
UnshiftSub(b) == [i \in Place |-> rsbox[b[(i + 12 * (i % 4)) % 16] + 1]]

\* Byte j of the column that byte i is in, counted from i.
Column(b, i, j) == b[4 * (i \div 4) + ((i + j) % 4)]

Mix(b) ==
    [i \in Place |->
        LET c(j) == Column(b, i, j)
        IN Xor(Xor(b[i], galois_mul2(Xor(b[i], c(1)))), Xor(Xor(b[i], c(1)), Xor(c(2), c(3))))]

\* Variant: without the step before it.
MixOnly(b) == Mix(b)
Barreto(b) == [i \in Place |-> Xor(b[i], galois_mul2(galois_mul2(Xor(b[i], Column(b, i, 2)))))]
Unmix(b) == Mix(Barreto(b))

-----------------------------------------------------------------------------
\* aes_encrypt: nine rounds, and one without mixing
EncryptRound ==
    /\ aes = "encrypt"
    /\ LET shifted == SubShift(AddKey(state, expandedKey, round))
       IN state' = IF round < 9 THEN Mix(shifted) ELSE AddKey(shifted, expandedKey, 10)
    /\ round' = round + 1
    /\ aes' = IF round < 9 THEN "encrypt" ELSE "encrypted"
    /\ UNCHANGED <<expandedKey, input>>

\* aes_decrypt expands the key again.
DecryptStart ==
    /\ aes = "encrypted"
    /\ aes' = "decrypt"
    /\ expandedKey' = expandKey(input.key)
    /\ LET w == expandedKey' IN state' = AddKey(UnshiftSub(AddKey(state, w, 10)), w, 9)
    /\ round' = 8
    /\ UNCHANGED input

DecryptRound ==
    /\ aes = "decrypt"
    /\ state' = AddKey(UnshiftSub(Unmix(state)), expandedKey, round)
    /\ round' = round - 1
    /\ aes' = IF round = 0 THEN "decrypted" ELSE "decrypt"
    /\ UNCHANGED <<expandedKey, input>>

-----------------------------------------------------------------------------
AesInit(on) ==
    /\ round = 0
    /\ IF on THEN /\ aes = "encrypt" /\ input \in Blocks
                  /\ state = [i \in Place |-> input.plain[i + 1]]
                  /\ expandedKey = expandKey(input.key)
       ELSE aes = "off" /\ input = <<>> /\ state = <<>> /\ expandedKey = <<>>

AesNext == EncryptRound \/ DecryptStart \/ DecryptRound

-----------------------------------------------------------------------------
\* The standard's substitution: the inverse in the field of 256 elements, and an affine
\* map of its bits.

Bit(n, k) == (n \div 2^k) % 2
Times2(a) == IF a >= 128 THEN Xor(2 * a - 256, 27) ELSE 2 * a
Powers(a) == FoldLeft(LAMBDA s, k : Append(s, Times2(Last(s))), <<a>>, <<1, 2, 3, 4, 5, 6, 7>>)
Times(a, b) == LET p == Powers(a) IN XorAll([k \in 1..8 |-> Bit(b, k - 1) * p[k]])

\* Powers of 3 reach every element but 0: 3^n has the inverse 3^(255 - n).
Sixteen(a) == FoldLeft(LAMBDA s, k : Append(s, Times(Last(s), a)), <<1>>, [k \in 1..15 |-> k])
Exp3 ==
    LET low  == Sixteen(3)
        high == Sixteen(Times(low[16], 3))
    IN [n \in 1..255 |-> Times(high[((n - 1) \div 16) + 1], low[((n - 1) % 16) + 1])]
InverseOf(a) ==
    IF a = 0 THEN 0
    ELSE LET n == (CHOOSE n \in 1..255 : Exp3[n] = a) - 1 IN Exp3[((255 - n) % 255) + 1]
Affine(a) ==
    XorAll([k \in 1..8 |->
        2^(k - 1) * XorAll(<<Bit(a, k - 1), Bit(a, (k + 3) % 8), Bit(a, (k + 4) % 8),
                             Bit(a, (k + 5) % 8), Bit(a, (k + 6) % 8), Bit(99, k - 1)>>)])
Substitution == [a \in 0..255 |-> Affine(InverseOf(a))]

\* What is encrypted with the rounds and keys of security.c is what the standard says, with the
\* substitution it defines.
EncryptsByStandard ==
    aes = "encrypted" => /\ \A a \in 0..255 : sbox[a + 1] = Substitution[a]
                         /\ \A i \in Place : state[i] = input.cipher[i + 1]

\* Decryption, which has rounds of its own and expands the key again, gives back what was
\* encrypted.
DecryptsBack == aes = "decrypted" => \A i \in Place : state[i] = input.plain[i + 1]
=============================================================================
