-------------------------------- MODULE Aes --------------------------------
(***************************************************************************)
(* The block cipher of src/src/ldl_aes.c and the subkeys of                *)
(* src/src/ldl_cmac.c, on bytes.  Security takes them as given; here they  *)
(* are compared with AES as it is published (FIPS 197).                    *)
(*                                                                         *)
(* A block and a round key are four words (columns) of four bytes.         *)
(***************************************************************************)
EXTENDS Integers, Sequences

CONSTANTS
    AesKeys,     \* keys, also those of rounds
    AesBlocks,   \* blocks, also those between rounds
    Vectors      \* [key, block, cipher] known from elsewhere

\* The exclusive or of two bytes, by way of that of their halves.
BitOf(a, n)   == (a \div 2^n) % 2
Halves      == [a, b \in 0..15 |-> LET B(n) == ((BitOf(a, n) + BitOf(b, n)) % 2) * 2^n
                                   IN B(0) + B(1) + B(2) + B(3)]
a ^^ b      == 16 * Halves[a \div 16, b \div 16] + Halves[a % 16, b % 16]
XorWord(v, w)  == <<v[1] ^^ w[1], v[2] ^^ w[2], v[3] ^^ w[3], v[4] ^^ w[4]>>
XorBlock(s, t) == <<XorWord(s[1], t[1]), XorWord(s[2], t[2]), XorWord(s[3], t[3]), XorWord(s[4], t[4])>>

Sbox == <<
      99, 124, 119, 123, 242, 107, 111, 197, 48, 1, 103, 43, 254, 215, 171, 118, 202, 130, 201, 125,
      250, 89, 71, 240, 173, 212, 162, 175, 156, 164, 114, 192, 183, 253, 147, 38, 54, 63, 247, 204,
      52, 165, 229, 241, 113, 216, 49, 21, 4, 199, 35, 195, 24, 150, 5, 154, 7, 18, 128, 226,
      235, 39, 178, 117, 9, 131, 44, 26, 27, 110, 90, 160, 82, 59, 214, 179, 41, 227, 47, 132,
      83, 209, 0, 237, 32, 252, 177, 91, 106, 203, 190, 57, 74, 76, 88, 207, 208, 239, 170, 251,
      67, 77, 51, 133, 69, 249, 2, 127, 80, 60, 159, 168, 81, 163, 64, 143, 146, 157, 56, 245,
      188, 182, 218, 33, 16, 255, 243, 210, 205, 12, 19, 236, 95, 151, 68, 23, 196, 167, 126, 61,
      100, 93, 25, 115, 96, 129, 79, 220, 34, 42, 144, 136, 70, 238, 184, 20, 222, 94, 11, 219,
      224, 50, 58, 10, 73, 6, 36, 92, 194, 211, 172, 98, 145, 149, 228, 121, 231, 200, 55, 109,
      141, 213, 78, 169, 108, 86, 244, 234, 101, 122, 174, 8, 186, 120, 37, 46, 28, 166, 180, 198,
      232, 221, 116, 31, 75, 189, 139, 138, 112, 62, 181, 102, 72, 3, 246, 14, 97, 53, 87, 185,
      134, 193, 29, 158, 225, 248, 152, 17, 105, 217, 142, 148, 155, 30, 135, 233, 206, 85, 40, 223,
      140, 161, 137, 13, 191, 230, 66, 104, 65, 153, 45, 15, 176, 84, 187, 22>>
SBOX(x) == Sbox[x + 1]

GALOIS_MUL2(b) == IF b >= 128 THEN ((2 * b) % 256) ^^ 27 ELSE 2 * b

Rcon == <<1, 2, 4, 8, 16, 32, 64, 128, 27, 54>>

\* The words that follow round key k.
FollowingWords(k, first) ==
    LET second == XorWord(k[2], first)
        third  == XorWord(k[3], second)
    IN <<first, second, third, XorWord(k[4], third)>>

\* Defect: the last word is not rotated.
NextKeyMutant(k, rcon) ==
    LET last == k[4]
    IN FollowingWords(k, XorWord(k[1], <<SBOX(last[1]) ^^ rcon, SBOX(last[2]), SBOX(last[3]), SBOX(last[4])>>))

NextKey(k, rcon) ==
    LET last == k[4]
    IN FollowingWords(k, XorWord(k[1], <<SBOX(last[2]) ^^ rcon, SBOX(last[3]), SBOX(last[4]), SBOX(last[1])>>))

\* LDL_AES_init(): the key and ten round keys.
Schedule(key) == LET ks[r \in 0..10] == IF r = 0 THEN key ELSE NextKey(ks[r - 1], Rcon[r]) IN ks

\* A round key is added, bytes are replaced and each row is shifted, at once.
SubShift(s, k) ==
    LET B(c, r)   == SBOX(s[c][r] ^^ k[c][r])
        Column(c) == <<B(c, 1), B((c % 4) + 1, 2), B(((c + 1) % 4) + 1, 3), B(((c + 2) % 4) + 1, 4)>>
    IN <<Column(1), Column(2), Column(3), Column(4)>>

MixColumns(s) ==
    LET Mixed(w) == LET all  == (w[1] ^^ w[2]) ^^ (w[3] ^^ w[4])
                        M(r) == (w[r] ^^ all) ^^ GALOIS_MUL2(w[r] ^^ w[(r % 4) + 1])
                    IN <<M(1), M(2), M(3), M(4)>>
    IN <<Mixed(s[1]), Mixed(s[2]), Mixed(s[3]), Mixed(s[4])>>

\* LDL_AES_encrypt()
Encrypt(ks, block) ==
    LET s[r \in 0..9] == IF r = 0 THEN block ELSE MixColumns(SubShift(s[r - 1], ks[r - 1]))
    IN XorBlock(SubShift(s[9], ks[9]), ks[10])

-----------------------------------------------------------------------------
(* The subkeys of CMAC. *)

Byte(v, i) == v[(i \div 4) + 1][(i % 4) + 1]

\* leftShift128(): by one bit, from the last byte to the first.
LeftShift128(v) == [c \in 1..4 |-> [r \in 1..4 |->
    LET i == 4 * c + r - 5
    IN ((2 * Byte(v, i)) % 256) + (IF i < 15 THEN Byte(v, i + 1) \div 128 ELSE 0)]]

Doubled(v) == IF v[1][1] >= 128 THEN [LeftShift128(v) EXCEPT ![4][4] = @ ^^ 135] ELSE LeftShift128(v)

\* LDL_CMAC_finish(): the subkey of a last block that is whole, and of one that is padded.
Subkeys(ks) ==
    LET k1 == Doubled(Encrypt(ks, <<<<0, 0, 0, 0>>, <<0, 0, 0, 0>>, <<0, 0, 0, 0>>, <<0, 0, 0, 0>>>>))
    IN [k1 |-> k1, k2 |-> Doubled(k1)]

-----------------------------------------------------------------------------
(* AES as it is published, over its field of 256 elements. *)

TimesX(b, n) == LET t[i \in 0..n] == IF i = 0 THEN b ELSE GALOIS_MUL2(t[i - 1]) IN t[n]
Times(a, b)  == LET sum[i \in 0..7] == (IF BitOf(b, i) = 0 THEN 0 ELSE TimesX(a, i)) ^^ (IF i = 0 THEN 0 ELSE sum[i - 1])
                IN sum[7]

\* The affine map of the S-box, undone.
Rotated(b, n) == ((b * 2^n) % 256) + b \div 2^(8 - n)
Unmapped(b)   == ((Rotated(b, 1) ^^ Rotated(b, 3)) ^^ Rotated(b, 6)) ^^ 5

\* A round before its key: bytes are replaced, row r is shifted left by r, and
\* columns are multiplied by a matrix.
Round(s) ==
    LET Shifted(c, r) == SBOX(s[((c + r - 2) % 4) + 1][r])
        Entry(r, j)   == <<2, 3, 1, 1>>[((j - r) % 4) + 1]
        M(c, r, j)    == Times(Shifted(c, j), Entry(r, j))
    IN [c \in 1..4 |-> [r \in 1..4 |-> (M(c, r, 1) ^^ M(c, r, 2)) ^^ (M(c, r, 3) ^^ M(c, r, 4))]]

\* Byte j of word i that follows the words w: from the word before it and the one
\* four before it.
WordByte(w, i, j) ==
    w[i - 4][j] ^^ (IF i % 4 # 1 THEN w[i - 1][j]
                    ELSE SBOX(w[i - 1][(j % 4) + 1]) ^^ (IF j = 1 THEN TimesX(1, (i \div 4) - 1) ELSE 0))

\* A number of 128 bits times x: shifted, and reduced when it gets longer.
Bits(v)     == [n \in 0..127 |-> BitOf(Byte(v, 15 - n \div 8), n % 8)]
TimesX128(v) == [n \in 0..127 |-> LET below == IF n = 0 THEN 0 ELSE Bits(v)[n - 1]
                                  IN IF n \in {0, 1, 2, 7} THEN (below + Bits(v)[127]) % 2 ELSE below]

\* Every place of the table of ldl_aes.c is the affine map of an inverse.
SboxAsPublished == Unmapped(SBOX(0)) = 0 /\ \A b \in 1..255 : Times(Unmapped(SBOX(b)), b) = 1

\* A round as LDL_AES_encrypt() arranges it is a round of AES.
RoundsAsPublished ==
    \A k \in AesKeys, s \in AesBlocks : MixColumns(SubShift(s, k)) = Round(XorBlock(s, k))

\* The round keys of LDL_AES_init() are the words of the published schedule.
ScheduleAsPublished ==
    \A key \in AesKeys : \A r \in 1..10 :
        LET ks == Schedule(key)
            w  == [i \in 1..44 |-> ks[(i - 1) \div 4][((i - 1) % 4) + 1]]
        IN \A i \in 4 * r + 1 .. 4 * r + 4, j \in 1..4 : w[i][j] = WordByte(w, i, j)

\* All of it together: key and block of src/test/tc_aes.c, and others.
CiphersAsKnown == \A v \in Vectors : Encrypt(Schedule(v.key), v.block) = v.cipher

\* What LDL_CMAC_finish() doubles is doubled in the field of 128 bits.
SubkeysAsPublished == \A v \in AesKeys \cup AesBlocks : Bits(Doubled(v)) = TimesX128(v)
=============================================================================
