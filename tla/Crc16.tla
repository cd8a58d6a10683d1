------------------------------- MODULE Crc16 -------------------------------
(* Src/crc16.c: the CRC-16-CCITT every fragment ends with, computed a byte  *)
(* at a time from a table, and a definition of the same code by polynomials *)
(* to check it against.                                                     *)
EXTENDS Naturals, Sequences

crc16_table ==
    <<0, 4129, 8258, 12387, 16516, 20645, 24774, 28903, 33032, 37161, 41290, 45419,
      49548, 53677, 57806, 61935, 4657, 528, 12915, 8786, 21173, 17044, 29431, 25302,
      37689, 33560, 45947, 41818, 54205, 50076, 62463, 58334, 9314, 13379, 1056, 5121,
      25830, 29895, 17572, 21637, 42346, 46411, 34088, 38153, 58862, 62927, 50604, 54669,
      13907, 9842, 5649, 1584, 30423, 26358, 22165, 18100, 46939, 42874, 38681, 34616,
      63455, 59390, 55197, 51132, 18628, 22757, 26758, 30887, 2112, 6241, 10242, 14371,
      51660, 55789, 59790, 63919, 35144, 39273, 43274, 47403, 23285, 19156, 31415, 27286,
      6769, 2640, 14899, 10770, 56317, 52188, 64447, 60318, 39801, 35672, 47931, 43802,
      27814, 31879, 19684, 23749, 11298, 15363, 3168, 7233, 60846, 64911, 52716, 56781,
      44330, 48395, 36200, 40265, 32407, 28342, 24277, 20212, 15891, 11826, 7761, 3696,
      65439, 61374, 57309, 53244, 48923, 44858, 40793, 36728, 37256, 33193, 45514, 41451,
      53516, 49453, 61774, 57711, 4224, 161, 12482, 8419, 20484, 16421, 28742, 24679,
      33721, 37784, 41979, 46042, 49981, 54044, 58239, 62302, 689, 4752, 8947, 13010,
      16949, 21012, 25207, 29270, 46570, 42443, 38312, 34185, 62830, 58703, 54572, 50445,
      13538, 9411, 5280, 1153, 29798, 25671, 21540, 17413, 42971, 47098, 34713, 38840,
      59231, 63358, 50973, 55100, 9939, 14066, 1681, 5808, 26199, 30326, 17941, 22068,
      55628, 51565, 63758, 59695, 39368, 35305, 47498, 43435, 22596, 18533, 30726, 26663,
      6336, 2273, 14466, 10403, 52093, 56156, 60223, 64286, 35833, 39896, 43963, 48026,
      19061, 23124, 27191, 31254, 2801, 6864, 10931, 14994, 64814, 60687, 56684, 52557,
      48554, 44427, 40424, 36297, 31782, 27655, 23652, 19525, 15522, 11395, 7392, 3265,
      61215, 65342, 53085, 57212, 44955, 49082, 36825, 40952, 28183, 32310, 20053, 24180,
      11923, 16050, 3793, 7920>>

-----------------------------------------------------------------------------
(* Bits. *)

Byte == 0..255
Word == {n \in Nat : n < 65536}    \* uint16_t

\* 2^e, for the bits e of a word.
Power == <<1, 2, 4, 8, 16, 32, 64, 128, 256, 512, 1024, 2048, 4096, 8192, 16384, 32768>>

Bit(n, e) == (n \div Power[e + 1]) % 2

XorBit(a, b, e) == Power[e + 1] * ((Bit(a, e) + Bit(b, e)) % 2)

\* a ^ b for bytes and for uint16_t; the table spares TLC the sum.
XorByte ==
    [a \in Byte |-> [b \in Byte |->
        XorBit(a, b, 0) + XorBit(a, b, 1) + XorBit(a, b, 2) + XorBit(a, b, 3)
            + XorBit(a, b, 4) + XorBit(a, b, 5) + XorBit(a, b, 6) + XorBit(a, b, 7)]]

Xor16(a, b) == 256 * XorByte[a \div 256][b \div 256] + XorByte[a % 256][b % 256]

-----------------------------------------------------------------------------
(* Definitions commented as "Variant" are not used: each is the definition  *)
(* that follows it with a bug a property is there to notice.                *)

\* Variant: the table is indexed by the low byte.
CrcStepLow(crc, byte) ==
    Xor16((crc * 256) % 65536, crc16_table[XorByte[crc % 256][byte] + 1])

\* One round of the loop; crc is a uint16_t.
CrcStep(crc, byte) ==
    Xor16((crc * 256) % 65536, crc16_table[XorByte[crc \div 256][byte] + 1])

Initial == 65535

crc16_compute(data) ==
    LET crc[i \in 0..Len(data)] ==
          IF i = 0 THEN Initial ELSE CrcStep(crc[i - 1], data[i])
    IN  crc[Len(data)]

\* The big-endian bytes of a uint16_t, and what they are read as.
BigEndian16(n) == <<n \div 256, n % 256>>

Read16(data, i) == 256 * data[i] + data[i + 1]

crc16_append(data) == data \o BigEndian16(crc16_compute(data))

\* Variant: the stored CRC is compared by its low byte.
VerifyLowByte(data) ==
    /\ Len(data) >= 2
    /\ crc16_compute(SubSeq(data, 1, Len(data) - 2)) % 256 = data[Len(data)]

crc16_verify(data) ==
    /\ Len(data) >= 2
    /\ crc16_compute(SubSeq(data, 1, Len(data) - 2)) = Read16(data, Len(data) - 1)

-----------------------------------------------------------------------------
(* The reference.  A polynomial over the field of two elements is the set   *)
(* of its exponents, and addition the symmetric difference.                 *)

Plus(p, q) == (p \ q) \cup (q \ p)

Generator == {16, 12, 5, 0}    \* 0x1021, and the leading term

Polynomial(n) == {e \in 0..15 : Bit(n, e) = 1}

\* The remainder of r times x.
TimesX(r) ==
    LET shifted == {e + 1 : e \in r}
    IN  IF 16 \in shifted THEN Plus(shifted, Generator) ELSE shifted

\* The remainder of p times x^8, for a p of degree below 16.
TimesX8(p) == TimesX(TimesX(TimesX(TimesX(TimesX(TimesX(TimesX(TimesX(p))))))))

\* The remainder of the message times x^16: a byte more is eight powers more,
\* and the byte itself comes in at the top.  It starts as 0xFFFF.
\* (The set of one r has TLC evaluate it at once.)
Remainder(data) ==
    LET rest[i \in 0..Len(data)] ==
          IF i = 0 THEN 0..15
          ELSE UNION {TimesX8(Plus(r, {e + 8 : e \in Polynomial(data[i])})) :
                         r \in {rest[i - 1]}}
    IN  rest[Len(data)]
=============================================================================
