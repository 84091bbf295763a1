------------------------ MODULE FederationBackoffProofs ------------------------
(***************************************************************************)
(* Proofs about FederationBackoff.tla for every sync interval and every    *)
(* number of failures: first what the 64-bit arithmetic of a delay gives,  *)
(* then the invariants of the backoff.                                     *)
(***************************************************************************)
EXTENDS FederationBackoff, TLAPS

-----------------------------------------------------------------------------
(* Bits *)

BaseBits == {0, 3, 4, 5, 6, 7, 9, 16, 18, 20, 23}
MaxBits == {2, 3, 4, 6, 9, 12, 13, 15, 18, 19, 21, 22, 23, 25, 29}

Bit(m, i) == (m \div 2^i) % 2 = 1

(* Place by place: the bits of one tick and of sixty, and doubling, which  *)
(* moves each bit one place up.  The provers know the powers of two only   *)
(* for given exponents.                                                    *)
LEMMA BitByBit ==
    ASSUME NEW i \in 0 .. 30
    PROVE  /\ Bit(9765625, i) <=> i \in BaseBits
           /\ Bit(585937500, i) <=> i \in MaxBits
           /\ \A m \in Nat : Bit(2 * m, i + 1) <=> Bit(m, i)
           /\ ~Bit(0, i)
  <1>0. CASE i = 0 BY <1>0, SMT DEF Bit, BaseBits, MaxBits
  <1>1. CASE i = 1 BY <1>1, SMT DEF Bit, BaseBits, MaxBits
  <1>2. CASE i = 2 BY <1>2, SMT DEF Bit, BaseBits, MaxBits
  <1>3. CASE i = 3 BY <1>3, SMT DEF Bit, BaseBits, MaxBits
  <1>4. CASE i = 4 BY <1>4, SMT DEF Bit, BaseBits, MaxBits
  <1>5. CASE i = 5 BY <1>5, SMT DEF Bit, BaseBits, MaxBits
  <1>6. CASE i = 6 BY <1>6, SMT DEF Bit, BaseBits, MaxBits
  <1>7. CASE i = 7 BY <1>7, SMT DEF Bit, BaseBits, MaxBits
  <1>8. CASE i = 8 BY <1>8, SMT DEF Bit, BaseBits, MaxBits
  <1>9. CASE i = 9 BY <1>9, SMT DEF Bit, BaseBits, MaxBits
  <1>10. CASE i = 10 BY <1>10, SMT DEF Bit, BaseBits, MaxBits
  <1>11. CASE i = 11 BY <1>11, SMT DEF Bit, BaseBits, MaxBits
  <1>12. CASE i = 12 BY <1>12, SMT DEF Bit, BaseBits, MaxBits
  <1>13. CASE i = 13 BY <1>13, SMT DEF Bit, BaseBits, MaxBits
  <1>14. CASE i = 14 BY <1>14, SMT DEF Bit, BaseBits, MaxBits
  <1>15. CASE i = 15 BY <1>15, SMT DEF Bit, BaseBits, MaxBits
  <1>16. CASE i = 16 BY <1>16, SMT DEF Bit, BaseBits, MaxBits
  <1>17. CASE i = 17 BY <1>17, SMT DEF Bit, BaseBits, MaxBits
  <1>18. CASE i = 18 BY <1>18, SMT DEF Bit, BaseBits, MaxBits
  <1>19. CASE i = 19 BY <1>19, SMT DEF Bit, BaseBits, MaxBits
  <1>20. CASE i = 20 BY <1>20, SMT DEF Bit, BaseBits, MaxBits
  <1>21. CASE i = 21 BY <1>21, SMT DEF Bit, BaseBits, MaxBits
  <1>22. CASE i = 22 BY <1>22, SMT DEF Bit, BaseBits, MaxBits
  <1>23. CASE i = 23 BY <1>23, SMT DEF Bit, BaseBits, MaxBits
  <1>24. CASE i = 24 BY <1>24, SMT DEF Bit, BaseBits, MaxBits
  <1>25. CASE i = 25 BY <1>25, SMT DEF Bit, BaseBits, MaxBits
  <1>26. CASE i = 26 BY <1>26, SMT DEF Bit, BaseBits, MaxBits
  <1>27. CASE i = 27 BY <1>27, SMT DEF Bit, BaseBits, MaxBits
  <1>28. CASE i = 28 BY <1>28, SMT DEF Bit, BaseBits, MaxBits
  <1>29. CASE i = 29 BY <1>29, SMT DEF Bit, BaseBits, MaxBits
  <1>30. CASE i = 30 BY <1>30, SMT DEF Bit, BaseBits, MaxBits
  <1> QED BY <1>0, <1>1, <1>2, <1>3, <1>4, <1>5, <1>6, <1>7, <1>8, <1>9, <1>10, <1>11, <1>12, <1>13, <1>14, <1>15,
             <1>16, <1>17, <1>18, <1>19, <1>20, <1>21, <1>22, <1>23, <1>24, <1>25, <1>26, <1>27, <1>28, <1>29, <1>30, SMT

(* The places of the bits of a number.                                     *)
LEMMA BitsAre ==
    ASSUME NEW m
    PROVE  Bits(m) = {i \in 0 .. 30 : Bit(m, i)}
  BY SMT DEF Bits, Bit

(* A set of places moved up by c.                                          *)
LEMMA ShiftedBit ==
    ASSUME NEW S \in SUBSET Int, NEW i \in Int, NEW c \in Int
    PROVE  i + c \in {b + c : b \in S} <=> i \in S
  BY SMT

(* Moved up twice. *)
LEMMA ShiftedTwice ==
    ASSUME NEW S \in SUBSET Int, NEW a \in Int, NEW c \in Int
    PROVE  {x + c : x \in {y + a : y \in S}} = {y + (a + c) : y \in S}
  <1>1. \A y \in S : (y + a) + c = y + (a + c)
    BY SMT
  <1>2. {x + c : x \in {y + a : y \in S}} = {(y + a) + c : y \in S}
    OBVIOUS
  <1> QED BY <1>1, <1>2

(* The bits of twice a number are its bits, one place up.                  *)
LEMMA BitsOfDouble ==
    ASSUME NEW m \in Nat, m < 1073741824
    PROVE  Bits(2 * m) = {b + 1 : b \in Bits(m)}
  <1>1. ASSUME NEW i \in 0 .. 29 PROVE i + 1 \in Bits(2 * m) <=> i \in Bits(m)
    <2>1. i \in 0 .. 30 /\ i + 1 \in 0 .. 30
      BY SMT
    <2>2. Bit(2 * m, i + 1) <=> Bit(m, i)
      BY <2>1, BitByBit, SMT
    <2> QED BY <2>1, <2>2, BitsAre, SMT
  <1>2. 0 \notin Bits(2 * m)
    <2>1. ((2 * m) \div 2^0) % 2 = 0
      BY SMT
    <2> QED BY <2>1, SMT DEF Bits
  <1>3. 30 \notin Bits(m)
    <2>1. m \div 2^30 = 0
      BY SMT
    <2> QED BY <2>1, SMT DEF Bits
  <1>4. Bits(2 * m) \subseteq 0 .. 30 /\ Bits(m) \subseteq 0 .. 30
    BY SMT DEF Bits
  <1>5. ASSUME NEW i \in Bits(2 * m) PROVE \E b \in Bits(m) : i = b + 1
    <2>1. i # 0 /\ i \in 0 .. 30
      BY <1>2, <1>4, SMT
    <2>2. i - 1 \in 0 .. 29 /\ i = (i - 1) + 1
      BY <2>1, SMT
    <2>3. i - 1 \in Bits(m)
      BY <1>1, <2>2, SMT
    <2> QED BY <2>2, <2>3
  <1>6. ASSUME NEW b \in Bits(m) PROVE b + 1 \in Bits(2 * m)
    <2>1. b # 30 /\ b \in 0 .. 30
      BY <1>3, <1>4, SMT
    <2>2. b \in 0 .. 29
      BY <2>1, SMT
    <2> QED BY <1>1, <2>2, SMT
  <1> QED BY <1>5, <1>6

(* 5 seconds and 5 minutes in binary.                                      *)
LEMMA BaseAndMax ==
    /\ Duration(1) = {9, 12, 13, 14, 15, 16, 18, 25, 27, 29, 32}
    /\ Duration(60) = {11, 12, 13, 15, 18, 21, 22, 24, 27, 28, 30, 31, 32, 34, 38}
    /\ Duration(0) = {}
  <1>1. Bits(1 * 9765625) = BaseBits
    <2>1. Bits(9765625) = {i \in 0 .. 30 : i \in BaseBits}
      BY BitByBit, BitsAre, SMT
    <2>2. BaseBits \subseteq 0 .. 30
      BY SMT DEF BaseBits
    <2>3. {i \in 0 .. 30 : i \in BaseBits} = BaseBits
      BY <2>2
    <2>4. 1 * 9765625 = 9765625
      BY SMT
    <2> QED BY <2>1, <2>3, <2>4, SMT
  <1>2. Bits(60 * 9765625) = MaxBits
    <2>1. Bits(585937500) = {i \in 0 .. 30 : i \in MaxBits}
      BY BitByBit, BitsAre, SMT
    <2>2. MaxBits \subseteq 0 .. 30
      BY SMT DEF MaxBits
    <2>3. {i \in 0 .. 30 : i \in MaxBits} = MaxBits
      BY <2>2
    <2>4. 60 * 9765625 = 585937500
      BY SMT
    <2> QED BY <2>1, <2>3, <2>4, SMT
  <1>3. Bits(0 * 9765625) = {}
    <2>1. ASSUME NEW i \in 0 .. 30 PROVE ~Bit(0, i)
      BY BitByBit, SMT
    <2>2. 0 * 9765625 = 0
      BY SMT
    <2> QED BY <2>1, <2>2, BitsAre, SMT
  <1> QED BY <1>1, <1>2, <1>3, SMT DEF Duration, BaseBits, MaxBits

(* Different numbers of ticks are different durations: as 5^10 is odd, the *)
(* lowest six bits tell them apart.                                        *)
LEMMA DurationsDiffer ==
    ASSUME NEW j \in 0 .. 60, NEW k \in 0 .. 60, Duration(j) = Duration(k)
    PROVE  j = k
  <1> DEFINE m == j * 9765625
             n == k * 9765625
  <1>1. m \in Nat /\ n \in Nat
    BY SMT
  <1> HIDE DEF m, n
  <1>2. Bits(m) = Bits(n)
    <2>1. ASSUME NEW i \in 0 .. 30
          PROVE  /\ i \in Bits(m) <=> i + 9 \in Duration(j)
                 /\ i \in Bits(n) <=> i + 9 \in Duration(k)
      <3>1. /\ Duration(j) = {b + 9 : b \in Bits(m)} /\ Bits(m) \subseteq 0 .. 30
            /\ Duration(k) = {b + 9 : b \in Bits(n)} /\ Bits(n) \subseteq 0 .. 30
        BY BitsAre, SMT DEF Duration, m, n
      <3>2. Bits(m) \subseteq Int /\ Bits(n) \subseteq Int /\ i \in Int
        BY <3>1, SMT
      <3>3. /\ i + 9 \in {b + 9 : b \in Bits(m)} <=> i \in Bits(m)
            /\ i + 9 \in {b + 9 : b \in Bits(n)} <=> i \in Bits(n)
        BY <3>2, ShiftedBit, SMT
      <3> QED BY <3>1, <3>3
    <2>2. Bits(m) \subseteq 0 .. 30 /\ Bits(n) \subseteq 0 .. 30
      BY BitsAre, SMT
    <2> QED BY <2>1, <2>2, SMT
  <1>3. ASSUME NEW i \in 0 .. 30 PROVE Bit(m, i) <=> Bit(n, i)
    BY <1>2, BitsAre, SMT
  <1>4. /\ Bit(m, 0) <=> Bit(n, 0)
        /\ Bit(m, 1) <=> Bit(n, 1)
        /\ Bit(m, 2) <=> Bit(n, 2)
        /\ Bit(m, 3) <=> Bit(n, 3)
        /\ Bit(m, 4) <=> Bit(n, 4)
        /\ Bit(m, 5) <=> Bit(n, 5)
    BY <1>3, SMT
  <1>5. m % 64 = n % 64
    <2>1. m % 2 = n % 2
      BY <1>1, <1>4, SMT DEF Bit
    <2>2. m % 4 = n % 4
      BY <1>1, <1>4, <2>1, SMT DEF Bit
    <2>3. m % 8 = n % 8
      BY <1>1, <1>4, <2>2, SMT DEF Bit
    <2>4. m % 16 = n % 16
      BY <1>1, <1>4, <2>3, SMT DEF Bit
    <2>5. m % 32 = n % 32
      BY <1>1, <1>4, <2>4, SMT DEF Bit
    <2> QED BY <1>1, <1>4, <2>5, SMT DEF Bit
  <1> QED BY <1>5, SMT DEF m, n

-----------------------------------------------------------------------------
(* Delays *)

Base == {9, 12, 13, 14, 15, 16, 18, 25, 27, 29, 32}

(* The base delay times 2^c, before the width of the result is cut.        *)
Up(c) == {b + c : b \in Base}

(* The places of these bits.                                               *)
LEMMA UpIs ==
    ASSUME NEW c \in Int
    PROVE  Up(c) = {9 + c, 12 + c, 13 + c, 14 + c, 15 + c, 16 + c, 18 + c, 25 + c,
                    27 + c, 29 + c, 32 + c}
  BY DEF Up, Base

(* A duration of at most five minutes fits into 64 bits.                   *)
LEMMA DurationFits ==
    ASSUME NEW k \in 0 .. 60
    PROVE  Duration(k) \subseteq 9 .. 39 /\ ~Negative(Duration(k))
  <1> DEFINE m == k * 9765625
  <1> HIDE DEF m
  <1>1. Duration(k) = {b + 9 : b \in Bits(m)} /\ Bits(m) \subseteq 0 .. 30
    BY BitsAre, SMT DEF Duration, m
  <1> QED BY <1>1, SMT DEF Negative

(* Twice as many ticks: each bit one place up.                             *)
LEMMA DurationOfDouble ==
    ASSUME NEW k \in 0 .. 60, NEW c \in Int, Duration(k) = Up(c)
    PROVE  Duration(2 * k) = Up(c + 1)
  <1> DEFINE m == k * 9765625
  <1>1. m \in Nat /\ m < 1073741824 /\ (2 * k) * 9765625 = 2 * m
    BY SMT
  <1> HIDE DEF m
  <1>2. Bits(2 * m) = {b + 1 : b \in Bits(m)} /\ Bits(m) \subseteq Int
    BY <1>1, BitsOfDouble, BitsAre, SMT
  <1>3. Duration(2 * k) = {b + 9 : b \in Bits(2 * m)}
    BY <1>1, SMT DEF Duration
  <1>4. Up(c) = {b + 9 : b \in Bits(m)}
    BY SMT DEF Duration, m
  <1>0. 1 \in Int /\ 9 \in Int
    BY SMT
  <1>5. Duration(2 * k) = {b + 1 : b \in Up(c)}
    <2> DEFINE B == Bits(m)
    <2>1. B \in SUBSET Int
      BY <1>2
    <2> HIDE DEF B
    <2>2. /\ {b + 9 : b \in {y + 1 : y \in B}} = {y + (1 + 9) : y \in B}
          /\ {b + 1 : b \in {y + 9 : y \in B}} = {y + (9 + 1) : y \in B}
      BY <1>0, <2>1, ShiftedTwice, Zenon
    <2>3. 1 + 9 = 9 + 1
      BY SMT
    <2>4. {b + 9 : b \in {y + 1 : y \in B}} = {b + 1 : b \in {y + 9 : y \in B}}
      BY <2>2, <2>3
    <2> QED BY <1>2, <1>3, <1>4, <2>4, Zenon DEF B
  <1>6. Base \in SUBSET Int
    BY DEF Base
  <1>7. {b + 1 : b \in Up(c)} = Up(c + 1)
    BY <1>0, <1>6, ShiftedTwice, Zenon DEF Up
  <1> QED BY <1>5, <1>7

(* The first six delays.                                                   *)
LEMMA FirstDelays ==
    /\ Duration(1) = Up(0) /\ Duration(2) = Up(1) /\ Duration(4) = Up(2)
    /\ Duration(8) = Up(3) /\ Duration(16) = Up(4) /\ Duration(32) = Up(5)
  <1>1. Duration(1) = Up(0)
    <2>1. Up(0) = {9 + 0, 12 + 0, 13 + 0, 14 + 0, 15 + 0, 16 + 0, 18 + 0, 25 + 0,
                   27 + 0, 29 + 0, 32 + 0}
      BY UpIs
    <2> QED BY <2>1, BaseAndMax, SMT
  <1>2. Duration(2) = Up(1)
    BY <1>1, DurationOfDouble, SMT
  <1>3. Duration(4) = Up(2)
    BY <1>2, DurationOfDouble, SMT
  <1>4. Duration(8) = Up(3)
    BY <1>3, DurationOfDouble, SMT
  <1>5. Duration(16) = Up(4)
    BY <1>4, DurationOfDouble, SMT
  <1>6. Duration(32) = Up(5)
    BY <1>5, DurationOfDouble, SMT
  <1> QED BY <1>1, <1>2, <1>3, <1>4, <1>5, <1>6

(* A time so many ticks ahead is so many ticks ahead.                      *)
LEMMA TicksOfDuration ==
    ASSUME NEW k \in 0 .. 60
    PROVE  TicksUntil(Duration(k)) = k
  <1>1. \A j \in 0 .. MaxTicks : Duration(j) = Duration(k) <=> j = k
    BY DurationsDiffer DEF MaxTicks
  <1>2. k \in 0 .. MaxTicks
    BY DEF MaxTicks
  <1> HIDE DEF MaxTicks
  <1>3. (CHOOSE j \in 0 .. MaxTicks : Duration(j) = Duration(k)) = k
    BY <1>1, <1>2
  <1> QED BY <1>3, DurationFits DEF TicksUntil

(* The greatest element of a set, once it is known.                        *)
LEMMA MaxIs ==
    ASSUME NEW S \in SUBSET Int, NEW t \in S, \A y \in S : y <= t
    PROVE  Max(S) = t
  <1>1. \A x \in S : (\A y \in S : x >= y) <=> x = t
    OBVIOUS
  <1> QED BY <1>1 DEF Max

Cap == Duration(MaxTicks)

(* The cap in binary.                                                      *)
LEMMA CapIs ==
    Cap = {11, 12, 13, 15, 18, 21, 22, 24, 27, 28, 30, 31, 32, 34, 38}
  BY BaseAndMax DEF Cap, MaxTicks

(* What ends below the cap's highest bit is not above the cap.             *)
LEMMA BelowCap ==
    ASSUME NEW d \in SUBSET Int, \A b \in d : b < 38
    PROVE  ~Greater(d, Cap)
  <1> DEFINE diff == (d \ Cap) \cup (Cap \ d)
  <1>1. diff \in SUBSET Int /\ 38 \in diff /\ \A y \in diff : y <= 38
    BY CapIs
  <1>2. Max(diff) = 38
    BY <1>1, MaxIs
  <1>3. 38 \notin d
    OBVIOUS
  <1> QED BY <1>2, <1>3 DEF Greater

(* What reaches beyond it and is not negative is above the cap.            *)
LEMMA AboveCap ==
    ASSUME NEW d \in SUBSET Int, NEW t \in d, t > 38, \A b \in d : b <= t, ~Negative(d)
    PROVE  Greater(d, Cap)
  <1> DEFINE diff == (d \ Cap) \cup (Cap \ d)
  <1>1. diff \in SUBSET Int /\ t \in diff /\ \A y \in diff : y <= t
    BY CapIs
  <1>2. Max(diff) = t
    BY <1>1, MaxIs
  <1> QED BY <1>1, <1>2 DEF Greater

(* The delay that is set for a product d.                                  *)
Delay(d) == TicksUntil(IF Greater(d, Duration(MaxTicks)) THEN Duration(MaxTicks) ELSE d)

(* A product above the cap is cut to it.                                   *)
LEMMA DelayCapped ==
    ASSUME NEW d, Greater(d, Cap)
    PROVE  Delay(d) = MaxTicks
  BY TicksOfDuration DEF Delay, Cap, MaxTicks

(* A negative product is no delay at all.                                  *)
LEMMA DelayNegative ==
    ASSUME NEW d, Negative(d)
    PROVE  Delay(d) = 0
  <1>1. ~Greater(d, Duration(MaxTicks))
    BY DEF Greater
  <1> QED BY <1>1 DEF Delay, TicksUntil

(* Neither is 0.                                                           *)
LEMMA DelayZero == Delay({}) = 0
  <1>1. ~Greater({}, Duration(MaxTicks))
    BY BelowCap DEF Cap
  <1>2. TicksUntil({}) = 0
    <2>1. TicksUntil(Duration(0)) = 0
      BY TicksOfDuration
    <2> QED BY <2>1, BaseAndMax
  <1> QED BY <1>1, <1>2 DEF Delay

(* Smaller products need no cap.                                           *)
LEMMA DelayPlain ==
    ASSUME NEW k \in 0 .. 60, NEW c \in 0 .. 5, Duration(k) = Up(c)
    PROVE  Delay(Up(c)) = k
  <1>1. Up(c) \in SUBSET Int /\ \A b \in Up(c) : b < 38
    BY UpIs
  <1>2. ~Greater(Up(c), Duration(MaxTicks))
    BY <1>1, BelowCap DEF Cap
  <1>3. TicksUntil(Up(c)) = k
    BY TicksOfDuration
  <1> QED BY <1>2, <1>3 DEF Delay

(* Up to the 63rd failure there is one product, the bits of the base delay *)
(* that are left after n - 1 places.                                       *)
LEMMA DelaysAre ==
    ASSUME NEW n \in 1 .. 63
    PROVE  Delays(n) = {Delay(Up(n - 1) \cap 0 .. 63)}
  <1>1. TimesPowerOfTwo(Duration(1), n - 1) = Up(n - 1) \cap 0 .. 63
    <2>1. Duration(1) = Base
      BY BaseAndMax DEF Base
    <2> QED BY <2>1 DEF TimesPowerOfTwo, Up
  <1>2. Products(n) = {Up(n - 1) \cap 0 .. 63}
    BY <1>1 DEF Products
  <1> QED BY <1>2 DEF Delays, Delay

(* Through the first 31 failures the delay is the one that is meant.       *)
LEMMA DelaysIntended ==
    ASSUME NEW n \in 1 .. 31
    PROVE  Delays(n) = {IntendedTicks(n)}
  <1>0. Delays(n) = {Delay(Up(n - 1))}
    <2>1. Up(n - 1) \cap 0 .. 63 = Up(n - 1)
      BY UpIs
    <2>2. n \in 1 .. 63
      BY SMT
    <2> QED BY <2>1, <2>2, DelaysAre
  <1>1. CASE n = 1
    <2>1. Delay(Up(0)) = 1
      BY FirstDelays, DelayPlain, SMT
    <2>2. IntendedTicks(1) = 1
      BY SMT DEF IntendedTicks
    <2> QED BY <1>0, <1>1, <2>1, <2>2, SMT
  <1>2. CASE n = 2
    <2>1. Delay(Up(1)) = 2
      BY FirstDelays, DelayPlain, SMT
    <2>2. IntendedTicks(2) = 2
      BY SMT DEF IntendedTicks
    <2> QED BY <1>0, <1>2, <2>1, <2>2, SMT
  <1>3. CASE n = 3
    <2>1. Delay(Up(2)) = 4
      BY FirstDelays, DelayPlain, SMT
    <2>2. IntendedTicks(3) = 4
      BY SMT DEF IntendedTicks
    <2> QED BY <1>0, <1>3, <2>1, <2>2, SMT
  <1>4. CASE n = 4
    <2>1. Delay(Up(3)) = 8
      BY FirstDelays, DelayPlain, SMT
    <2>2. IntendedTicks(4) = 8
      BY SMT DEF IntendedTicks
    <2> QED BY <1>0, <1>4, <2>1, <2>2, SMT
  <1>5. CASE n = 5
    <2>1. Delay(Up(4)) = 16
      BY FirstDelays, DelayPlain, SMT
    <2>2. IntendedTicks(5) = 16
      BY SMT DEF IntendedTicks
    <2> QED BY <1>0, <1>5, <2>1, <2>2, SMT
  <1>6. CASE n = 6
    <2>1. Delay(Up(5)) = 32
      BY FirstDelays, DelayPlain, SMT
    <2>2. IntendedTicks(6) = 32
      BY SMT DEF IntendedTicks
    <2> QED BY <1>0, <1>6, <2>1, <2>2, SMT
  <1>7. CASE n = 7
    <2> DEFINE d == Up(6)
               diff == (d \ Cap) \cup (Cap \ d)
    <2>1. d = {15, 18, 19, 20, 21, 22, 24, 31, 33, 35, 38}
      BY UpIs
    <2>2. diff \in SUBSET Int /\ 35 \in diff /\ \A y \in diff : y <= 35
      BY <2>1, CapIs
    <2>3. Max(diff) = 35
      BY <2>2, MaxIs
    <2>4. ~Negative(d) /\ 35 \in d
      BY <2>1 DEF Negative
    <2>5. Greater(d, Cap)
      BY <2>2, <2>3, <2>4 DEF Greater
    <2>6. Delay(d) = MaxTicks
      BY <2>5, DelayCapped
    <2>7. IntendedTicks(7) = MaxTicks
      BY SMT DEF IntendedTicks
    <2> QED BY <1>0, <1>7, <2>6, <2>7, SMT
  <1>8. CASE n \in 8 .. 31
    <2>1. /\ Up(n - 1) \in SUBSET Int /\ 31 + n \in Up(n - 1) /\ 31 + n > 38
          /\ \A b \in Up(n - 1) : b <= 31 + n
      BY <1>8, UpIs
    <2>2. ~Negative(Up(n - 1))
      BY <1>8, <2>1 DEF Negative
    <2>3. Greater(Up(n - 1), Cap)
      BY <2>1, <2>2, AboveCap
    <2>4. Delay(Up(n - 1)) = MaxTicks
      BY <2>3, DelayCapped
    <2>5. IntendedTicks(n) = MaxTicks
      BY <1>8, SMT DEF IntendedTicks
    <2> QED BY <1>0, <2>4, <2>5
  <1> QED BY <1>1, <1>2, <1>3, <1>4, <1>5, <1>6, <1>7, <1>8, SMT

(* What is left of a product that does not fit has a highest bit, and it   *)
(* is above all bits of the cap.                                           *)
LEMMA Overflown ==
    ASSUME NEW c \in 31 .. 62, NEW d, d = Up(c) \cap 0 .. 63, d # {}
    PROVE  \E t \in d : t > 38 /\ \A b \in d : b <= t
  <1>0. Up(c) = {9 + c, 12 + c, 13 + c, 14 + c, 15 + c, 16 + c, 18 + c, 25 + c,
                 27 + c, 29 + c, 32 + c}
    BY UpIs
  <1>1. CASE 32 + c <= 63
    BY <1>0, <1>1, SMT
  <1>2. CASE 29 + c <= 63 /\ 32 + c > 63
    BY <1>0, <1>2, SMT
  <1>3. CASE 27 + c <= 63 /\ 29 + c > 63
    BY <1>0, <1>3, SMT
  <1>4. CASE 25 + c <= 63 /\ 27 + c > 63
    BY <1>0, <1>4, SMT
  <1>5. CASE 18 + c <= 63 /\ 25 + c > 63
    BY <1>0, <1>5, SMT
  <1>6. CASE 16 + c <= 63 /\ 18 + c > 63
    BY <1>0, <1>6, SMT
  <1>7. CASE 15 + c <= 63 /\ 16 + c > 63
    BY <1>0, <1>7, SMT
  <1>8. CASE 14 + c <= 63 /\ 15 + c > 63
    BY <1>0, <1>8, SMT
  <1>9. CASE 13 + c <= 63 /\ 14 + c > 63
    BY <1>0, <1>9, SMT
  <1>10. CASE 12 + c <= 63 /\ 13 + c > 63
    BY <1>0, <1>10, SMT
  <1>11. CASE 9 + c <= 63 /\ 12 + c > 63
    BY <1>0, <1>11, SMT
  <1>12. CASE 9 + c > 63
    BY <1>0, <1>12, SMT
  <1> QED BY <1>1, <1>2, <1>3, <1>4, <1>5, <1>6, <1>7, <1>8, <1>9, <1>10, <1>11, <1>12, SMT

(* The intended delays are at most the cap.                                *)
LEMMA IntendedFits ==
    ASSUME NEW n \in Nat
    PROVE  IntendedTicks(n) \in 0 .. 60
  <1>1. n = 0 \/ n = 1 \/ n = 2 \/ n = 3 \/ n = 4 \/ n = 5 \/ n = 6 \/ n > 6
    BY SMT
  <1>2. CASE n = 1 BY <1>2, SMT DEF IntendedTicks
  <1>3. CASE n = 2 BY <1>3, SMT DEF IntendedTicks
  <1>4. CASE n = 3 BY <1>4, SMT DEF IntendedTicks
  <1>5. CASE n = 4 BY <1>5, SMT DEF IntendedTicks
  <1>6. CASE n = 5 BY <1>6, SMT DEF IntendedTicks
  <1>7. CASE n = 6 BY <1>7, SMT DEF IntendedTicks
  <1>8. CASE n > 6 BY <1>8, SMT DEF IntendedTicks, MaxTicks
  <1>9. CASE n = 0 BY <1>9, SMT DEF IntendedTicks
  <1> QED BY <1>1, <1>2, <1>3, <1>4, <1>5, <1>6, <1>7, <1>8, <1>9

(* Whatever the overflow does, no delay is negative or above the cap: it   *)
(* is the intended one, the cap, or none at all.                           *)
LEMMA DelaysBounded ==
    ASSUME NEW n \in Nat \ {0}
    PROVE  /\ Delays(n) \subseteq 0 .. MaxTicks
           /\ n > 31 => Delays(n) \subseteq {0, MaxTicks}
  <1>1. CASE n \in 1 .. 31
    <2>1. IntendedTicks(n) \in 0 .. 60
      BY <1>1, IntendedFits, SMT
    <2> QED BY <1>1, <2>1, DelaysIntended DEF MaxTicks
  <1>2. CASE n \in 32 .. 63
    <2> DEFINE d == Up(n - 1) \cap 0 .. 63
    <2>1. Delays(n) = {Delay(d)}
      <3>1. n \in 1 .. 63
        BY <1>2, SMT
      <3> QED BY <3>1, DelaysAre
    <2>2. CASE Negative(d)
      BY <2>1, <2>2, DelayNegative DEF MaxTicks
    <2>3. CASE d = {}
      BY <2>1, <2>3, DelayZero DEF MaxTicks
    <2>4. CASE d # {} /\ ~Negative(d)
      <3>1. n - 1 \in 31 .. 62 /\ d \in SUBSET Int
        BY <1>2, SMT
      <3>2. PICK t \in d : t > 38 /\ \A b \in d : b <= t
        BY <2>4, <3>1, Overflown
      <3>3. Greater(d, Cap)
        BY <2>4, <3>1, <3>2, AboveCap
      <3>4. Delay(d) = MaxTicks
        BY <3>3, DelayCapped
      <3> QED BY <2>1, <3>4 DEF MaxTicks
    <2> QED BY <2>2, <2>3, <2>4
  <1>3. CASE n > 63
    <2>1. Products(n) = {{}, {63}}
      BY <1>3 DEF Products
    <2>2. Delay({}) = 0 /\ Delay({63}) = 0
      BY DelayZero, DelayNegative DEF Negative
    <2>3. Delays(n) = {0}
      BY <2>1, <2>2 DEF Delays, Delay
    <2> QED BY <2>3 DEF MaxTicks
  <1> QED BY <1>1, <1>2, <1>3, SMT

(* From the 56th failure on nothing of the base delay is left: the breaker *)
(* sets no backoff any more, however the platform converts the power.      *)
THEOREM DelaysVanish ==
    ASSUME NEW n \in Nat, n >= 56
    PROVE  Delays(n) = {0}
  <1>1. CASE n <= 63
    <2>1. n \in 1 .. 63 /\ n - 1 \in Int
      BY <1>1, SMT
    <2>2. Up(n - 1) \cap 0 .. 63 = {}
      BY <2>1, UpIs, SMT
    <2> QED BY <2>1, <2>2, DelaysAre, DelayZero
  <1>2. CASE n > 63
    <2>1. Products(n) = {{}, {63}}
      BY <1>2 DEF Products
    <2>2. Delay({}) = 0 /\ Delay({63}) = 0
      BY DelayZero, DelayNegative DEF Negative
    <2> QED BY <2>1, <2>2 DEF Delays, Delay
  <1> QED BY <1>1, <1>2, SMT

-----------------------------------------------------------------------------
(* The backoff *)

(* After f failures, with b of the backoff left and i waited: through the  *)
(* first 31 failures time waited and time left make the intended backoff.  *)
Waiting(f, b, i) ==
    f <= 31 => /\ b > 0 => i + b = IntendedTicks(f)
               /\ b = 0 => i >= IntendedTicks(f)

(* The peer relay is due: no backoff, and no call holds up the next round. *)
Due == backoff = 0 /\ ~calling /\ ~others

UntilRound == IF ticked THEN 0 ELSE untilTick

(* While the peer relay is due, the time it has been and the time left to  *)
(* the next round are together at most one sync interval.                  *)
RoundComes ==
    /\ ~Due => dueFor = 0
    /\ Due => dueFor + UntilRound <= SyncInterval

(* The inductive invariant. *)
BackoffInv ==
    /\ TypeOK
    /\ calling \/ Waiting(failures, backoff, idleFor)
    /\ RoundComes

Numbers ==
    /\ failures \in Nat /\ failures <= MaxFailures
    /\ backoff \in 0 .. 60
    /\ untilTick \in Nat /\ 1 <= untilTick /\ untilTick <= SyncInterval
    /\ idleFor \in 0 .. 60
    /\ dueFor \in Nat /\ dueFor <= SyncInterval + 1

Flags == ticked \in BOOLEAN /\ calling \in BOOLEAN /\ others \in BOOLEAN

(* The numbers and the flags of a state.                                   *)
LEMMA TypeParts == TypeOK <=> Numbers /\ Flags
  <1>1. Numbers <=> /\ failures \in 0 .. MaxFailures
                    /\ backoff \in 0 .. MaxTicks
                    /\ untilTick \in 1 .. SyncInterval
                    /\ idleFor \in 0 .. MaxTicks
                    /\ dueFor \in 0 .. SyncInterval + 1
    BY BackoffAssumption, SMT DEF Numbers, MaxTicks
  <1> QED BY <1>1, Zenon DEF TypeOK, Flags

RoundNear == UntilRound \in Nat /\ UntilRound <= SyncInterval

(* The next round is at most a sync interval away.                         *)
LEMMA RoundIsNear == Numbers => RoundNear
  <1> SUFFICES ASSUME Numbers PROVE UntilRound \in Nat /\ UntilRound <= SyncInterval
    BY DEF RoundNear
  <1>1. CASE ticked
    BY <1>1, BackoffAssumption, SMT DEF UntilRound
  <1>2. CASE ~ticked
    BY <1>2, SMT DEF UntilRound, Numbers
  <1> QED BY <1>1, <1>2

(* The first call comes after one sync interval.                           *)
LEMMA InitBackoffInv == Init => BackoffInv
  <1> SUFFICES ASSUME Init PROVE BackoffInv
    OBVIOUS
  <1>1. Numbers
    BY BackoffAssumption, SMT DEF Init, Numbers
  <1>2. Flags
    BY Zenon DEF Init, Flags
  <1>3. failures = 0 /\ backoff = 0 /\ idleFor = 0 /\ dueFor = 0 /\ ~calling /\ ~others
    BY Zenon DEF Init
  <1>4. Waiting(failures, backoff, idleFor)
    BY <1>3, SMT DEF Waiting, IntendedTicks
  <1>5. UntilRound \in Nat /\ UntilRound <= SyncInterval
    BY <1>1, RoundIsNear DEF RoundNear
  <1>6. dueFor + UntilRound <= SyncInterval
    BY <1>3, <1>5, BackoffAssumption, SMT
  <1>7. RoundComes
    BY <1>3, <1>6, Zenon DEF RoundComes
  <1> QED BY <1>1, <1>2, <1>4, <1>7, TypeParts, Zenon DEF BackoffInv

(* Each step keeps the numbers and flags.                                  *)
LEMMA NextTypeOK == TypeOK /\ [Next]_vars => TypeOK'
  <1> SUFFICES ASSUME TypeOK, [Next]_vars PROVE Numbers' /\ Flags'
    BY TypeParts, PTL
  <1>0. Numbers /\ Flags
    BY TypeParts
  <1>1. CASE SyncRound
    <2>1. /\ failures' = failures /\ backoff' = backoff /\ untilTick' = untilTick
          /\ idleFor' = idleFor /\ (dueFor' = 0 \/ dueFor' = dueFor)
      BY <1>1, Zenon DEF SyncRound
    <2>2. Numbers'
      BY <1>0, <2>1, BackoffAssumption, SMT DEF Numbers
    <2>3. Flags'
      BY <1>0, <1>1, Zenon DEF SyncRound, Flags
    <2> QED BY <2>2, <2>3
  <1>2. CASE recordPeerFailure
    <2>1. failures + 1 \in Nat \ {0}
      BY <1>0, SMT DEF Numbers
    <2>2. backoff' \in 0 .. 60
      BY <1>2, <2>1, DelaysBounded DEF recordPeerFailure, MaxTicks
    <2>3. Numbers'
      BY <1>0, <1>2, <2>2, BackoffAssumption, SMT DEF recordPeerFailure, Numbers
    <2>4. Flags'
      BY <1>0, <1>2, Zenon DEF recordPeerFailure, Flags
    <2> QED BY <2>3, <2>4
  <1>3. CASE recordPeerSuccess
    <2>1. Numbers'
      BY <1>0, <1>3, BackoffAssumption, SMT DEF recordPeerSuccess, Numbers
    <2>2. Flags'
      BY <1>0, <1>3, Zenon DEF recordPeerSuccess, Flags
    <2> QED BY <2>1, <2>2
  <1>4. CASE OthersReturn
    <2>1. Numbers'
      BY <1>0, <1>4, SMT DEF OthersReturn, Numbers
    <2>2. Flags'
      BY <1>0, <1>4, Zenon DEF OthersReturn, Flags
    <2> QED BY <2>1, <2>2
  <1>5. CASE Tick
    <2>1. /\ failures' = failures
          /\ backoff' = IF backoff > 0 THEN backoff - 1 ELSE 0
          /\ untilTick' = IF untilTick > 1 THEN untilTick - 1 ELSE SyncInterval
          /\ idleFor' = 0 \/ idleFor' = idleFor \/ (idleFor' = idleFor + 1 /\ idleFor < MaxTicks)
          /\ dueFor' = 0 \/ dueFor' = dueFor \/ (dueFor' = dueFor + 1 /\ dueFor <= SyncInterval)
      BY <1>5, Zenon DEF Tick
    <2>2. Numbers'
      BY <1>0, <2>1, BackoffAssumption, SMT DEF Numbers, MaxTicks
    <2>3. Flags'
      BY <1>0, <1>5, Zenon DEF Tick, Flags
    <2> QED BY <2>2, <2>3
  <1>6. CASE UNCHANGED vars
    BY <1>0, <1>6 DEF vars, Numbers, Flags
  <1> QED BY <1>1, <1>2, <1>3, <1>4, <1>5, <1>6 DEF Next

(* Each step keeps the time waited and the time left together.             *)
LEMMA NextWaiting ==
    ASSUME BackoffInv, [Next]_vars, ~calling'
    PROVE  Waiting(failures', backoff', idleFor')
  <1>1. Numbers
    BY TypeParts DEF BackoffInv
  <1>2. ASSUME ~calling PROVE Waiting(failures, backoff, idleFor)
    BY <1>2, Zenon DEF BackoffInv
  <1>3. CASE ~calling /\ UNCHANGED <<failures, backoff, idleFor>>
    BY <1>2, <1>3
  <1>4. CASE SyncRound
    <2>1. ~calling /\ UNCHANGED <<failures, backoff, idleFor>>
      BY <1>4, Zenon DEF SyncRound
    <2> QED BY <1>3, <2>1
  <1>5. CASE recordPeerFailure
    <2>1. failures' = failures + 1 /\ backoff' \in Delays(failures + 1) /\ idleFor' = 0
      BY <1>5, Zenon DEF recordPeerFailure
    <2>2. CASE failures + 1 <= 31
      <3>1. failures + 1 \in 1 .. 31 /\ failures + 1 \in Nat
        BY <1>1, <2>2, SMT DEF Numbers
      <3>2. backoff' = IntendedTicks(failures')
        BY <2>1, <3>1, DelaysIntended, Zenon
      <3>3. IntendedTicks(failures') \in 0 .. 60
        BY <2>1, <3>1, IntendedFits, Zenon
      <3> QED BY <2>1, <3>2, <3>3, SMT DEF Waiting
    <2>3. CASE ~(failures + 1 <= 31)
      BY <2>1, <2>3, Zenon DEF Waiting
    <2> QED BY <2>2, <2>3
  <1>6. CASE recordPeerSuccess
    <2>1. failures' = 0 /\ backoff' = 0 /\ idleFor' = 0
      BY <1>6, Zenon DEF recordPeerSuccess
    <2> QED BY <2>1, SMT DEF Waiting, IntendedTicks
  <1>7. CASE OthersReturn
    BY <1>3, <1>7, Zenon DEF OthersReturn
  <1>8. CASE Tick
    <2>1. /\ ~calling /\ failures' = failures
          /\ backoff' = IF backoff > 0 THEN backoff - 1 ELSE 0
          /\ idleFor' = IF idleFor < MaxTicks THEN idleFor + 1 ELSE idleFor
      BY <1>8, Zenon DEF Tick
    <2>2. Waiting(failures, backoff, idleFor)
      BY <1>2, <2>1
    <2>3. IntendedTicks(failures) \in 0 .. 60
      BY <1>1, IntendedFits DEF Numbers
    <2> HIDE DEF IntendedTicks
    <2> QED BY <1>1, <2>1, <2>2, <2>3, SMT DEF Waiting, Numbers, MaxTicks
  <1>9. CASE UNCHANGED vars
    BY <1>3, <1>9, Zenon DEF vars
  <1> QED BY <1>4, <1>5, <1>6, <1>7, <1>8, <1>9 DEF Next

(* Each step keeps the next round near enough.                             *)
LEMMA NextRoundComes ==
    ASSUME BackoffInv, [Next]_vars
    PROVE  RoundComes'
  <1>1. Numbers /\ Numbers'
    BY NextTypeOK, TypeParts, PTL DEF BackoffInv
  <1>2. UntilRound' \in Nat /\ UntilRound' <= SyncInterval
    <2>1. RoundNear'
      BY <1>1, RoundIsNear, PTL
    <2> QED BY <2>1 DEF RoundNear
  <1>3. RoundComes
    BY DEF BackoffInv
  <1>4. ASSUME dueFor' = 0 PROVE RoundComes'
    <2>0. \A u \in Nat : u <= SyncInterval => 0 + u <= SyncInterval
      BY SMT
    <2>1. dueFor' + UntilRound' <= SyncInterval
      BY <1>2, <1>4, <2>0, Zenon
    <2> QED BY <1>4, <2>1, Zenon DEF RoundComes
  <1>5. ASSUME dueFor' = dueFor, ~Due PROVE RoundComes'
    BY <1>3, <1>4, <1>5, Zenon DEF RoundComes
  <1>6. CASE SyncRound
    <2>1. CASE calling'
      BY <1>4, <1>6, <2>1, Zenon DEF SyncRound
    <2>2. CASE ~calling'
      BY <1>5, <1>6, <2>2, Zenon DEF SyncRound, Due
    <2> QED BY <2>1, <2>2
  <1>7. CASE recordPeerFailure
    BY <1>5, <1>7, Zenon DEF recordPeerFailure, Due
  <1>8. CASE recordPeerSuccess
    BY <1>5, <1>8, Zenon DEF recordPeerSuccess, Due
  <1>9. CASE OthersReturn
    BY <1>5, <1>9, Zenon DEF OthersReturn, Due
  <1>10. CASE Tick
    <2>1. CASE calling \/ others \/ backoff > 0
      BY <1>4, <1>10, <2>1, Zenon DEF Tick
    <2>2. CASE ~(calling \/ others \/ backoff > 0)
      <3>1. backoff = 0 /\ ~(backoff > 0)
        BY <1>1, <2>2, SMT DEF Numbers
      <3>2. Due /\ ~ticked
        BY <1>10, <2>2, <3>1, Zenon DEF Due, Tick
      <3>3. dueFor + untilTick <= SyncInterval
        BY <1>3, <3>2, Zenon DEF RoundComes, UntilRound
      <3>4. /\ dueFor' = IF dueFor <= SyncInterval THEN dueFor + 1 ELSE dueFor
            /\ untilTick' = IF untilTick > 1 THEN untilTick - 1 ELSE SyncInterval
            /\ ticked' = (untilTick = 1)
        BY <1>10, <2>2, <3>2, Zenon DEF Tick
      <3>5. dueFor' = dueFor + 1
        BY <1>1, <3>3, <3>4, BackoffAssumption, SMT DEF Numbers
      <3>6. UntilRound' = untilTick - 1
        <4>1. CASE untilTick = 1
          <5>1. UntilRound' = 0
            BY <3>4, <4>1, Zenon DEF UntilRound
          <5> QED BY <4>1, <5>1, SMT
        <4>2. CASE untilTick # 1
          <5>1. untilTick > 1
            BY <1>1, <4>2, SMT DEF Numbers
          <5> QED BY <3>4, <4>2, <5>1, Zenon DEF UntilRound
        <4> QED BY <4>1, <4>2
      <3>7. dueFor' + UntilRound' <= SyncInterval
        BY <1>1, <3>3, <3>5, <3>6, BackoffAssumption, SMT DEF Numbers
      <3>8. Due'
        BY <1>10, <2>2, <3>1, Zenon DEF Due, Tick
      <3> QED BY <3>7, <3>8, Zenon DEF RoundComes
    <2> QED BY <2>1, <2>2
  <1>11. CASE UNCHANGED vars
    BY <1>3, <1>11, Zenon DEF vars, RoundComes, Due, UntilRound
  <1> QED BY <1>6, <1>7, <1>8, <1>9, <1>10, <1>11 DEF Next

(* The invariant holds in every reachable state.                           *)
THEOREM BackoffInvariance == Spec => []BackoffInv
  <1>1. BackoffInv /\ [Next]_vars => BackoffInv'
    BY NextTypeOK, NextWaiting, NextRoundComes, Zenon DEF BackoffInv
  <1> QED BY <1>1, InitBackoffInv, PTL DEF Spec

(* What recordPeerFailure sets is, after all overflows, neither negative   *)
(* nor more than five minutes away, for any number of failures.            *)
THEOREM BackoffTypeCorrect == Spec => []TypeOK
  BY BackoffInvariance, PTL DEF BackoffInv

(* A peer relay whose backoff has ended is called within one sync interval *)
(* in which no call of the round is out, for every sync interval, however  *)
(* often it has failed and however long other relays took to answer.       *)
THEOREM AlwaysRetriedInTime == Spec => []RetriedInTime
  <1>1. BackoffInv => RetriedInTime
    <2> SUFFICES ASSUME BackoffInv PROVE dueFor <= SyncInterval
      BY Zenon DEF RetriedInTime
    <2>1. Numbers /\ RoundComes
      BY TypeParts, Zenon DEF BackoffInv
    <2>2. UntilRound \in Nat
      BY <2>1, RoundIsNear DEF RoundNear
    <2>3. dueFor = 0 \/ dueFor + UntilRound <= SyncInterval
      BY <2>1, Zenon DEF RoundComes
    <2> QED BY <2>1, <2>2, <2>3, BackoffAssumption, SMT DEF Numbers
  <1> QED BY <1>1, BackoffInvariance, PTL

(* Through the first 31 failures /health is degraded for exactly the       *)
(* intended backoff after the last failure.                                *)
THEOREM HealthAlwaysTellsFailures == Spec => []HealthTellsFailures
  <1>1. BackoffInv => HealthTellsFailures
    <2> SUFFICES ASSUME BackoffInv, failures \in 1 .. 31, ~calling
                 PROVE  handleHealth = "degraded" <=> idleFor < IntendedTicks(failures)
      BY Zenon DEF HealthTellsFailures
    <2>1. Numbers /\ Waiting(failures, backoff, idleFor)
      BY TypeParts, Zenon DEF BackoffInv
    <2>2. IntendedTicks(failures) \in 0 .. 60
      BY <2>1, IntendedFits DEF Numbers
    <2>3. handleHealth = "degraded" <=> backoff > 0
      BY SMT DEF handleHealth, HealthStatus
    <2>4. backoff > 0 <=> idleFor < IntendedTicks(failures)
      BY <2>1, <2>2, SMT DEF Numbers, Waiting
    <2> QED BY <2>3, <2>4
  <1> QED BY <1>1, BackoffInvariance, PTL

(* Through the first 31 failures no call starts before the whole of the    *)
(* exponentially growing backoff has passed.                               *)
THEOREM BackoffAlwaysHonoured == Spec => BackoffHonoured
  <1>1. BackoffInv /\ [Next]_vars => [failures <= 31 => StartsRested]_vars
    <2> SUFFICES ASSUME BackoffInv, Next, failures <= 31, ~calling, calling'
                 PROVE  idleFor >= IntendedTicks(failures)
      BY Zenon DEF StartsRested
    <2>1. SyncRound
      BY Zenon DEF Next, recordPeerFailure, recordPeerSuccess, OthersReturn, Tick
    <2>2. backoff = 0
      BY <2>1, Zenon DEF SyncRound
    <2>3. Waiting(failures, backoff, idleFor)
      BY Zenon DEF BackoffInv
    <2> QED BY <2>2, <2>3, SMT DEF Waiting
  <1> QED BY <1>1, BackoffInvariance, PTL DEF Spec, BackoffHonoured

=============================================================================
