---------------------------- MODULE Windows_proof ----------------------------
(***************************************************************************)
(* Proofs about Windows, for every clock, latency and region: a window     *)
(* opened in time hears the downlink in its slot, an empty first window is *)
(* over before the second one's timer, and every join attempt finds a      *)
(* channel.                                                                *)
(***************************************************************************)
EXTENDS Windows, TLAPS

-----------------------------------------------------------------------------
(***************************************************************************)
(* Rates and symbols.                                                      *)
(***************************************************************************)
\* Every modulation of the tables, also the one taken for an unknown rate.
LEMMA RateFacts ==
    ASSUME NEW r \in AllRegions, NEW rate
    PROVE  /\ ConvertRate(r, rate).sf \in 7..12 /\ ConvertRate(r, rate).bw \in {125, 250, 500}
           /\ ConvertRate(r, rate).mtu \in 8..250
<1> DEFINE Fits(m) == m.sf \in 7..12 /\ m.bw \in {125, 250, 500} /\ m.mtu \in 8..250
<1>1. \A i \in 1..6 : Fits(NarrowRates[i]) /\ Fits(WideRates[i])
  BY DEF NarrowRates, WideRates, Rate
<1>2. Fits(Rate(7, 125, 250)) /\ Fits(Rate(7, 250, 250)) /\ Fits(Rate(8, 500, 250))
  BY DEF Rate
<1>3. \A i \in 1..5 : Fits(<<Rate(10, 125, 19), Rate(9, 125, 61), Rate(8, 125, 133),
                             Rate(7, 125, 250), Rate(8, 500, 250)>>[i])
  BY DEF Rate
<1> HIDE DEF Fits
<1>4. ASSUME rate \in DOMAIN Rates(r) PROVE Fits(Rates(r)[rate])
  <2>1. CASE r \in EU
    <3>1. Rates(r) = [n \in 0..6 |-> IF n = 6 THEN Rate(7, 250, 250) ELSE NarrowRates[n + 1]]
      BY <2>1 DEF Rates, EU
    <3>2. rate \in 0..6
      BY <1>4, <3>1
    <3>3. CASE rate = 6
      <4>1. Rates(r)[rate] = Rate(7, 250, 250)
        BY <3>1, <3>2, <3>3
      <4>2. QED
        BY <4>1, <1>2
    <3>4. CASE rate # 6
      <4>1. Rates(r)[rate] = NarrowRates[rate + 1] /\ rate + 1 \in 1..6
        BY <3>1, <3>2, <3>4
      <4>2. QED
        BY <4>1, <1>1
    <3>5. QED
      BY <3>3, <3>4
  <2>2. CASE r = "US_902_928"
    <3>1. Rates(r) = [n \in (0..4) \cup (8..13) |->
                       IF n >= 8 THEN WideRates[n - 7]
                       ELSE <<Rate(10, 125, 19), Rate(9, 125, 61), Rate(8, 125, 133),
                              Rate(7, 125, 250), Rate(8, 500, 250)>>[n + 1]]
      BY <2>2 DEF Rates, EU
    <3>2. rate \in (0..4) \cup (8..13)
      BY <1>4, <3>1
    <3>3. IF rate >= 8 THEN rate - 7 \in 1..6 ELSE rate + 1 \in 1..5
      BY <3>2
    <3>4. QED
      BY <3>1, <3>2, <3>3, <1>1, <1>3
  <2>3. CASE r = "AU_915_928"
    <3>1. Rates(r) = [n \in (0..6) \cup (8..13) |->
                       IF n >= 8 THEN WideRates[n - 7]
                       ELSE IF n = 6 THEN Rate(8, 500, 250) ELSE NarrowRates[n + 1]]
      BY <2>3 DEF Rates, EU
    <3>2. rate \in (0..6) \cup (8..13)
      BY <1>4, <3>1
    <3>3. IF rate >= 8 THEN rate - 7 \in 1..6 ELSE rate = 6 \/ rate + 1 \in 1..6
      BY <3>2
    <3>4. QED
      BY <3>1, <3>2, <3>3, <1>1, <1>2
  <2>4. QED
    BY <2>1, <2>2, <2>3 DEF AllRegions, EU
<1>5. Fits(ConvertRate(r, rate))
  BY <1>2, <1>4 DEF ConvertRate
<1>6. QED
  BY <1>5 DEF Fits

\* The least and the greatest number of chips in a symbol.
LEMMA Powers ==
    ASSUME NEW sf \in 7..12
    PROVE  2^(sf - 3) \in 16..512 /\ 2^sf = 8 * 2^(sf - 3)
<1>1. /\ 2^4 = 16 /\ 2^5 = 32 /\ 2^6 = 64 /\ 2^7 = 128 /\ 2^8 = 256
      /\ 2^9 = 512 /\ 2^10 = 1024 /\ 2^11 = 2048 /\ 2^12 = 4096
  OBVIOUS
<1>2. CASE sf = 7
  <2>1. sf - 3 = 4
    BY <1>2
  <2>2. QED
    BY <1>1, <1>2, <2>1
<1>3. CASE sf = 8
  <2>1. sf - 3 = 5
    BY <1>3
  <2>2. QED
    BY <1>1, <1>3, <2>1
<1>4. CASE sf = 9
  <2>1. sf - 3 = 6
    BY <1>4
  <2>2. QED
    BY <1>1, <1>4, <2>1
<1>5. CASE sf = 10
  <2>1. sf - 3 = 7
    BY <1>5
  <2>2. QED
    BY <1>1, <1>5, <2>1
<1>6. CASE sf = 11
  <2>1. sf - 3 = 8
    BY <1>6
  <2>2. QED
    BY <1>1, <1>6, <2>1
<1>7. CASE sf = 12
  <2>1. sf - 3 = 9
    BY <1>7
  <2>2. QED
    BY <1>1, <1>7, <2>1
<1>8. QED
  BY <1>2, <1>3, <1>4, <1>5, <1>6, <1>7

\* Rounded down, n symbols are never fewer ticks than n times one symbol; five
\* are no more than eight times one, as a symbol lasts two ticks at least.
LEMMA Rounding ==
    ASSUME NEW x \in Nat, NEW b \in {15625, 31250, 62500}
    PROVE  /\ x \div b \in Nat
           /\ b * (x \div b) <= x
           /\ (8 * x) \div (8 * b) = x \div b
           /\ 3 * (x \div b) <= (3 * x) \div b
           /\ x >= 160000 => x \div b >= 2 /\ (5 * x) \div b <= 8 * (x \div b)
<1>1. CASE b = 15625
  BY <1>1, SMTT(60)
<1>2. CASE b = 31250
  BY <1>2, SMTT(60)
<1>3. CASE b = 62500
  BY <1>3, SMTT(60)
<1>4. QED
  BY <1>1, <1>2, <1>3

\* One symbol in ticks: what the MAC computes is what the radio takes; three of
\* the MAC's are no more than three of the radio's, and eight are no less than
\* five.
LEMMA SymbolFacts ==
    ASSUME sys \in Systems, NEW sf \in 7..12, NEW bw \in {125, 250, 500}
    PROVE  /\ SymbolPeriod(sf, bw) \in Nat /\ SymbolPeriod(sf, bw) >= 2
           /\ 125000 * SymbolPeriod(sf, bw) <= 4096 * sys.tps
           /\ Symbols(1, sf, bw) = SymbolPeriod(sf, bw)
           /\ Symbols(3, sf, bw) \in Nat /\ 3 * SymbolPeriod(sf, bw) <= Symbols(3, sf, bw)
           /\ Symbols(5, sf, bw) \in Nat /\ Symbols(5, sf, bw) <= 8 * SymbolPeriod(sf, bw)
<1> DEFINE k == 2^(sf - 3)
           b == bw * 125
           x == k * sys.tps
<1>1. sys.tps \in Nat /\ sys.tps >= 10000
  BY WindowsAssumption
<1>2. k \in 16..512 /\ 2^sf = 8 * k
  BY Powers
<1>3. b \in {15625, 31250, 62500} /\ bw * 1000 = 8 * b
  OBVIOUS
<1>4. /\ SymbolPeriod(sf, bw) = (8 * k * sys.tps) \div (8 * b)
      /\ Symbols(1, sf, bw) = (1 * k * sys.tps) \div b
      /\ Symbols(3, sf, bw) = (3 * k * sys.tps) \div b
      /\ Symbols(5, sf, bw) = (5 * k * sys.tps) \div b
  BY <1>2, <1>3 DEF SymbolPeriod, BwToNumber, Symbols
<1> HIDE DEF k, b
<1>5. x \in Nat /\ x >= 160000 /\ x <= 512 * sys.tps
  BY <1>1, <1>2
<1>6. /\ 8 * k * sys.tps = 8 * x /\ 1 * k * sys.tps = x
      /\ 3 * k * sys.tps = 3 * x /\ 5 * k * sys.tps = 5 * x
  BY <1>1, <1>2
<1> HIDE DEF x
<1> DEFINE p == x \div b
<1>7. /\ SymbolPeriod(sf, bw) = p /\ Symbols(1, sf, bw) = p
      /\ Symbols(3, sf, bw) = (3 * x) \div b
      /\ Symbols(5, sf, bw) = (5 * x) \div b
  BY <1>3, <1>4, <1>5, <1>6, Rounding
<1>8. /\ p \in Nat /\ p >= 2 /\ b * p <= x
      /\ 3 * p <= (3 * x) \div b /\ (5 * x) \div b <= 8 * p
  BY <1>3, <1>5, Rounding
<1>9. (3 * x) \div b \in Nat /\ (5 * x) \div b \in Nat
  BY <1>3, <1>5
<1> HIDE DEF p
<1>10. 125000 * p <= 4096 * sys.tps
  <2>1. 15625 * p <= b * p
    BY <1>3, <1>8
  <2>2. b * p \in Int
    BY <1>3, <1>8
  <2>3. QED
    BY <2>1, <2>2, <1>1, <1>5, <1>8
<1>11. QED
  BY <1>7, <1>8, <1>9, <1>10

LEMMA Monotone ==
    ASSUME NEW m \in Nat, NEW n \in Nat, NEW p \in Nat, m <= n
    PROVE  m * p <= n * p /\ m * p \in Nat
<1> DEFINE k == n - m
<1>1. k \in Nat /\ n = m + k
  OBVIOUS
<1> HIDE DEF k
<1>2. (m + k) * p = m * p + k * p
  BY <1>1
<1>3. m * p \in Nat /\ k * p \in Nat
  BY <1>1
<1>4. QED
  BY <1>1, <1>2, <1>3

\* The extra symbols cover the error, by less than a symbol more, unless they
\* do not fit 8 bits; then they are too few.
LEMMA ExtraFacts ==
    ASSUME NEW error \in Nat, NEW period \in Nat, period >= 2
    PROVE  /\ ExtraSymbols(error, period) \in 0..255
           /\ ExtraSymbols(error, period) * period \in Nat
           /\ ExtraSymbols(error, period) * period <= error + period
           /\ error <= 247 * period => /\ ExtraSymbols(error, period) <= 247
                                       /\ error <= ExtraSymbols(error, period) * period
<1> DEFINE n == error \div period
           m == error % period
           q == n + (IF m > 0 THEN 1 ELSE 0)
           e == q % 256
<1>1. n \in Nat /\ m \in 0..(period - 1) /\ error = period * n + m
  BY SMTT(60)
<1>2. ExtraSymbols(error, period) = e
  BY DEF ExtraSymbols
<1> HIDE DEF n, m
<1>3. q \in Nat /\ error <= period * q /\ period * q <= error + period
  <2>1. CASE m > 0
    <3>1. q = n + 1 /\ period * (n + 1) = period * n + period
      BY <1>1, <2>1
    <3>2. period * n \in Nat
      BY <1>1
    <3>3. period * q = period * n + period /\ q \in Nat
      BY <1>1, <3>1
    <3>4. error = period * n + m /\ m \in 0..period
      BY <1>1
    <3> HIDE DEF q
    <3>5. \A a \in Nat : error = a + m => error <= a + period /\ a + period <= error + period
      BY <3>4
    <3>6. QED
      BY <3>2, <3>3, <3>4, <3>5
  <2>2. CASE ~(m > 0)
    <3>1. q = n /\ period * n \in Nat /\ m = 0
      BY <1>1, <2>2
    <3>2. QED
      BY <1>1, <3>1
  <2>3. QED
    BY <2>1, <2>2
<1>4. error <= 247 * period => q <= 247
  <2>1. SUFFICES ASSUME error <= 247 * period, n >= 247 PROVE q <= 247
    BY <1>1
  <2>2. period * 247 <= period * n
    BY <1>1, <2>1
  <2>3. m = 0 /\ period * n <= period * 247
    BY <1>1, <2>1, <2>2
  <2>4. n <= 247
    <3>1. SUFFICES ASSUME n >= 248 PROVE FALSE
      BY <1>1
    <3>2. period * 248 <= period * n
      BY <1>1, <3>1
    <3>3. \A z \in Nat : period * 248 <= z => ~(z <= period * 247)
      OBVIOUS
    <3>4. period * n \in Nat
      BY <1>1
    <3>5. QED
      BY <3>2, <3>3, <3>4, <2>3
  <2>5. QED
    BY <1>1, <2>3, <2>4
<1> HIDE DEF q
<1>5. e \in 0..255 /\ e <= q /\ (q <= 247 => e = q)
  BY <1>3
<1> HIDE DEF e
<1>6. e * period = period * e /\ e * period \in Nat /\ period * e <= period * q
  BY <1>3, <1>5
<1>7. period * q \in Nat /\ e * period <= error + period
  BY <1>3, <1>6
<1>8. error <= 247 * period => e <= 247 /\ error <= e * period
  BY <1>3, <1>4, <1>5, <1>6
<1>9. QED
  BY <1>2, <1>5, <1>6, <1>7, <1>8

\* The offsets of a delay of s seconds, and of the second after it.
LEMMA DelayFacts ==
    ASSUME NEW t \in Nat, NEW e \in Nat, NEW s \in 0..15
    PROVE  /\ s * t \in Nat /\ s * e \in Nat /\ s * e <= 15 * e
           /\ (s + 1) * t = s * t + t /\ (s + 1) * e = s * e + e
           /\ s * e * 2 = 2 * (s * e) /\ (s + 1) * e * 2 = 2 * (s * e) + 2 * e
<1>1. s * t \in Nat /\ s * e \in Nat /\ s * e <= 15 * e
  BY SMTT(60)
<1>2. (s + 1) * t = s * t + t /\ (s + 1) * e = s * e + e
  BY SMTT(60)
<1>3. QED
  BY <1>1, <1>2

-----------------------------------------------------------------------------
(***************************************************************************)
(* Tables of a region.                                                     *)
(***************************************************************************)
\* The highest rate of an uplink.
MaxUp(r) == CASE r \in EU -> 5 [] r = "US_902_928" -> 4 [] r = "AU_915_928" -> 6

\* The table of RX1 is the offset taken from the rate, within the rates there are.
LEMMA Rx1Table ==
    ASSUME NEW r \in AllRegions, NEW rate \in 0..MaxUp(r), NEW offset \in 0..(RX1Columns(r) - 1)
    PROVE  LET Between(low, n, high) == IF n < low THEN low ELSE IF n > high THEN high ELSE n
           IN RX1DataRate(r, rate, offset) =
                CASE r \in EU           -> Between(0, rate - offset, 5)
                  [] r = "US_902_928"   -> Between(8, 10 + rate - offset, 13)
                  [] r = "AU_915_928"   -> Between(8, 8 + rate - offset, 13)
<1> DEFINE Between(low, n, high) == IF n < low THEN low ELSE IF n > high THEN high ELSE n
<1>1. CASE r \in EU
  <2>1. RX1Columns(r) = 6 /\ MaxUp(r) = 5 /\ RX1Table(r) = EURX1
    BY <1>1 DEF RX1Columns, MaxUp, RX1Table, EU
  <2>2. \A n \in 0..5, o \in 0..5 : EURX1[n * 6 + o + 1] = Between(0, n - o, 5)
    <3>1. \A o \in 0..5 : EURX1[o + 1] = Between(0, 0 - o, 5) /\ EURX1[o + 7] = Between(0, 1 - o, 5)
      BY DEF EURX1
    <3>2. \A o \in 0..5 : EURX1[o + 13] = Between(0, 2 - o, 5) /\ EURX1[o + 19] = Between(0, 3 - o, 5)
      BY DEF EURX1
    <3>3. \A o \in 0..5 : EURX1[o + 25] = Between(0, 4 - o, 5) /\ EURX1[o + 31] = Between(0, 5 - o, 5)
      BY DEF EURX1
    <3>4. QED
      BY <3>1, <3>2, <3>3
  <2>3. Len(EURX1) = 48
    BY DEF EURX1
  <2>4. rate \in 0..5 /\ offset \in 0..5 /\ rate * 6 + offset < 48
    BY <2>1
  <2>5. RX1DataRate(r, rate, offset) = EURX1[rate * 6 + offset + 1]
    BY <2>1, <2>3, <2>4 DEF RX1DataRate
  <2> HIDE DEF Between
  <2>6. RX1DataRate(r, rate, offset) = Between(0, rate - offset, 5)
    BY <2>2, <2>4, <2>5
  <2>7. QED
    BY <1>1, <2>6 DEF Between, EU
<1>2. CASE r = "US_902_928"
  <2>1. RX1Columns(r) = 4 /\ MaxUp(r) = 4 /\ RX1Table(r) = USRX1
    BY <1>2 DEF RX1Columns, MaxUp, RX1Table, EU
  <2>2. \A n \in 0..4, o \in 0..3 : USRX1[n * 4 + o + 1] = Between(8, 10 + n - o, 13)
    <3>1. \A o \in 0..3 : USRX1[o + 1] = Between(8, 10 - o, 13) /\ USRX1[o + 5] = Between(8, 11 - o, 13)
      BY DEF USRX1
    <3>2. \A o \in 0..3 : USRX1[o + 9] = Between(8, 12 - o, 13) /\ USRX1[o + 13] = Between(8, 13 - o, 13)
      BY DEF USRX1
    <3>3. \A o \in 0..3 : USRX1[o + 17] = Between(8, 14 - o, 13)
      BY DEF USRX1
    <3>4. QED
      BY <3>1, <3>2, <3>3
  <2>3. Len(USRX1) = 20
    BY DEF USRX1
  <2>4. rate \in 0..4 /\ offset \in 0..3 /\ rate * 4 + offset < 20
    BY <2>1
  <2>5. RX1DataRate(r, rate, offset) = USRX1[rate * 4 + offset + 1]
    BY <2>1, <2>3, <2>4 DEF RX1DataRate
  <2> HIDE DEF Between
  <2>6. RX1DataRate(r, rate, offset) = Between(8, 10 + rate - offset, 13)
    BY <2>2, <2>4, <2>5
  <2>7. QED
    BY <1>2, <2>6 DEF Between, EU
<1>3. CASE r = "AU_915_928"
  <2>1. RX1Columns(r) = 6 /\ MaxUp(r) = 6 /\ RX1Table(r) = AURX1
    BY <1>3 DEF RX1Columns, MaxUp, RX1Table, EU
  <2>2. \A n \in 0..6, o \in 0..5 : AURX1[n * 6 + o + 1] = Between(8, 8 + n - o, 13)
    <3>1. \A o \in 0..5 : AURX1[o + 1] = Between(8, 8 - o, 13) /\ AURX1[o + 7] = Between(8, 9 - o, 13)
      BY DEF AURX1
    <3>2. \A o \in 0..5 : AURX1[o + 13] = Between(8, 10 - o, 13) /\ AURX1[o + 19] = Between(8, 11 - o, 13)
      BY DEF AURX1
    <3>3. \A o \in 0..5 : AURX1[o + 25] = Between(8, 12 - o, 13) /\ AURX1[o + 31] = Between(8, 13 - o, 13)
      BY DEF AURX1
    <3>4. \A o \in 0..5 : AURX1[o + 37] = Between(8, 14 - o, 13)
      BY DEF AURX1
    <3>5. QED
      BY <3>1, <3>2, <3>3, <3>4
  <2>3. Len(AURX1) = 42
    BY DEF AURX1
  <2>4. rate \in 0..6 /\ offset \in 0..5 /\ rate * 6 + offset < 42
    BY <2>1
  <2>5. RX1DataRate(r, rate, offset) = AURX1[rate * 6 + offset + 1]
    BY <2>1, <2>3, <2>4 DEF RX1DataRate
  <2> HIDE DEF Between
  <2>6. RX1DataRate(r, rate, offset) = Between(8, 8 + rate - offset, 13)
    BY <2>2, <2>4, <2>5
  <2>7. QED
    BY <1>3, <2>6 DEF Between, EU
<1>4. QED
  BY <1>1, <1>2, <1>3 DEF AllRegions, EU

\* A join rate is a rate of the region's uplinks, and a channel of the region's
\* default ones may be used at it.
LEMMA JoinRates ==
    ASSUME NEW r \in AllRegions, NEW trial \in Nat
    PROVE  /\ JoinRate(r, trial) \in 0..MaxUp(r)
           /\ r = "US_902_928" => JoinRate(r, trial) \in 0..4
           /\ r = "AU_915_928" => JoinRate(r, trial) \in 0..5
<1>1. trial % 5 \in 0..4 /\ (trial \div 2) % 3 \in 0..2 /\ (trial \div 2) % 4 \in 0..3
  OBVIOUS
<1>2. CASE r \in EU
  <2>1. JoinRate(r, trial) = 5 - (trial % 5) /\ MaxUp(r) = 5
    <3>1. JoinRate(r, trial) = 5 - (trial % (6 - DefaultRate)) /\ MaxUp(r) = 5
      BY <1>2 DEF JoinRate, MaxUp, EU
    <3>2. 6 - DefaultRate = 5
      BY DEF DefaultRate
    <3>3. QED
      BY <3>1, <3>2
  <2>2. QED
    BY <2>1, <1>1, <1>2 DEF EU
<1>3. CASE r = "US_902_928"
  <2>1. /\ JoinRate(r, trial) = (IF trial % 2 = 1 THEN 4 ELSE 3 - ((trial \div 2) % 3))
        /\ MaxUp(r) = 4
    <3>1. /\ JoinRate(r, trial) = IF trial % 2 = 1 THEN 4 ELSE 3 - ((trial \div 2) % (4 - DefaultRate))
          /\ MaxUp(r) = 4
      BY <1>3 DEF JoinRate, MaxUp, EU
    <3>2. 4 - DefaultRate = 3
      BY DEF DefaultRate
    <3>3. QED
      BY <3>1, <3>2
  <2>2. QED
    BY <2>1, <1>1, <1>3
<1>4. CASE r = "AU_915_928"
  <2>1. /\ JoinRate(r, trial) = (IF trial % 2 = 1 THEN 0 ELSE 4 - ((trial \div 2) % 4))
        /\ MaxUp(r) = 6
    <3>1. /\ JoinRate(r, trial) = IF trial % 2 = 1 THEN 0 ELSE 4 - ((trial \div 2) % (5 - DefaultRate))
          /\ MaxUp(r) = 6
      BY <1>4 DEF JoinRate, MaxUp, EU
    <3>2. 5 - DefaultRate = 4
      BY DEF DefaultRate
    <3>3. QED
      BY <3>1, <3>2
  <2>2. QED
    BY <2>1, <1>1, <1>4
<1>5. QED
  BY <1>2, <1>3, <1>4 DEF AllRegions, EU

LEMMA ChannelOf ==
    ASSUME NEW r \in AllRegions, NEW ch \in DOMAIN DefaultChannels(r)
    PROVE  /\ DefaultChannels(r)[ch].minRate \in Nat
           /\ DefaultChannels(r)[ch].maxRate \in 0..MaxUp(r)
<1>1. /\ ch \in 0..(NumChannels(r) - 1)
      /\ DefaultChannels(r)[ch] =
           IF ~IsDynamic(r) THEN FixedChannel(r, ch)
           ELSE IF ch > 2 THEN NoChannel
           ELSE SetChannel((IF r = "EU_433" THEN 433175000 ELSE 868100000) + 200000 * ch, 0, 5)
  BY DEF DefaultChannels
<1>2. CASE r \in EU
  BY <1>1, <1>2 DEF IsDynamic, EU, SetChannel, NoChannel, Channel, MaxUp
<1>3. CASE r = "US_902_928"
  BY <1>1, <1>3 DEF IsDynamic, EU, FixedChannel, Channel, MaxUp
<1>4. CASE r = "AU_915_928"
  BY <1>1, <1>4 DEF IsDynamic, EU, FixedChannel, Channel, MaxUp
<1>5. QED
  BY <1>2, <1>3, <1>4 DEF AllRegions, EU

LEMMA JoinChannels ==
    ASSUME region \in AllRegions, NEW trial \in Nat
    PROVE  IsAvailable(DefaultChannels(region), JoinRate(region, trial)) # {}
<1> DEFINE chs == DefaultChannels(region)
           rate == JoinRate(region, trial)
<1>1. /\ DOMAIN chs = 0..(NumChannels(region) - 1)
      /\ \A ch \in DOMAIN chs : chs[ch] =
           IF ~IsDynamic(region) THEN FixedChannel(region, ch)
           ELSE IF ch > 2 THEN NoChannel
           ELSE SetChannel((IF region = "EU_433" THEN 433175000 ELSE 868100000) + 200000 * ch, 0, 5)
  BY DEF DefaultChannels
<1> HIDE DEF chs, rate
<1> SUFFICES \E ch \in DOMAIN chs : /\ rate \in chs[ch].minRate..chs[ch].maxRate
                                    /\ GetBand(region, chs[ch].freq) # -1
  BY DEF IsAvailable, chs, rate
<1>2. CASE region \in EU
  <2>1. 0 \in DOMAIN chs
    BY <1>1, <1>2 DEF NumChannels, IsDynamic
  <2>2. chs[0] = SetChannel(IF region = "EU_433" THEN 433175000 ELSE 868100000, 0, 5)
    BY <1>1, <1>2, <2>1 DEF IsDynamic
  <2>3. chs[0].minRate = 0 /\ chs[0].maxRate = 5
        /\ chs[0].freq = IF region = "EU_433" THEN 433175000 ELSE 868100000
    BY <2>2 DEF SetChannel, Channel
  <2>4. GetBand(region, chs[0].freq) # -1
    BY <1>2, <2>3 DEF GetBand, EU
  <2>5. rate \in 0..5
    BY <1>2, JoinRates DEF rate, MaxUp, EU
  <2>6. QED
    BY <2>1, <2>3, <2>4, <2>5
<1>3. CASE region = "US_902_928"
  <2>1. 0 \in DOMAIN chs /\ 64 \in DOMAIN chs
    BY <1>1, <1>3 DEF NumChannels, IsDynamic, EU
  <2>2. /\ chs[0].minRate = 0 /\ chs[0].maxRate = 3
        /\ chs[64].minRate = 4 /\ chs[64].maxRate = 4
    BY <1>1, <1>3, <2>1 DEF IsDynamic, EU, FixedChannel, Channel
  <2>3. \A freq : GetBand(region, freq) # -1
    BY <1>3 DEF GetBand
  <2>4. rate = 4 \/ rate \in 0..3
    BY <1>3, JoinRates DEF rate
  <2>5. QED
    BY <2>1, <2>2, <2>3, <2>4
<1>4. CASE region = "AU_915_928"
  <2>1. 0 \in DOMAIN chs
    BY <1>1, <1>4 DEF NumChannels, IsDynamic, EU
  <2>2. chs[0].minRate = 0 /\ chs[0].maxRate = 5
    BY <1>1, <1>4, <2>1 DEF IsDynamic, EU, FixedChannel, Channel
  <2>3. \A freq : GetBand(region, freq) # -1
    BY <1>4 DEF GetBand
  <2>4. rate \in 0..5
    BY <1>4, JoinRates DEF rate
  <2>5. QED
    BY <2>1, <2>2, <2>3, <2>4
<1>5. QED
  BY <1>2, <1>3, <1>4 DEF AllRegions, EU

-----------------------------------------------------------------------------
(***************************************************************************)
(* The invariant: which channels there are, and when and how long the      *)
(* windows are open.                                                       *)
(***************************************************************************)
Rate1   == RX1DataRate(region, tx.rate, ctx.rx1DROffset)
Period1 == RatePeriod(Rate1)
Period2 == RatePeriod(ctx_rx2Rate)
Extra1  == ExtraSymbols(WaitSeconds * sys.eps * 2, Period1)
Extra2  == ExtraSymbols((WaitSeconds + 1) * sys.eps * 2, Period2)

\* When the radio has to listen: as much before the slot as the clocks may differ.
Open1 == Latest(WaitSeconds) - Extra1 * Period1
Open2 == Latest(WaitSeconds + 1) - Extra2 * Period2

Contexts == [joined : BOOLEAN, rate : SetRates \cup 0..15, rx1DROffset : 0..7,
             rx1Delay : 0..15, rx2DataRate : 0..15, rx2Freq : Int]

TypeInv ==
    /\ region \in UsedRegions /\ sys \in Systems
    /\ ctx \in Contexts
    /\ trials \in Nat /\ now \in Int

\* A join begins with the channels of the region, and no channel and no uplink
\* has a rate the region's uplinks do not have.
ChannelsInv ==
    /\ \A ch \in DOMAIN channels : /\ channels[ch].minRate \in Nat
                                   /\ channels[ch].maxRate \in 0..MaxUp(region)
    /\ ~ctx.joined => channels = DefaultChannels(region)
    /\ op = "JOINING" => ~ctx.joined
    /\ state # "IDLE" => tx.rate \in 0..MaxUp(region)

\* The timers keep the slots whatever time the uplink's interrupt was processed.
ScheduleInv ==
    /\ state \in {"WAIT_RX1", "RX1", "WAIT_RX2", "RX2"} =>
         slots = [margin1 |-> Margin(Extra1, Period1), symbols1 |-> (8 + Extra1) % 256,
                  margin2 |-> Margin(Extra2, Period2), symbols2 |-> (8 + Extra2) % 256]
    /\ state = "WAIT_RX1" => waitA = Open1 - sys.advance
    /\ state \in {"WAIT_RX1", "RX1"} => waitB = Open2 - sys.advance
    /\ state = "WAIT_RX2" => waitB \in Int /\ waitB >= Open2 - sys.advance
    /\ state = "RX1" => /\ radio.sf = ConvertRate(region, Rate1).sf
                        /\ radio.bw = ConvertRate(region, Rate1).bw
                        /\ radio.timeout = slots.symbols1
                        /\ radio.at \in Int
                        /\ Open1 <= radio.at /\ radio.at <= Open1 + slots.margin1
    /\ state = "RX2" => /\ radio.sf \in 7..12 /\ radio.bw \in {125, 250, 500}
                        /\ radio.timeout = slots.symbols2
                        /\ radio.at \in Int /\ Open2 <= radio.at

IInv == TypeInv /\ ChannelsInv /\ ScheduleInv

-----------------------------------------------------------------------------
(* The windows of a request, as numbers. *)

LEMMA ClockFacts ==
    ASSUME sys \in Systems
    PROVE  sys.tps \in Nat /\ sys.eps \in Nat /\ sys.advance \in Nat
BY WindowsAssumption

LEMMA WindowFacts ==
    ASSUME TypeInv
    PROVE  /\ region \in AllRegions /\ WaitSeconds \in 0..15
           /\ \A p \in {Period1, Period2} : p \in Nat /\ p >= 2 /\ 125000 * p <= 4096 * sys.tps
           /\ Extra1 \in 0..255 /\ Extra2 \in 0..255
           /\ Extra1 * Period1 \in Nat /\ Extra2 * Period2 \in Nat
           /\ Open1 \in Int /\ Open2 \in Int
           /\ Latest(WaitSeconds) \in Nat /\ Latest(WaitSeconds + 1) \in Nat
           /\ Latest(WaitSeconds + 1) = Latest(WaitSeconds) + sys.tps + sys.eps
           /\ Extra1 * Period1 <= 2 * (WaitSeconds * sys.eps) + Period1
           /\ Extra2 * Period2 <= 2 * (WaitSeconds * sys.eps) + 2 * sys.eps + Period2
<1>1. region \in AllRegions /\ sys \in Systems
  BY WindowsAssumption DEF TypeInv
<1>2. WaitSeconds \in 0..15
  BY DEF WaitSeconds, TypeInv, Contexts, JA1Delay
<1>3. \A p \in {Period1, Period2} : p \in Nat /\ p >= 2 /\ 125000 * p <= 4096 * sys.tps
  <2>1. /\ Period1 = SymbolPeriod(ConvertRate(region, Rate1).sf, ConvertRate(region, Rate1).bw)
        /\ Period2 = SymbolPeriod(ConvertRate(region, ctx_rx2Rate).sf, ConvertRate(region, ctx_rx2Rate).bw)
    BY DEF Period1, Period2, RatePeriod
  <2>2. \A rate : ConvertRate(region, rate).sf \in 7..12 /\ ConvertRate(region, rate).bw \in {125, 250, 500}
    BY <1>1, RateFacts
  <2>3. QED
    BY <2>1, <2>2, <1>1, SymbolFacts
<1> DEFINE s == WaitSeconds
           a == s * sys.eps * 2
           c == (s + 1) * sys.eps * 2
<1>4. /\ s * sys.tps \in Nat /\ s * sys.eps \in Nat
      /\ (s + 1) * sys.tps = s * sys.tps + sys.tps /\ (s + 1) * sys.eps = s * sys.eps + sys.eps
      /\ a = 2 * (s * sys.eps) /\ c = 2 * (s * sys.eps) + 2 * sys.eps
  BY <1>1, <1>2, ClockFacts, DelayFacts
<1>5. a \in Nat /\ c \in Nat
  BY <1>1, <1>4, ClockFacts
<1>6. Extra1 = ExtraSymbols(a, Period1) /\ Extra2 = ExtraSymbols(c, Period2)
  BY DEF Extra1, Extra2
<1> HIDE DEF a, c
<1>7. /\ Extra1 \in 0..255 /\ Extra1 * Period1 \in Nat /\ Extra1 * Period1 <= a + Period1
      /\ Extra2 \in 0..255 /\ Extra2 * Period2 \in Nat /\ Extra2 * Period2 <= c + Period2
  <2>1. \A error, p \in Nat : p >= 2 =>
          /\ ExtraSymbols(error, p) \in 0..255 /\ ExtraSymbols(error, p) * p \in Nat
          /\ ExtraSymbols(error, p) * p <= error + p
    BY ExtraFacts
  <2>2. Period1 \in Nat /\ Period1 >= 2 /\ Period2 \in Nat /\ Period2 >= 2
    BY <1>3
  <2>3. QED
    BY ZenonT(30), <2>1, <2>2, <1>5, <1>6
<1>8. /\ Latest(s) = s * sys.tps + s * sys.eps
      /\ Latest(s + 1) = s * sys.tps + sys.tps + (s * sys.eps + sys.eps)
  BY <1>4 DEF Latest
<1>9. Latest(s) \in Nat /\ Latest(s + 1) \in Nat /\ Latest(s + 1) = Latest(s) + sys.tps + sys.eps
  BY <1>1, <1>4, <1>8, ClockFacts
<1>10. Open1 \in Int /\ Open2 \in Int
  BY <1>7, <1>9 DEF Open1, Open2
<1>11. QED
  BY <1>1, <1>2, <1>3, <1>4, <1>7, <1>9, <1>10

LEMMA SameWindows ==
    ASSUME UNCHANGED <<region, sys, ctx, op, tx>>
    PROVE  /\ Rate1' = Rate1 /\ ConvertRate(region, Rate1)' = ConvertRate(region, Rate1)
           /\ Period1' = Period1 /\ Period2' = Period2
           /\ Extra1' = Extra1 /\ Extra2' = Extra2
           /\ Open1' = Open1 /\ Open2' = Open2
<1>1. WaitSeconds' = WaitSeconds
  BY DEF WaitSeconds
<1>2. Rate1' = Rate1
  BY DEF Rate1
<1>3. Period1' = Period1 /\ Period2' = Period2
  BY <1>2 DEF Period1, Period2, RatePeriod, SymbolPeriod
<1>4. Extra1' = Extra1 /\ Extra2' = Extra2
  BY <1>1, <1>3 DEF Extra1, Extra2
<1>5. Latest(WaitSeconds)' = Latest(WaitSeconds) /\ Latest(WaitSeconds + 1)' = Latest(WaitSeconds + 1)
  BY <1>1 DEF Latest
<1>6. QED
  BY <1>2, <1>3, <1>4, <1>5 DEF Open1, Open2

-----------------------------------------------------------------------------
(***************************************************************************)
(* The invariant is inductive.                                             *)
(***************************************************************************)
\* restoreDefaults() leaves a session of the region's own settings.
LEMMA DefaultFacts ==
    ASSUME region \in AllRegions, NEW rate \in SetRates \cup 0..15
    PROVE  Default(rate) \in Contexts /\ ~Default(rate).joined
<1>1. RX2Freq(region) \in Int /\ RX2Rate(region) \in 0..15
  BY DEF RX2Freq, RX2Rate, AllRegions
<1>2. QED
  BY <1>1 DEF Default, RX1Offset, RX1Delay, Contexts

LEMMA InitInv == Init => IInv
<1> SUFFICES ASSUME Init PROVE IInv
  OBVIOUS
<1>1. region \in AllRegions
  BY WindowsAssumption DEF Init
<1>2. TypeInv
  <2>1. DefaultRate \in SetRates \cup 0..15
    BY DEF DefaultRate
  <2>2. QED
    BY <1>1, <2>1, DefaultFacts DEF Init, TypeInv
<1>3. ChannelsInv
  BY <1>1, ChannelOf DEF Init, ChannelsInv, Default
<1>4. ScheduleInv
  BY DEF Init, ScheduleInv
<1>5. QED
  BY <1>2, <1>3, <1>4 DEF IInv

LEMMA TypeStep == IInv /\ [Next]_vars => TypeInv'
<1> SUFFICES ASSUME IInv, [Next]_vars PROVE TypeInv'
  OBVIOUS
<1>0. TypeInv /\ region \in AllRegions /\ sys \in Systems
  BY WindowFacts DEF IInv, TypeInv
<1>d. DefaultRate \in SetRates \cup 0..15
  BY DEF DefaultRate
<1>f. Default(DefaultRate) \in Contexts
  BY <1>0, <1>d, DefaultFacts
<1>1. CASE Otaa
  <2>1. ctx' \in {ctx, Default(DefaultRate)} /\ now' = 0 /\ trials' = 0 /\ UNCHANGED <<region, sys>>
    BY <1>1 DEF Otaa, Transmit
  <2>2. QED
    BY <2>1, <1>0, <1>f DEF TypeInv
<1>2. CASE Forget
  <2>1. ctx' = Default(DefaultRate) /\ UNCHANGED <<region, sys, now, trials>>
    BY <1>2 DEF Forget
  <2>2. QED
    BY <2>1, <1>0, <1>f DEF TypeInv
<1>3. CASE Data
  BY <1>3, <1>0 DEF Data, Transmit, TypeInv
<1>4. CASE SetRate
  BY <1>4, <1>0 DEF SetRate, TypeInv, Contexts
<1>5. ASSUME NEW late \in Lates, TxComplete(late) PROVE TypeInv'
  BY <1>5, <1>0, WindowsAssumption DEF TxComplete, TypeInv
<1>6. ASSUME NEW late \in Lates, OpenRX1(late) PROVE TypeInv'
  <2>1. state = "WAIT_RX1" /\ now' = waitA + late /\ UNCHANGED <<region, sys, ctx, trials>>
    BY <1>6 DEF OpenRX1
  <2>2. waitA \in Int
    BY <2>1, <1>0, WindowFacts, ClockFacts DEF IInv, ScheduleInv
  <2>3. QED
    BY <2>1, <2>2, <1>0, <1>6, WindowsAssumption DEF TypeInv
<1>7. ASSUME NEW late \in Lates, OpenRX2(late) PROVE TypeInv'
  <2>1. state = "WAIT_RX2" /\ UNCHANGED <<region, sys, ctx>>
    BY <1>7 DEF OpenRX2
  <2>2. waitB \in Int /\ now \in Int /\ late \in Nat
    BY <2>1, <1>0, <1>7, WindowsAssumption DEF IInv, ScheduleInv, TypeInv
  <2>3. \/ now' = (IF waitB > now THEN waitB ELSE now) + late /\ trials' = trials
        \/ now' = 0 /\ trials' = 0
    BY <1>7 DEF OpenRX2, Idle
  <2>4. QED
    BY <2>1, <2>2, <2>3, <1>0 DEF TypeInv
<1>8. CASE RX1Timeout
  <2>1. state = "RX1" /\ now' = WindowEnd /\ UNCHANGED <<region, sys, ctx, trials>>
    BY <1>8 DEF RX1Timeout
  <2>2. WindowEnd \in Int
    <3>1. radio.sf \in 7..12 /\ radio.bw \in {125, 250, 500} /\ radio.at \in Int
      BY <2>1, <1>0, RateFacts DEF IInv, ScheduleInv
    <3>2. radio.timeout \in 0..255
      BY <2>1, <1>0, WindowFacts DEF IInv, ScheduleInv
    <3>3. Symbols(1, radio.sf, radio.bw) \in Nat
      BY <3>1, <1>0, SymbolFacts
    <3>4. QED
      BY <3>1, <3>2, <3>3 DEF WindowEnd
  <2>3. QED
    BY <2>1, <2>2, <1>0 DEF TypeInv
<1>9. CASE RX2Timeout
  BY <1>9, <1>0 DEF RX2Timeout, Transmit, Idle, TypeInv
<1>10. CASE JoinAccept
  <2>1. /\ Heard /\ op = "JOINING" /\ state # "IDLE"
        /\ \E offset \in Offsets, rx2 \in RX2Rates, delay \in Delays :
             ctx' = [Default(tx.rate) EXCEPT !.joined = TRUE, !.rx1DROffset = offset,
                        !.rx2DataRate = rx2, !.rx1Delay = IF delay = 0 THEN 1 ELSE delay]
    BY <1>10 DEF JoinAccept, Heard
  <2>2. tx.rate \in 0..15
    BY <2>1, <1>0 DEF IInv, ChannelsInv, MaxUp, AllRegions, EU
  <2>3. ctx' \in Contexts
    <3>1. PICK offset \in Offsets, rx2 \in RX2Rates, delay \in Delays :
             ctx' = [Default(tx.rate) EXCEPT !.joined = TRUE, !.rx1DROffset = offset,
                        !.rx2DataRate = rx2, !.rx1Delay = IF delay = 0 THEN 1 ELSE delay]
      BY <2>1
    <3>2. offset \in 0..7 /\ rx2 \in 0..15 /\ delay \in 0..15
      BY WindowsAssumption
    <3>3. Default(tx.rate) \in Contexts
      BY <2>2, <1>0, DefaultFacts
    <3>4. (IF delay = 0 THEN 1 ELSE delay) \in 0..15
      BY <3>2
    <3> HIDE DEF Contexts
    <3>5. \A c \in Contexts, o \in 0..7, r \in 0..15, d \in 0..15 :
             [c EXCEPT !.joined = TRUE, !.rx1DROffset = o, !.rx2DataRate = r, !.rx1Delay = d] \in Contexts
      BY DEF Contexts
    <3>6. QED
      BY <3>1, <3>2, <3>3, <3>4, <3>5
  <2>4. QED
    BY <2>1, <2>3, <1>0 DEF Heard, Idle, TypeInv
<1>11. CASE Downlink
  BY <1>11, <1>0, WindowsAssumption DEF Downlink, Heard, Idle, TypeInv, Contexts
<1>12. CASE UNCHANGED vars
  BY <1>12, <1>0 DEF vars, TypeInv
<1>13. QED
  BY <1>1, <1>2, <1>3, <1>4, <1>5, <1>6, <1>7, <1>8, <1>9, <1>10, <1>11, <1>12 DEF Next

\* selectChannel() keeps the rate it was asked for.
LEMMA SelectedRate ==
    ASSUME NEW chs, NEW rate, NEW size, SelectChannel(chs, rate, size)
    PROVE  tx'.rate = rate
BY DEF SelectChannel

LEMMA ChannelsStep == IInv /\ [Next]_vars => ChannelsInv'
<1> SUFFICES ASSUME IInv, [Next]_vars PROVE ChannelsInv'
  OBVIOUS
<1>0. TypeInv /\ ChannelsInv /\ region \in AllRegions /\ ctx \in Contexts
  BY WindowFacts DEF IInv, TypeInv
<1>d. /\ ~Default(DefaultRate).joined
      /\ \A ch \in DOMAIN DefaultChannels(region) : /\ DefaultChannels(region)[ch].minRate \in Nat
                                                    /\ DefaultChannels(region)[ch].maxRate \in 0..MaxUp(region)
  <2>1. DefaultRate \in SetRates \cup 0..15
    BY DEF DefaultRate
  <2>2. QED
    BY <2>1, <1>0, DefaultFacts, ChannelOf
<1>j. \A trial \in Nat : JoinRate(region, trial) \in 0..MaxUp(region)
  BY <1>0, JoinRates
<1>1. CASE Otaa
  <2>1. /\ channels' = DefaultChannels(region) /\ ~ctx'.joined /\ region' = region
        /\ SelectChannel(channels', JoinRate(region, 0), JoinRequestSize)
    BY <1>1, <1>0, <1>d DEF Otaa, ChannelsInv
  <2>2. tx'.rate \in 0..MaxUp(region)
    BY <2>1, <1>j, SelectedRate
  <2>3. QED
    BY <2>1, <2>2, <1>d DEF ChannelsInv
<1>2. CASE Forget
  <2>1. /\ channels' = DefaultChannels(region) /\ ~ctx'.joined /\ UNCHANGED <<region, state>> /\ state = "IDLE"
    BY <1>2, <1>d DEF Forget
  <2>2. QED
    BY <2>1, <1>d DEF ChannelsInv
<1>3. CASE Data
  <2>1. /\ op' = "DATA" /\ UNCHANGED <<region, ctx, channels>> /\ IsAvailable(channels, ctx.rate) # {}
        /\ tx'.rate = ctx.rate
    BY <1>3, SelectedRate DEF Data
  <2>2. PICK ch \in DOMAIN channels : ctx.rate \in channels[ch].minRate..channels[ch].maxRate
    BY <2>1 DEF IsAvailable
  <2>3. ctx.rate \in 0..MaxUp(region)
    <3>1. channels[ch].minRate \in Nat /\ channels[ch].maxRate \in 0..MaxUp(region) /\ MaxUp(region) \in Nat
      BY <1>0 DEF ChannelsInv, MaxUp, AllRegions, EU
    <3>2. QED
      BY <2>2, <3>1
  <2>4. QED
    BY <2>1, <2>3, <1>0 DEF ChannelsInv
<1>4. CASE SetRate
  <2>1. UNCHANGED <<region, channels, op, state, tx>> /\ \E rate : ctx' = [ctx EXCEPT !.rate = rate]
    BY <1>4 DEF SetRate
  <2>2. ctx'.joined = ctx.joined
    BY <2>1, <1>0 DEF Contexts
  <2>3. QED
    BY <2>1, <2>2, <1>0 DEF ChannelsInv
<1>5. ASSUME NEW late \in Lates, TxComplete(late) \/ OpenRX1(late) PROVE ChannelsInv'
  <2>1. state # "IDLE" /\ UNCHANGED <<region, ctx, channels, op, tx>>
    BY <1>5 DEF TxComplete, OpenRX1
  <2>2. QED
    BY <2>1, <1>0 DEF ChannelsInv
<1>6. ASSUME NEW late \in Lates, OpenRX2(late) PROVE ChannelsInv'
  <2>1. /\ state # "IDLE" /\ UNCHANGED <<region, ctx, channels>>
        /\ UNCHANGED <<op, tx>> \/ (state' = "IDLE" /\ op' = "NONE")
    BY <1>6 DEF OpenRX2, Idle
  <2>2. QED
    BY <2>1, <1>0 DEF ChannelsInv
<1>7. CASE RX1Timeout
  <2>1. state # "IDLE" /\ UNCHANGED <<region, ctx, channels, op, tx>>
    BY <1>7 DEF RX1Timeout
  <2>2. QED
    BY <2>1, <1>0 DEF ChannelsInv
<1>8. CASE RX2Timeout
  <2>1. UNCHANGED <<region, ctx, channels>>
    BY <1>8 DEF RX2Timeout
  <2>2. CASE op = "JOINING"
    <3>1. /\ op' = op /\ trials' = trials + 1
          /\ SelectChannel(channels, JoinRate(region, trials'), JoinRequestSize)
      BY <1>8, <2>2 DEF RX2Timeout
    <3>2. tx'.rate \in 0..MaxUp(region)
      BY <3>1, <1>0, <1>j, SelectedRate DEF TypeInv
    <3>3. QED
      BY <2>1, <3>1, <3>2, <1>0 DEF ChannelsInv
  <2>3. CASE op # "JOINING"
    <3>1. state' = "IDLE" /\ op' = "NONE"
      BY <1>8, <2>3 DEF RX2Timeout, Idle
    <3>2. QED
      BY <2>1, <3>1, <1>0 DEF ChannelsInv
  <2>4. QED
    BY <2>2, <2>3
<1>9. CASE JoinAccept
  <2>1. state' = "IDLE" /\ op' = "NONE" /\ region' = region
    BY <1>9 DEF JoinAccept, Heard, Idle
  <2>2. ctx'.joined
    <3>1. tx.rate \in SetRates \cup 0..15
      BY <1>9, <1>0 DEF JoinAccept, Heard, ChannelsInv, MaxUp, AllRegions, EU
    <3>2. Default(tx.rate) \in Contexts
      BY <3>1, <1>0, DefaultFacts
    <3>3. PICK offset \in Offsets, rx2 \in RX2Rates, delay \in Delays :
             ctx' = [Default(tx.rate) EXCEPT !.joined = TRUE, !.rx1DROffset = offset,
                        !.rx2DataRate = rx2, !.rx1Delay = IF delay = 0 THEN 1 ELSE delay]
      BY <1>9 DEF JoinAccept
    <3>4. QED
      BY <3>2, <3>3 DEF Contexts
  <2>3. \/ channels' = DefaultChannels(region)
        \/ \E freqs : channels' = ProcessCFList(region, DefaultChannels(region), freqs)
    BY <1>9 DEF JoinAccept
  <2>4. \A ch \in DOMAIN channels' : /\ channels'[ch].minRate \in Nat
                                     /\ channels'[ch].maxRate \in 0..MaxUp(region)
    <3>1. CASE channels' = DefaultChannels(region)
      BY <3>1, <1>d
    <3>2. ASSUME NEW freqs, channels' = ProcessCFList(region, DefaultChannels(region), freqs),
                 NEW ch \in DOMAIN channels'
          PROVE  /\ channels'[ch].minRate \in Nat
                 /\ channels'[ch].maxRate \in 0..MaxUp(region)
      <4>1. CASE ~IsDynamic(region)
        BY <4>1, <3>2, <1>d DEF ProcessCFList
      <4>2. CASE IsDynamic(region)
        <5>1. /\ ch \in DOMAIN DefaultChannels(region)
              /\ channels'[ch] = IF ch \in 3..7 THEN SetChannel(freqs[ch - 2], 0, 5)
                                 ELSE DefaultChannels(region)[ch]
          BY <4>2, <3>2 DEF ProcessCFList
        <5>2. \A freq : SetChannel(freq, 0, 5).minRate = 0 /\ SetChannel(freq, 0, 5).maxRate = 5
          BY DEF SetChannel, Channel
        <5>3. MaxUp(region) = 5
          BY <4>2 DEF MaxUp, IsDynamic, EU
        <5>4. QED
          BY <5>1, <5>2, <5>3, <1>d
      <4>3. QED
        BY <4>1, <4>2
    <3>3. QED
      BY <2>3, <3>1, <3>2
  <2>5. QED
    BY <2>1, <2>2, <2>4 DEF ChannelsInv
<1>10. CASE Downlink
  <2>1. state' = "IDLE" /\ op' = "NONE" /\ UNCHANGED <<region, channels>>
        /\ \E delay : ctx' = [ctx EXCEPT !.rx1Delay = delay]
    BY <1>10 DEF Downlink, Heard, Idle
  <2>2. ctx'.joined = ctx.joined
    BY <2>1, <1>0 DEF Contexts
  <2>3. QED
    BY <2>1, <2>2, <1>0 DEF ChannelsInv
<1>11. CASE UNCHANGED vars
  BY <1>11, <1>0 DEF vars, ChannelsInv
<1>12. QED
  BY <1>1, <1>2, <1>3, <1>4, <1>5, <1>6, <1>7, <1>8, <1>9, <1>10, <1>11 DEF Next

\* The timers are set from the end of the uplink although they are set late.
LEMMA TxCompleteStep ==
    ASSUME IInv, NEW late \in Lates, TxComplete(late)
    PROVE  ScheduleInv'
<1> DEFINE first   == Latest(WaitSeconds)
           second  == first + sys.tps + sys.eps
           before1 == sys.advance + late + Extra1 * Period1
           before2 == sys.advance + late + Extra2 * Period2
<1>1. /\ UNCHANGED <<region, sys, ctx, op, tx>>
      /\ slots' = [margin1 |-> Margin(Extra1, Period1), symbols1 |-> (8 + Extra1) % 256,
                   margin2 |-> Margin(Extra2, Period2), symbols2 |-> (8 + Extra2) % 256]
      /\ \/ state' = "WAIT_RX1" /\ waitA' = late + first - before1 /\ waitB' = late + second - before2
         \/ /\ state' = "WAIT_RX2"
            /\ IF before2 <= second THEN waitB' = late + second - before2 ELSE waitB' = late
  BY DEF TxComplete, Latest, SecondSlot, CanSchedule, Rate1, Period1, Period2, Extra1, Extra2
<1>2. /\ Extra1' = Extra1 /\ Period1' = Period1 /\ Open1' = Open1
      /\ Extra2' = Extra2 /\ Period2' = Period2 /\ Open2' = Open2 /\ sys' = sys
  BY <1>1, SameWindows
<1>3. /\ sys.tps \in Nat /\ sys.eps \in Nat /\ sys.advance \in Nat /\ late \in Nat
      /\ first \in Nat /\ Extra1 * Period1 \in Nat /\ Extra2 * Period2 \in Nat
      /\ Open1 = first - Extra1 * Period1 /\ Open2 = second - Extra2 * Period2
  BY WindowFacts, ClockFacts, WindowsAssumption DEF IInv, TypeInv, Open1, Open2
<1> HIDE DEF first
<1>4. /\ late + first - before1 = Open1 - sys.advance
      /\ late + second - before2 = Open2 - sys.advance
      /\ ~(before2 <= second) => late >= Open2 - sys.advance
      /\ Open2 - sys.advance \in Int
  BY <1>3
<1> HIDE DEF second, before1, before2
<1>5. \/ state' = "WAIT_RX1" /\ waitA' = Open1 - sys.advance /\ waitB' = Open2 - sys.advance
      \/ state' = "WAIT_RX2" /\ waitB' \in Int /\ waitB' >= Open2 - sys.advance
  BY <1>1, <1>3, <1>4
<1>6. QED
  BY <1>1, <1>2, <1>5 DEF ScheduleInv, Margin

LEMMA OpenRX1Step ==
    ASSUME IInv, NEW late \in Lates, OpenRX1(late)
    PROVE  ScheduleInv'
<1>1. /\ state = "WAIT_RX1" /\ now' = waitA + late /\ UNCHANGED <<region, sys, ctx, op, tx, waitB, slots>>
      /\ waitA = Open1 - sys.advance /\ waitB = Open2 - sys.advance
      /\ slots = [margin1 |-> Margin(Extra1, Period1), symbols1 |-> (8 + Extra1) % 256,
                  margin2 |-> Margin(Extra2, Period2), symbols2 |-> (8 + Extra2) % 256]
  BY DEF OpenRX1, IInv, ScheduleInv
<1>2. /\ Rate1' = Rate1 /\ Extra1' = Extra1 /\ Period1' = Period1 /\ Open1' = Open1
      /\ Extra2' = Extra2 /\ Period2' = Period2 /\ Open2' = Open2 /\ sys' = sys
      /\ ConvertRate(region, Rate1)' = ConvertRate(region, Rate1)
  BY <1>1, SameWindows
<1>3. /\ Open1 \in Int /\ Open2 \in Int /\ sys.advance \in Nat /\ late \in Nat
      /\ Open2 - sys.advance \in Int
  BY WindowFacts, ClockFacts, WindowsAssumption DEF IInv, TypeInv
<1>4. CASE late <= slots.margin1
  <2>1. /\ state' = "RX1"
        /\ Listen(Rate1, RX1Freq(region, tx.freq, tx.ch), slots.symbols1)
    BY <1>4 DEF OpenRX1, Rate1
  <2>2. /\ radio'.sf = ConvertRate(region, Rate1).sf /\ radio'.bw = ConvertRate(region, Rate1).bw
        /\ radio'.timeout = slots.symbols1 /\ radio'.at = now' + sys.advance
    BY <2>1 DEF Listen
  <2>3. now' + sys.advance = Open1 + late
    BY <1>1, <1>3
  <2>4. slots.margin1 \in Nat
    BY <1>1, WindowFacts DEF Margin, IInv
  <2>5. radio'.at \in Int /\ Open1 <= radio'.at /\ radio'.at <= Open1 + slots.margin1
    BY <2>2, <2>3, <2>4, <1>3, <1>4
  <2>6. QED
    BY <2>1, <2>2, <2>5, <1>1, <1>2 DEF ScheduleInv, Margin
<1>5. CASE ~(late <= slots.margin1)
  <2>1. state' = "WAIT_RX2"
    BY <1>5 DEF OpenRX1
  <2>2. QED
    BY <2>1, <1>1, <1>2, <1>3 DEF ScheduleInv, Margin
<1>6. QED
  BY <1>4, <1>5

LEMMA OpenRX2Step ==
    ASSUME IInv, NEW late \in Lates, OpenRX2(late)
    PROVE  ScheduleInv'
<1> DEFINE due == IF waitB > now THEN waitB ELSE now
<1>1. /\ state = "WAIT_RX2" /\ UNCHANGED <<region, sys, ctx>>
      /\ waitB \in Int /\ waitB >= Open2 - sys.advance
      /\ slots = [margin1 |-> Margin(Extra1, Period1), symbols1 |-> (8 + Extra1) % 256,
                  margin2 |-> Margin(Extra2, Period2), symbols2 |-> (8 + Extra2) % 256]
  BY DEF OpenRX2, IInv, ScheduleInv
<1>2. CASE state' = "IDLE"
  BY <1>2 DEF ScheduleInv
<1>3. CASE state' # "IDLE"
  <2>1. /\ state' = "RX2" /\ now' = due + late /\ UNCHANGED <<op, tx, slots>>
        /\ Listen(ctx.rx2DataRate, ctx.rx2Freq, slots.symbols2)
    BY <1>3 DEF OpenRX2, Idle
  <2>2. /\ Extra1' = Extra1 /\ Period1' = Period1 /\ Open1' = Open1
        /\ Extra2' = Extra2 /\ Period2' = Period2 /\ Open2' = Open2
    BY <2>1, <1>1, SameWindows
  <2>3. /\ radio'.sf = ConvertRate(region, ctx.rx2DataRate).sf
        /\ radio'.bw = ConvertRate(region, ctx.rx2DataRate).bw
        /\ radio'.timeout = slots.symbols2 /\ radio'.at = now' + sys.advance
    BY <2>1 DEF Listen
  <2>4. radio'.sf \in 7..12 /\ radio'.bw \in {125, 250, 500}
    BY <2>3, WindowFacts, RateFacts DEF IInv
  <2>5. radio'.at \in Int /\ Open2 <= radio'.at
    <3>1. Open2 \in Int /\ sys.advance \in Nat /\ late \in Nat /\ now \in Int
      BY WindowFacts, ClockFacts, WindowsAssumption DEF IInv, TypeInv
    <3>2. due \in Int /\ due >= waitB
      BY <3>1, <1>1
    <3> HIDE DEF due
    <3>3. QED
      BY <3>1, <3>2, <2>1, <2>3, <1>1
  <2>6. QED
    BY <2>1, <2>2, <2>3, <2>4, <2>5, <1>1 DEF ScheduleInv, Margin
<1>4. QED
  BY <1>2, <1>3

LEMMA ScheduleStep == IInv /\ [Next]_vars => ScheduleInv'
<1> SUFFICES ASSUME IInv, [Next]_vars PROVE ScheduleInv'
  OBVIOUS
<1>1. CASE state' \in {"IDLE", "TX"}
  BY <1>1 DEF ScheduleInv
<1>2. CASE RX1Timeout
  <2>1. /\ state = "RX1" /\ state' = "WAIT_RX2" /\ UNCHANGED <<region, sys, ctx, op, tx, waitB, slots>>
    BY <1>2 DEF RX1Timeout
  <2>2. /\ Extra1' = Extra1 /\ Period1' = Period1 /\ Open1' = Open1
        /\ Extra2' = Extra2 /\ Period2' = Period2 /\ Open2' = Open2
    BY <2>1, SameWindows
  <2>3. Open2 - sys.advance \in Int
    BY WindowFacts, ClockFacts DEF IInv, TypeInv
  <2>4. QED
    BY <2>1, <2>2, <2>3 DEF IInv, ScheduleInv, Margin
<1>3. CASE UNCHANGED vars
  <2>1. UNCHANGED <<region, sys, ctx, op, tx, state, waitA, waitB, slots, radio>>
    BY <1>3 DEF vars
  <2>2. /\ Rate1' = Rate1 /\ Extra1' = Extra1 /\ Period1' = Period1 /\ Open1' = Open1
        /\ Extra2' = Extra2 /\ Period2' = Period2 /\ Open2' = Open2
        /\ ConvertRate(region, Rate1)' = ConvertRate(region, Rate1)
    BY <2>1, SameWindows
  <2>3. QED
    BY <2>1, <2>2 DEF IInv, ScheduleInv, Margin
<1>4. CASE Otaa \/ Forget \/ Data \/ SetRate
  BY <1>4, <1>1 DEF Otaa, Forget, Data, SetRate, Transmit
<1>5. CASE RX2Timeout \/ JoinAccept \/ Downlink
  BY <1>5, <1>1 DEF RX2Timeout, JoinAccept, Downlink, Heard, Idle, Transmit
<1>6. QED
  BY <1>2, <1>3, <1>4, <1>5, TxCompleteStep, OpenRX1Step, OpenRX2Step DEF Next

\* What the windows of a request are, in every state.
THEOREM InvariantHolds == Spec => []IInv
<1>1. IInv /\ [Next]_vars => IInv'
  BY TypeStep, ChannelsStep, ScheduleStep DEF IInv
<1>2. QED
  BY <1>1, InitInv, PTL DEF Spec

-----------------------------------------------------------------------------
(***************************************************************************)
(* The theorems.                                                           *)
(***************************************************************************)
\* Every attempt to join has a channel in the region's default plan, at whatever
\* rate JoinRate() chooses for it, however many attempts and sessions came before.
THEOREM JoinsFindChannels == Spec => []JoinFindsChannel
<1>1. ASSUME IInv PROVE JoinFindsChannel
  <2>1. /\ ~ctx.joined => channels = DefaultChannels(region)
        /\ op = "JOINING" => ~ctx.joined
        /\ trials \in Nat /\ region \in AllRegions
    BY <1>1, WindowFacts DEF IInv, ChannelsInv, TypeInv
  <2>2. \A trial \in Nat : IsAvailable(DefaultChannels(region), JoinRate(region, trial)) # {}
    BY <2>1, JoinChannels
  <2>3. trials + 1 \in Nat /\ 0 \in Nat
    BY <2>1
  <2>4. QED
    BY <2>1, <2>2, <2>3 DEF JoinFindsChannel
<1>2. QED
  BY <1>1, InvariantHolds, PTL

\* How far a window opened between w ticks early and b ticks late misses a
\* slot of a ticks, give or take d.
LEMMA Apart ==
    ASSUME NEW a \in Int, NEW d \in Int, NEW w \in Int, NEW b \in Int, NEW c \in Int,
           NEW at \in Int, NEW x \in Int, NEW y \in Int,
           2 * d <= w, b <= x, y <= c, at <= a + d - w + b, a + d - w <= at
    PROVE  /\ at - (a - d) <= x
           /\ a + d + y <= at + (c + w)
  OBVIOUS

\* The radio's window for the slot after n seconds: it lasts e symbols of p ticks more
\* than eight, and opened e symbols before the slot at its latest, or up to three
\* symbols after that.
Opened(n, p, e) ==
    /\ radio.sf \in 7..12 /\ radio.bw \in {125, 250, 500} /\ radio.at \in Int
    /\ p = SymbolPeriod(radio.sf, radio.bw)
    /\ e = ExtraSymbols(n * sys.eps * 2, p) /\ radio.timeout = (8 + e) % 256
    /\ Latest(n) - e * p <= radio.at
    /\ ExtraFits(n, p) /\ OpenedInTime(n, p)

\* Such a window hears five symbols of the preamble.
LEMMA Hearing ==
    ASSUME sys \in Systems, NEW n \in 0..16, NEW p, NEW e, Opened(n, p, e)
    PROVE  Hears(n)
<1> DEFINE a == n * sys.tps
           d == n * sys.eps
           w == e * p
<1>1. sys.tps \in Nat /\ sys.eps \in Nat /\ a \in Nat /\ d \in Nat /\ n * sys.eps * 2 = 2 * d
  <2>1. \A x \in Nat : n * x \in Nat /\ n * x * 2 = 2 * (n * x)
    BY SMTT(30)
  <2>2. QED
    BY <2>1, ClockFacts
<1>2. /\ p \in Nat /\ p >= 2 /\ Symbols(1, radio.sf, radio.bw) = p
      /\ Symbols(3, radio.sf, radio.bw) \in Nat /\ 3 * p <= Symbols(3, radio.sf, radio.bw)
      /\ Symbols(5, radio.sf, radio.bw) \in Nat /\ Symbols(5, radio.sf, radio.bw) <= 8 * p
  BY SymbolFacts DEF Opened
<1>3. Latest(n) = a + d /\ Earliest(n) = a - d /\ e * p = w
  BY DEF Latest, Earliest
<1>f. n * sys.eps * 2 <= 247 * p
  BY DEF Opened, ExtraFits
<1>o. radio.at <= Latest(n) - (radio.timeout - 8) * p + 3 * p
  BY DEF Opened, OpenedInTime
<1> HIDE DEF a, d, w
<1>4. e \in 0..255 /\ w \in Nat /\ e <= 247 /\ 2 * d <= w
  <2> DEFINE f == 2 * d
  <2>1. f \in Nat /\ f <= 247 * p /\ e = ExtraSymbols(f, p)
    BY <1>1, <1>f DEF Opened
  <2>2. p \in Nat /\ p >= 2
    BY <1>2
  <2> HIDE DEF f
  <2>3. /\ ExtraSymbols(f, p) \in 0..255 /\ ExtraSymbols(f, p) * p \in Nat
        /\ ExtraSymbols(f, p) <= 247 /\ f <= ExtraSymbols(f, p) * p
    BY <2>1, <2>2, ExtraFacts
  <2>4. QED
    BY <2>1, <2>3, <1>3 DEF f
<1>5. radio.timeout = 8 + e /\ radio.timeout - 8 = e
  BY <1>4 DEF Opened
<1>6. radio.at <= a + d - w + 3 * p
  BY <1>1, <1>2, <1>3, <1>4, <1>5, <1>o
<1>7. radio.at \in Int /\ a + d - w <= radio.at
  BY <1>1, <1>2, <1>3, <1>4 DEF Opened
<1>8. WindowEnd = radio.at + (8 * p + w)
  <2>1. (8 + e) * p = 8 * p + w
    BY <1>2, <1>3, <1>4
  <2>2. QED
    BY <2>1, <1>2, <1>5 DEF WindowEnd
<1> DEFINE b == 3 * p
           c == 8 * p
<1>9. b \in Int /\ c \in Int /\ b <= Symbols(3, radio.sf, radio.bw)
      /\ Symbols(5, radio.sf, radio.bw) <= c
      /\ radio.at <= a + d - w + b /\ WindowEnd = radio.at + (c + w)
  BY <1>2, <1>6, <1>8
<1> HIDE DEF b, c
<1>10. /\ radio.at - (a - d) <= Symbols(3, radio.sf, radio.bw)
       /\ a + d + Symbols(5, radio.sf, radio.bw) <= WindowEnd
  BY <1>1, <1>2, <1>4, <1>7, <1>9, Apart
<1>11. QED
  BY <1>3, <1>10 DEF Hears

\* For every clock of at least 10 kHz, every error and every latency: both
\* windows are opened at the rate agreed and hear the downlink in their slots.
THEOREM SlotsAgreed == Spec => []SlotsAsAgreed
<1>1. ASSUME IInv PROVE Rx1RateByOffset
  <2> SUFFICES ASSUME state = "RX1", ctx.rx1DROffset < RX1Columns(region) PROVE Rx1RateByOffset
    BY DEF Rx1RateByOffset
  <2>1. /\ region \in AllRegions /\ tx.rate \in 0..MaxUp(region)
        /\ radio.sf = ConvertRate(region, Rate1).sf /\ radio.bw = ConvertRate(region, Rate1).bw
    BY <1>1, WindowFacts DEF IInv, ChannelsInv, ScheduleInv
  <2>2. ctx.rx1DROffset \in 0..(RX1Columns(region) - 1)
    BY <1>1 DEF IInv, TypeInv, Contexts, RX1Columns
  <2> DEFINE Between(low, n, high) == IF n < low THEN low ELSE IF n > high THEN high ELSE n
             less == tx.rate - ctx.rx1DROffset
             rate == CASE region \in EU           -> Between(0, less, 5)
                       [] region = "US_902_928"   -> Between(8, 10 + less, 13)
                       [] region = "AU_915_928"   -> Between(8, 8 + less, 13)
  <2>3. Rate1 = CASE region \in EU           -> Between(0, tx.rate - ctx.rx1DROffset, 5)
                  [] region = "US_902_928"   -> Between(8, 10 + tx.rate - ctx.rx1DROffset, 13)
                  [] region = "AU_915_928"   -> Between(8, 8 + tx.rate - ctx.rx1DROffset, 13)
    BY <2>1, <2>2, Rx1Table DEF Rate1
  <2>4. /\ 10 + tx.rate - ctx.rx1DROffset = 10 + less /\ 8 + tx.rate - ctx.rx1DROffset = 8 + less
    BY <2>1, <2>2 DEF MaxUp, AllRegions, EU, RX1Columns
  <2>5. Rate1 = rate
    <3> HIDE DEF Between
    <3>1. QED
      BY <2>3, <2>4
  <2>6. QED
    BY <2>1, <2>5 DEF Rx1RateByOffset
<1>2. ASSUME IInv PROVE SlotsHeard
  <2>1. sys \in Systems /\ WaitSeconds \in 0..16 /\ WaitSeconds + 1 \in 0..16
    BY <1>2, WindowFacts DEF IInv, TypeInv
  <2>2. ASSUME state = "RX1", ExtraFits(WaitSeconds, SymbolPeriod(radio.sf, radio.bw)),
               OpenedInTime(WaitSeconds, SymbolPeriod(radio.sf, radio.bw))
        PROVE  Hears(WaitSeconds)
    <3>1. /\ radio.sf = ConvertRate(region, Rate1).sf /\ radio.bw = ConvertRate(region, Rate1).bw
          /\ radio.timeout = (8 + Extra1) % 256
          /\ radio.at \in Int /\ Open1 <= radio.at
      BY <1>2, <2>2 DEF IInv, ScheduleInv
    <3>2. radio.sf \in 7..12 /\ radio.bw \in {125, 250, 500}
      BY <1>2, <3>1, WindowFacts, RateFacts DEF IInv
    <3>3. Period1 = SymbolPeriod(radio.sf, radio.bw)
      BY <3>1 DEF Period1, RatePeriod
    <3>4. Extra1 = ExtraSymbols(WaitSeconds * sys.eps * 2, Period1)
          /\ Latest(WaitSeconds) - Extra1 * Period1 <= radio.at
      BY <3>1 DEF Extra1, Open1
    <3>5. QED
      BY <2>1, <2>2, <3>1, <3>2, <3>3, <3>4, Hearing DEF Opened
  <2>3. ASSUME state = "RX2", Period2 = SymbolPeriod(radio.sf, radio.bw),
               ExtraFits(WaitSeconds + 1, Period2), OpenedInTime(WaitSeconds + 1, Period2)
        PROVE  Hears(WaitSeconds + 1)
    <3>1. /\ radio.sf \in 7..12 /\ radio.bw \in {125, 250, 500}
          /\ radio.timeout = (8 + Extra2) % 256
          /\ radio.at \in Int /\ Open2 <= radio.at
      BY <1>2, <2>3 DEF IInv, ScheduleInv
    <3>2. Extra2 = ExtraSymbols((WaitSeconds + 1) * sys.eps * 2, Period2)
          /\ Latest(WaitSeconds + 1) - Extra2 * Period2 <= radio.at
      BY <3>1 DEF Extra2, Open2
    <3>3. QED
      BY <2>1, <2>3, <3>1, <3>2, Hearing DEF Opened
  <2>4. QED
    BY <2>2, <2>3 DEF SlotsHeard, Period2
<1>3. QED
  BY <1>1, <1>2, InvariantHolds, PTL DEF SlotsAsAgreed

\* The error of the clock at which an empty first window may last into the second:
\* within 16 seconds, and before the radio is ready, less than half a second goes
\* astray.
Accurate == \A s \in Systems : 2 * (61 * s.eps + s.advance) <= s.tps

\* Where Accurate, an empty first window is over before WAITB runs out, for every
\* region, rate, offset and delay, and however late the window was opened.
THEOREM EmptyWindowEnds == ASSUME Accurate PROVE Spec => []EmptyWindowEndsFirst
<1>1. ASSUME IInv PROVE EmptyWindowEndsFirst
  <2> SUFFICES ASSUME state = "RX1" PROVE WindowEnd < waitB
    BY DEF EmptyWindowEndsFirst
  <2> DEFINE x == Extra1 * Period1
             y == Extra2 * Period2
             d == WaitSeconds * sys.eps
             t == Latest(WaitSeconds)
  <2>1. /\ radio.sf = ConvertRate(region, Rate1).sf /\ radio.bw = ConvertRate(region, Rate1).bw
        /\ radio.timeout = (8 + Extra1) % 256 /\ radio.at \in Int
        /\ radio.at <= Open1 + (3 + Extra1) * Period1
        /\ waitB = Open2 - sys.advance
    BY <1>1 DEF IInv, ScheduleInv, Margin
  <2>2. Symbols(1, radio.sf, radio.bw) = Period1
    <3>1. radio.sf \in 7..12 /\ radio.bw \in {125, 250, 500} /\ sys \in Systems
      BY <1>1, <2>1, WindowFacts, RateFacts DEF IInv, TypeInv
    <3>2. Period1 = SymbolPeriod(radio.sf, radio.bw)
      BY <2>1 DEF Period1, RatePeriod
    <3>3. QED
      BY <3>1, <3>2, SymbolFacts
  <2>3. /\ WaitSeconds \in 0..15 /\ Extra1 \in 0..255 /\ x \in Nat /\ y \in Nat /\ t \in Nat
        /\ Period1 \in Nat /\ 125000 * Period1 <= 4096 * sys.tps
        /\ Period2 \in Nat /\ 125000 * Period2 <= 4096 * sys.tps
        /\ x <= 2 * d + Period1 /\ y <= 2 * d + 2 * sys.eps + Period2
    BY <1>1, WindowFacts DEF IInv
  <2>o. /\ Open1 = t - x /\ Open2 = Latest(WaitSeconds + 1) - y
        /\ Latest(WaitSeconds + 1) = t + sys.tps + sys.eps
    BY <1>1, WindowFacts DEF IInv, Open1, Open2
  <2>4. /\ sys.tps \in Nat /\ sys.tps > 0 /\ sys.eps \in Nat /\ sys.advance \in Nat
        /\ 2 * (61 * sys.eps + sys.advance) <= sys.tps
    BY <1>1, WindowsAssumption DEF Accurate, IInv, TypeInv
  <2>5. d \in Nat /\ d <= 15 * sys.eps
    <3>1. \A n \in 0..15, z \in Nat : n * z \in Nat /\ n * z <= 15 * z
      BY DelayFacts
    <3>2. WaitSeconds \in 0..15 /\ sys.eps \in Nat
      BY <2>3, <2>4
    <3>3. QED
      BY <3>1, <3>2
  <2>6. WindowEnd <= radio.at + 8 * Period1 + x
    <3>1. radio.timeout \in 0..255 /\ radio.timeout <= 8 + Extra1
      BY <2>1, <2>3
    <3>2. \A m, n, p \in Nat : m <= n => m * p <= n * p /\ m * p \in Nat
      BY Monotone
    <3>3. radio.timeout * Period1 <= (8 + Extra1) * Period1 /\ radio.timeout * Period1 \in Nat
      <4>1. radio.timeout \in Nat /\ 8 + Extra1 \in Nat /\ Period1 \in Nat
        BY <3>1, <2>3
      <4>2. QED
        BY <4>1, <3>1, <3>2
    <3>4. (8 + Extra1) * Period1 = 8 * Period1 + x
      BY <2>3
    <3>5. WindowEnd = radio.at + radio.timeout * Period1
      BY <2>2 DEF WindowEnd
    <3> DEFINE z == radio.timeout * Period1
               e == 8 * Period1
    <3>6. z \in Int /\ e \in Int /\ z <= e + x
      BY <2>3, <3>3, <3>4
    <3> HIDE DEF x, z, e
    <3>7. \A at \in Int : at + z <= at + e + x
      BY <2>3, <3>6
    <3>8. radio.at + z <= radio.at + e + x
      BY <2>1, <3>7
    <3>9. QED
      BY <3>5, <3>8 DEF z, e
  <2>7. (3 + Extra1) * Period1 = 3 * Period1 + x
    BY <2>3
  <2>8. WindowEnd \in Int
    <3>1. radio.timeout \in Int
      BY <2>1, <2>3
    <3>2. QED
      BY <3>1, <2>1, <2>2, <2>3 DEF WindowEnd
  <2> HIDE DEF x, y, d, t
  <2>9. WindowEnd <= t + 11 * Period1 + x
    BY <2>1, <2>3, <2>6, <2>7, <2>8, <2>o
  <2>10. 12 * Period1 + Period2 + 4 * d + sys.eps + sys.advance < sys.tps
    <3>1. 125000 * (12 * Period1 + Period2) <= 53248 * sys.tps
      BY <2>3, <2>4
    <3>2. 2 * (4 * d + sys.eps + sys.advance) <= sys.tps
      BY <2>4, <2>5
    <3>3. QED
      BY <3>1, <3>2, <2>3, <2>4, <2>5
  <2>11. t + 11 * Period1 + x < t + sys.tps + sys.eps - y - sys.advance
    BY <2>3, <2>4, <2>5, <2>10
  <2>12. QED
    BY <2>1, <2>3, <2>4, <2>8, <2>9, <2>11, <2>o
<1>2. QED
  BY <1>1, InvariantHolds, PTL
-----------------------------------------------------------------------------
(***************************************************************************)
(* Time on the air.                                                        *)
(***************************************************************************)
\* The frame on the air and the off-time it was registered with.
Frame == ConvertRate(region, tx.rate)
AirInv ==
    state = "TX" =>
        /\ tx.size \in 13..255
        /\ off = TicksToMS(TxTime) * OffTimeFactor(region, GetBand(region, tx.freq))

LEMMA SentAir ==
    ASSUME NEW chs, NEW rate, NEW size \in 13..255, SelectChannel(chs, rate, size),
           Transmit, UNCHANGED <<region, sys>>
    PROVE  AirInv'
<1>1. tx'.size \in 13..255
  BY DEF SelectChannel
<1>2. off' = TicksToMS(TransmitTime(ConvertRate(region, tx'.rate).bw, ConvertRate(region, tx'.rate).sf,
                                    tx'.size, TRUE))
               * OffTimeFactor(region, GetBand(region, tx'.freq))
  BY DEF Transmit, RegisterTime
<1>3. TicksToMS(TxTime)' = TicksToMS(TransmitTime(ConvertRate(region, tx'.rate).bw,
                                        ConvertRate(region, tx'.rate).sf, tx'.size, TRUE))
  BY DEF TicksToMS, TxTime, TransmitTime, SymbolPeriod
<1>4. QED
  BY <1>1, <1>2, <1>3 DEF AirInv

LEMMA AirStep == ASSUME IInv, AirInv, [Next]_vars PROVE AirInv'
<1>1. CASE Otaa
  BY <1>1, SentAir DEF Otaa, JoinRequestSize
<1>2. CASE Data
  <2>1. PICK size \in {13, ConvertRate(region, ctx.rate).mtu + 5} :
             SelectChannel(channels, ctx.rate, size)
    BY <1>2 DEF Data
  <2>2. ConvertRate(region, ctx.rate).mtu \in 8..250
    BY WindowFacts, RateFacts DEF IInv
  <2>3. CASE size = 13
    BY <1>2, <2>1, <2>3, SentAir DEF Data
  <2>4. CASE size = ConvertRate(region, ctx.rate).mtu + 5
    BY <1>2, <2>1, <2>2, <2>4, SentAir DEF Data
  <2>5. QED
    BY <2>1, <2>3, <2>4
<1>3. CASE RX2Timeout
  <2>1. CASE op = "JOINING"
    BY <1>3, <2>1, SentAir DEF RX2Timeout, JoinRequestSize
  <2>2. CASE op # "JOINING"
    BY <1>3, <2>2 DEF RX2Timeout, Idle, AirInv
  <2>3. QED
    BY <2>1, <2>2
<1>4. CASE Forget \/ SetRate
  BY <1>4 DEF Forget, SetRate, AirInv
<1>5. CASE \E late \in Lates : TxComplete(late) \/ OpenRX1(late) \/ OpenRX2(late)
  <2>1. state' # "TX"
    BY <1>5 DEF TxComplete, OpenRX1, OpenRX2, Idle
  <2>2. QED
    BY <2>1 DEF AirInv
<1>6. CASE RX1Timeout \/ JoinAccept \/ Downlink
  BY <1>6 DEF RX1Timeout, JoinAccept, Downlink, Heard, Idle, AirInv
<1>7. CASE UNCHANGED vars
  <2>1. UNCHANGED <<region, sys, state, tx, off>>
    BY <1>7 DEF vars
  <2>2. TicksToMS(TxTime)' = TicksToMS(TxTime)
    BY <2>1 DEF TicksToMS, TxTime, TransmitTime, SymbolPeriod
  <2>3. OffTimeFactor(region, GetBand(region, tx.freq))' = OffTimeFactor(region, GetBand(region, tx.freq))
    BY <2>1
  <2>4. QED
    BY <2>1, <2>2, <2>3 DEF AirInv
<1>8. QED
  BY <1>1, <1>2, <1>3, <1>4, <1>5, <1>6, <1>7 DEF Next

\* A quotient, rounded down.
LEMMA Quotient ==
    ASSUME NEW x \in Nat, NEW d \in Nat, d > 0
    PROVE  x \div d \in Nat /\ d * (x \div d) <= x /\ x < d * (x \div d) + d
           /\ x % d \in 0..(d - 1) /\ x = d * (x \div d) + (x % d)
<1>1. x = d * (x \div d) + (x % d) /\ x % d \in 0..(d - 1) /\ x \div d \in Nat
  BY SMTT(60)
<1>2. d * (x \div d) \in Nat
  BY <1>1
<1>3. QED
  BY <1>1, <1>2

\* Both uses, from the numbers: a symbol of p ticks, of k chips at bw kHz, n symbols of
\* payload, a clock of t ticks a second.
LEMMA GuardNumbers ==
    ASSUME NEW p \in Nat, p >= 2, NEW n \in Nat
    PROVE  2 * (p * 12 + p \div 4 + n * p) > (13 + n) * (p + 1)
<1> DEFINE w == n * p
<1>1. w \in Nat /\ w >= 2 * n
  BY Monotone, SMTT(30)
<1>2. (13 + n) * (p + 1) = 13 * p + 13 + w + n
  BY SMTT(30)
<1>3. p \div 4 \in Nat
  OBVIOUS
<1> HIDE DEF w
<1>4. 2 * (p * 12 + p \div 4 + w) > 13 * p + 13 + w + n
  BY <1>1, <1>3
<1>5. QED
  BY <1>2, <1>4 DEF w

LEMMA MsNumbers ==
    ASSUME NEW t \in Nat, t > 0, NEW ticks \in Nat
    PROVE  LET ms == (ticks \div t) * 1000 + ((ticks % t) * 1000) \div t
           IN ms \in Nat /\ 1000 * ticks < t * ms + t
<1> DEFINE q == ticks \div t
           r == ticks % t
           s == (r * 1000) \div t
<1>1. q \in Nat /\ r \in Nat /\ ticks = t * q + r
  BY Quotient
<1> HIDE DEF q, r
<1>2. s \in Nat /\ r * 1000 < t * s + t
  BY <1>1, Quotient
<1> HIDE DEF s
<1>3. t * (q * 1000 + s) = 1000 * (t * q) + t * s
  BY <1>1, <1>2
<1>4. t * q \in Nat /\ t * s \in Nat
  BY <1>1, <1>2
<1>5. 1000 * ticks < 1000 * (t * q) + t * s + t
  BY <1>1, <1>2, <1>4
<1>6. q * 1000 + s \in Nat /\ 1000 * ticks < t * (q * 1000 + s) + t
  BY <1>1, <1>2, <1>3, <1>4, <1>5
<1>7. QED
  BY <1>6 DEF q, r, s

LEMMA AirNumbers ==
    ASSUME NEW t \in Nat, t >= 10000, NEW k \in Nat, NEW p \in Nat, NEW n \in Nat,
           NEW bw \in {125, 250, 500}, NEW ms \in Nat,
           97 * (k * t) <= 100 * (1000 * bw * p),
           1000 * (p * 12 + p \div 4 + n * p) < t * ms + t
    PROVE  100 * ms >= 97 * (((49 + 4 * n) * k) \div (4 * bw) - 2)
<1> DEFINE N == 49 + 4 * n
           c == N * p
           d == N * k
           air == d \div (4 * bw)
           T == p * 12 + p \div 4 + n * p
<1>1. N \in Nat /\ c \in Nat /\ d \in Nat /\ 4 * bw \in Nat /\ 4 * bw > 0
  OBVIOUS
<1>2. 4 * T >= c - 3 /\ T \in Nat
  <2>1. c = 49 * p + 4 * (n * p) /\ n * p \in Nat
    BY SMTT(30)
  <2>2. 4 * (p \div 4) >= p - 3 /\ p \div 4 \in Nat
    OBVIOUS
  <2>3. QED
    BY <2>1, <2>2
<1>3. air \in Nat /\ 4 * bw * air <= d
  BY <1>1, Quotient
<1>4. 1000 * T < t * ms + t
  OBVIOUS
<1>5. 97 * (d * t) <= 100 * (1000 * bw * c)
  <2> DEFINE u == k * t
             v == 1000 * bw * p
  <2>1. u \in Nat /\ v \in Nat /\ 97 * u <= 100 * v
    OBVIOUS
  <2>2. d * t = N * u /\ 1000 * bw * c = N * v
    BY <1>1, SMTT(30)
  <2> HIDE DEF u, v, N
  <2>3. (97 * u) * N <= (100 * v) * N
    BY <2>1, <1>1, Monotone
  <2>4. (97 * u) * N = 97 * (N * u) /\ (100 * v) * N = 100 * (N * v)
    BY <2>1, <1>1
  <2>5. QED
    BY <2>2, <2>3, <2>4
<1> HIDE DEF T, N, c, d, air
<1> DEFINE e == d * t
           f == t * air
           g == t * ms
<1>6. e \in Nat /\ f \in Nat /\ g \in Nat
  BY <1>1, <1>3
<1>7. 4 * bw * f <= e
  <2>1. (4 * bw * air) * t <= d * t
    BY <1>1, <1>3, Monotone
  <2>2. (4 * bw * air) * t = 4 * bw * f
    BY <1>3, SMTT(30)
  <2>3. QED
    BY <2>1, <2>2
<1> HIDE DEF e, f, g
<1>8. 97 * e <= 100000 * bw * c
  BY <1>1, <1>5, <1>6 DEF e
<1>9. 1000 * c < 4 * g + 4 * t + 3000
  BY <1>1, <1>2, <1>4, <1>6 DEF g
<1>10. 97 * f < 100 * g + 100 * t + 75000
  <2>1. CASE bw = 125
    BY <2>1, <1>1, <1>6, <1>7, <1>8, <1>9
  <2>2. CASE bw = 250
    BY <2>2, <1>1, <1>6, <1>7, <1>8, <1>9
  <2>3. CASE bw = 500
    BY <2>3, <1>1, <1>6, <1>7, <1>8, <1>9
  <2>4. QED
    BY <2>1, <2>2, <2>3
<1>11. 97 * f <= 100 * g + 194 * t
  BY <1>6, <1>10
<1>12. t * (97 * air) <= t * (100 * ms + 194)
  BY <1>3, <1>6, <1>11, SMTT(30) DEF f, g
<1>13. 97 * air <= 100 * ms + 194
  <2>1. SUFFICES ASSUME 97 * air >= 100 * ms + 195 PROVE FALSE
    BY <1>3
  <2>2. (100 * ms + 195) * t <= (97 * air) * t
    BY <2>1, <1>3, Monotone
  <2> DEFINE a == (100 * ms + 194) * t
             b == (97 * air) * t
  <2>3. (100 * ms + 195) * t = a + t /\ a \in Nat /\ b \in Nat
    BY <1>3, SMTT(30)
  <2>4. b <= a
    BY <1>3, <1>12, SMTT(30)
  <2>5. a + t <= b
    BY <2>2, <2>3
  <2> HIDE DEF a, b
  <2>6. QED
    BY <2>3, <2>4, <2>5
<1>14. QED
  BY <1>3, <1>13 DEF air, d, N

LEMMA PayloadType ==
    ASSUME NEW sf \in 7..12, NEW bw, NEW n \in 13..255
    PROVE  PayloadSymbols(sf, bw, n, TRUE) \in Nat
<1> DEFINE bits  == 8 * n - 4 * sf + 28 + 16 - 20
           denom == 4 * (sf - IF bw = 125 /\ sf \in {11, 12} THEN 2 ELSE 0)
<1>1. bits \in Nat /\ denom \in Nat /\ denom > 0
  OBVIOUS
<1>2. PayloadSymbols(sf, bw, n, TRUE)
        = 8 + (bits \div denom + IF bits % denom # 0 THEN 1 ELSE 0) * 5
  BY DEF PayloadSymbols
<1> HIDE DEF bits, denom
<1> DEFINE q == bits \div denom
           odd == bits % denom # 0
<1>3. q \in Nat
  BY <1>1, Quotient
<1>4. PayloadSymbols(sf, bw, n, TRUE) = 8 + (q + IF odd THEN 1 ELSE 0) * 5
  BY <1>2, Zenon
<1> DEFINE symbols == 8 + (q + IF odd THEN 1 ELSE 0) * 5
<1> HIDE DEF q
<1>5. symbols \in Nat
  BY <1>3
<1> HIDE DEF symbols
<1>6. QED
  BY <1>4, <1>5, Zenon DEF symbols

LEMMA FactorType ==
    ASSUME NEW r \in AllRegions, NEW band
    PROVE  OffTimeFactor(r, band) \in Nat /\ (r \notin EU => OffTimeFactor(r, band) = 0)
<1>1. \A i \in 0..4 : <<100, 100, 1000, 10, 100>>[i + 1] \in Nat
  OBVIOUS
<1>2. QED
  BY <1>1 DEF OffTimeFactor, AllRegions, EU

LEMMA FrameFacts ==
    ASSUME IInv, AirInv, state = "TX"
    PROVE  /\ region \in UsedRegions /\ region \in AllRegions /\ sys \in Systems
           /\ tx.rate \in 0..MaxUp(region)
           /\ Frame.sf \in 7..12 /\ Frame.bw \in {125, 250, 500}
           /\ PayloadSymbols(Frame.sf, Frame.bw, tx.size, TRUE) \in Nat
           /\ SymbolPeriod(Frame.sf, Frame.bw) \in Nat /\ SymbolPeriod(Frame.sf, Frame.bw) >= 2
           /\ Symbols(1, Frame.sf, Frame.bw) = SymbolPeriod(Frame.sf, Frame.bw)
           /\ TxTime = SymbolPeriod(Frame.sf, Frame.bw) * 12 + SymbolPeriod(Frame.sf, Frame.bw) \div 4
                          + PayloadSymbols(Frame.sf, Frame.bw, tx.size, TRUE)
                              * SymbolPeriod(Frame.sf, Frame.bw)
<1>1. region \in UsedRegions /\ region \in AllRegions /\ sys \in Systems /\ tx.rate \in 0..MaxUp(region)
  BY WindowsAssumption DEF IInv, TypeInv, ChannelsInv
<1>2. Frame.sf \in 7..12 /\ Frame.bw \in {125, 250, 500}
  BY <1>1, RateFacts DEF Frame
<1>3. PayloadSymbols(Frame.sf, Frame.bw, tx.size, TRUE) \in Nat
  <2>1. tx.size \in 13..255
    BY DEF AirInv
  <2> DEFINE Factors == 7..12
             Widths  == {125, 250, 500}
             Sizes   == 13..255
  <2>2. \A sf \in Factors, bw \in Widths, n \in Sizes : PayloadSymbols(sf, bw, n, TRUE) \in Nat
    BY PayloadType
  <2>3. Frame.sf \in Factors /\ Frame.bw \in Widths /\ tx.size \in Sizes
    BY <1>2, <2>1
  <2> HIDE DEF Factors, Widths, Sizes
  <2>4. QED
    BY <2>2, <2>3, Zenon
<1>4. /\ SymbolPeriod(Frame.sf, Frame.bw) \in Nat /\ SymbolPeriod(Frame.sf, Frame.bw) >= 2
      /\ Symbols(1, Frame.sf, Frame.bw) = SymbolPeriod(Frame.sf, Frame.bw)
  BY <1>1, <1>2, SymbolFacts
<1>5. TxTime = TransmitTime(Frame.bw, Frame.sf, tx.size, TRUE)
  BY DEF TxTime, Frame
<1>6. TxTime = SymbolPeriod(Frame.sf, Frame.bw) * 12 + SymbolPeriod(Frame.sf, Frame.bw) \div 4
                 + PayloadSymbols(Frame.sf, Frame.bw, tx.size, TRUE) * SymbolPeriod(Frame.sf, Frame.bw)
  BY <1>5, Zenon DEF TransmitTime
<1>7. QED
  BY <1>1, <1>2, <1>3, <1>4, <1>6

\* Where uplinks cost off-time, a symbol of k chips is measured well enough.
LEMMA SymbolMeasured ==
    ASSUME FineClocks, IInv, AirInv, state = "TX", region \in EU
    PROVE  97 * (2^Frame.sf * sys.tps) <= 100 * (1000 * Frame.bw * SymbolPeriod(Frame.sf, Frame.bw))
<1> DEFINE chips == 2^Frame.sf * sys.tps
           hz == Frame.bw * 1000
<1>1. sys \in Systems /\ region \in UsedRegions \cap EU /\ tx.rate \in 0..5
      /\ Frame.sf \in 7..12 /\ Frame.bw \in {125, 250, 500}
  <2>1. tx.rate \in 0..MaxUp(region) /\ MaxUp(region) = 5
    BY FrameFacts DEF MaxUp, EU
  <2>2. QED
    BY <2>1, FrameFacts
<1>2. chips % hz <= 3 * (chips \div 100)
  BY <1>1 DEF FineClocks, Frame
<1>3. chips \in Nat /\ hz \in Nat /\ hz > 0
  <2>1. sys.tps \in Nat /\ 2^Frame.sf = 8 * 2^(Frame.sf - 3) /\ 2^(Frame.sf - 3) \in 16..512
    BY <1>1, ClockFacts, Powers
  <2>2. QED
    BY <1>1, <2>1
<1>4. SymbolPeriod(Frame.sf, Frame.bw) = chips \div hz
  BY DEF SymbolPeriod, BwToNumber
<1>5. 1000 * Frame.bw = hz
  BY <1>1
<1> HIDE DEF chips, hz
<1>6. chips = hz * (chips \div hz) + (chips % hz) /\ chips \div hz \in Nat /\ chips % hz \in Nat
      /\ 100 * (chips \div 100) <= chips /\ chips \div 100 \in Nat
  BY <1>3, Quotient
<1>7. hz * (chips \div hz) \in Nat
  BY <1>3, <1>6
<1>8. 97 * chips <= 100 * (hz * (chips \div hz))
  BY <1>2, <1>3, <1>6, <1>7
<1>9. QED
  BY <1>4, <1>5, <1>8 DEF chips

\* LDL_MAC_timerSet() for twice the time of a frame outlasts the frame, and, where the clock
\* measures a symbol, registerTime() registers the off-time of its true length.
THEOREM AirtimeIsServed == ASSUME FineClocks PROVE Spec => []AirtimeServes
<1>1. Init => AirInv
  BY DEF Init, AirInv
<1>2. IInv /\ AirInv /\ [Next]_vars => AirInv'
  BY AirStep
<1>3. ASSUME IInv, AirInv PROVE AirtimeServes
  <2> SUFFICES ASSUME state = "TX" PROVE AirtimeServes
    BY DEF AirtimeServes, GuardOutlastsFrame, AirtimeRegistered
  <2> DEFINE n == PayloadSymbols(Frame.sf, Frame.bw, tx.size, TRUE)
             p == SymbolPeriod(Frame.sf, Frame.bw)
             factor == OffTimeFactor(region, GetBand(region, tx.freq))
             ms == TicksToMS(TxTime)
             air == ((49 + 4 * n) * 2^Frame.sf) \div (4 * Frame.bw)
  <2>1. /\ region \in AllRegions /\ sys \in Systems /\ n \in Nat /\ p \in Nat /\ p >= 2
        /\ Frame.sf \in 7..12 /\ Frame.bw \in {125, 250, 500}
        /\ Symbols(1, Frame.sf, Frame.bw) = p
        /\ TxTime = p * 12 + p \div 4 + n * p
    BY <1>3, FrameFacts
  <2>2. GuardOutlastsFrame
    <3>1. 2 * TxTime > (13 + n) * (Symbols(1, Frame.sf, Frame.bw) + 1)
      <4> HIDE DEF n, p
      <4>1. QED
        BY <2>1, GuardNumbers
    <3>2. QED
      BY <3>1 DEF GuardOutlastsFrame, Frame
  <2>3. 100 * off >= 97 * factor * (air - 2)
    <3>1. off = ms * factor /\ factor \in Nat /\ (region \notin EU => factor = 0)
      BY <1>3, <2>1, FactorType DEF AirInv
    <3>2. sys.tps \in Nat /\ sys.tps >= 10000
      BY <2>1, WindowsAssumption
    <3>3. 2^Frame.sf \in Nat
      <4>1. 2^(Frame.sf - 3) \in 16..512 /\ 2^Frame.sf = 8 * 2^(Frame.sf - 3)
        BY <2>1, Powers
      <4>2. QED
        BY <4>1
    <3>4. TxTime \in Nat
      <4> HIDE DEF n, p
      <4>1. p \div 4 \in Nat /\ n * p \in Nat
        BY <2>1
      <4>2. QED
        BY <2>1, <4>1
    <3>5. ms \in Nat /\ 1000 * TxTime < sys.tps * ms + sys.tps
      <4>1. sys.tps > 0
        BY <3>2
      <4>2. ms = (TxTime \div sys.tps) * 1000 + ((TxTime % sys.tps) * 1000) \div sys.tps
        BY DEF TicksToMS
      <4> HIDE DEF ms
      <4> DEFINE Ms(t, ticks) == (ticks \div t) * 1000 + ((ticks % t) * 1000) \div t
                 Near(t, ticks, m) == m \in Nat /\ 1000 * ticks < t * m + t
      <4>3. \A t, ticks \in Nat : t > 0 => Near(t, ticks, Ms(t, ticks))
        BY MsNumbers
      <4>4. sys.tps \in Nat /\ TxTime \in Nat /\ sys.tps > 0 /\ ms = Ms(sys.tps, TxTime)
        BY <3>2, <3>4, <4>1, <4>2
      <4> HIDE DEF Ms
      <4>5. Near(sys.tps, TxTime, ms)
        <5> HIDE DEF Near
        <5>1. QED
          BY <4>3, <4>4, Zenon
      <4>6. QED
        BY <4>5
    <3>6. air \in Int
      <4> DEFINE d == (49 + 4 * n) * 2^Frame.sf
                 b == 4 * Frame.bw
      <4> HIDE DEF n
      <4>1. d \in Nat /\ b \in Nat /\ b > 0
        BY <2>1, <3>3
      <4> HIDE DEF d, b
      <4>2. d \div b \in Nat
        BY <4>1, Quotient
      <4>3. QED
        BY <4>2 DEF d, b
    <3>7. CASE region \in EU
      <4>1. 97 * (2^Frame.sf * sys.tps) <= 100 * (1000 * Frame.bw * p)
        BY <1>3, <3>7, SymbolMeasured
      <4> DEFINE k == 2^Frame.sf
      <4> HIDE DEF n, p, ms, k
      <4>2. 1000 * (p * 12 + p \div 4 + n * p) < sys.tps * ms + sys.tps
        BY <2>1, <3>5
      <4>3. k \in Nat /\ 97 * (k * sys.tps) <= 100 * (1000 * Frame.bw * p)
        BY <3>3, <4>1 DEF k
      <4>4. 100 * ms >= 97 * (((49 + 4 * n) * k) \div (4 * Frame.bw) - 2)
        BY <2>1, <3>2, <3>5, <4>2, <4>3, AirNumbers
      <4>5. 100 * ms >= 97 * (air - 2)
        BY <4>4 DEF k
      <4> HIDE DEF air, factor
      <4>6. (100 * ms) * factor >= (97 * (air - 2)) * factor
        <5> DEFINE z == 100 * ms - 97 * (air - 2)
        <5>1. z \in Nat /\ 100 * ms = 97 * (air - 2) + z
          BY <3>5, <3>6, <4>5
        <5> HIDE DEF z
        <5>2. (97 * (air - 2) + z) * factor = (97 * (air - 2)) * factor + z * factor
          BY <3>1, <3>6, <5>1, SMTT(30)
        <5>3. z * factor \in Nat /\ (97 * (air - 2)) * factor \in Int
          BY <3>1, <3>6, <5>1
        <5>4. QED
          BY <5>1, <5>2, <5>3
      <4>7. 97 * factor * (air - 2) = (97 * (air - 2)) * factor /\ 100 * off = (100 * ms) * factor
        BY <3>1, <3>5, <3>6, SMTT(30)
      <4>8. QED
        BY <4>6, <4>7
    <3>8. CASE region \notin EU
      <4> HIDE DEF air, ms, factor
      <4>1. factor = 0 /\ off = 0
        BY <3>1, <3>5, <3>8
      <4>2. QED
        BY <4>1, <3>6
    <3>9. QED
      BY <3>7, <3>8
  <2>4. QED
    BY <2>2, <2>3 DEF AirtimeServes, AirtimeRegistered, Frame
<1>4. QED
  BY <1>1, <1>2, <1>3, InvariantHolds, PTL DEF Spec
=============================================================================
