------------------------------ MODULE MCRadio ------------------------------
(***************************************************************************)
(* An instance of Radio for TLC: every modulation a region sends with, the *)
(* fastest and the slowest in windows, and the extremes of power.          *)
(***************************************************************************)
EXTENDS Radio
Reg == INSTANCE Regions

Build(type, pa, polled) == [type |-> type, pa |-> pa, polled |-> polled]
BuildSet == {Build("SX1272", "RFO", TRUE), Build("SX1272", "BOOST", FALSE),
             Build("SX1276", "RFO", FALSE), Build("SX1276", "BOOST", TRUE)}

Modulations == UNION {{[sf |-> r.sf, bw |-> r.bw] : r \in {Reg!Rates(g)[i] : i \in DOMAIN Reg!Rates(g)}} : g \in Reg!AllRegions}
FreqOf(m) == IF m.bw = 500 THEN 923300000 ELSE IF m.bw = 250 THEN 433175000 ELSE 868100000

Tx(m, dbm, len) == [freq |-> FreqOf(m), sf |-> m.sf, bw |-> m.bw, dbm |-> dbm, len |-> len]
Rx(m, timeout, max) == [freq |-> FreqOf(m), sf |-> m.sf, bw |-> m.bw, timeout |-> timeout, max |-> max]
Fast == [sf |-> 7, bw |-> 125]

\* The highest and lowest power of the regions, also with the gain of an antenna
\* taken off, and a power between the steps of an amplifier.
Dbms == {Reg!TXPower("US_902_928", 0), Reg!TXPower("EU_863_870", 7) - 350, Reg!TXPower("EU_433", 0), 1650, 1999}
TxSet == {Tx(m, 1400, 23) : m \in Modulations} \cup {Tx(Fast, dbm, 255) : dbm \in Dbms}
RxSet == {Rx(m, 8, 64) : m \in {n \in Modulations : n.bw = 250 \/ n.sf \in {11, 12}}} \cup {Rx(Fast, 255, 255)}
Lengths == {0, 17, 65}
Measured == {[rssi |-> -120, snr |-> -40], [rssi |-> -30, snr |-> 36]}

\* The theorem about settings is about these too.
ASSUME AskedAreAskable == Askable
=============================================================================
