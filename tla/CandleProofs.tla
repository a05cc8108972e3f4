---------------------------- MODULE CandleProofs ----------------------------
(***************************************************************************)
(* Proofs about how candles are kept and read. HistoricalSeed: a phase     *)
(* that succeeds leaves no gap in its range, and only the candle in        *)
(* progress is ever stored before it closed; both rest on what the pages   *)
(* of the phase under way have in common, however the exchange's clock     *)
(* moves between them. TechnicalAnalyst, for every market and any periods: *)
(* where the price of a signal is relative to its averages and to the      *)
(* recent swings.                                                          *)
(***************************************************************************)
EXTENDS HistoricalSeed, TechnicalAnalyst, DataFacts

Tasks == [market : STRING, tf : Timeframes, back : Nat \ {0}]

\* The types, and every phase looks back.
SeedTypes == SeedTypeOK /\ phases \in Seq(Tasks)

LEMMA SpanIsPositive ==
  ASSUME NEW tf \in Timeframes
  PROVE  Span[tf] \in Nat \ {0}
  BY SeedAssumption

LEMMA OldestType ==
  ASSUME SeedTypeOK, NEW tf \in Timeframes
  PROVE  Oldest(tf) \in Int /\ Oldest(tf) % Span[tf] = 0
<1> DEFINE b == Span[tf]
           q == (clock \div b) - Kept + 1
<1>1. b \in Nat \ {0}
  BY SpanIsPositive
<1>2. Oldest(tf) = q * b
  BY DEF Oldest
<1> HIDE DEF b
<1>3. clock \in Int /\ Kept \in Int
  BY SeedAssumption DEF SeedTypeOK
<1>4. clock \div b \in Int
  BY <1>1, <1>3, Division
<1>5. q \in Int
  BY <1>3, <1>4
<1> HIDE DEF q
<1>6. q * b = b * q /\ b * q \in Int
  BY <1>1, <1>5
<1>7. (b * q) % b = 0
  BY <1>1, <1>5, Multiples
<1> QED
  BY <1>2, <1>6, <1>7 DEF b

\* The first candle a request asks for: where a page starts, and what is served.
First(tf, from) ==
  Later(Later(0, ((from + Span[tf] - 1) \div Span[tf]) * Span[tf]), Oldest(tf))

LEMMA FirstFacts ==
  ASSUME SeedTypeOK, NEW tf \in Timeframes, NEW from \in Int
  PROVE  /\ First(tf, from) \in Nat /\ First(tf, from) % Span[tf] = 0 /\ from <= First(tf, from)
         /\ \A t \in Nat : t % Span[tf] = 0 /\ from <= t /\ Oldest(tf) <= t => First(tf, from) <= t
<1> DEFINE b == Span[tf]
           q == (from + b - 1) \div b
           asked == q * b
<1>1. b \in Nat \ {0}
  BY SpanIsPositive
<1>7. First(tf, from) = Later(Later(0, asked), Oldest(tf))
  BY DEF First
<1>8. Oldest(tf) \in Int /\ Oldest(tf) % b = 0
  BY OldestType
<1> SUFFICES /\ First(tf, from) \in Nat /\ First(tf, from) % b = 0 /\ from <= First(tf, from)
             /\ \A t \in Nat : t % b = 0 /\ from <= t /\ Oldest(tf) <= t => First(tf, from) <= t
  OBVIOUS
<1> HIDE DEF b
<1>2. from + b - 1 \in Int
  BY <1>1
<1>3. q \in Int
  BY <1>1, <1>2, Division
<1>4. asked \in Int /\ asked % b = 0
  <2>1. asked = b * q /\ b * q \in Int
    BY <1>1, <1>3
  <2>2. (b * q) % b = 0
    <3> HIDE DEF q
    <3> QED
      BY <1>1, <1>3, Multiples
  <2> HIDE DEF asked, q
  <2> QED
    BY <2>1, <2>2
<1>5. 0 % b = 0
  <2>1. b * 0 = 0
    BY <1>1
  <2> QED
    BY <1>1, <2>1, Multiples
<1>6. ASSUME NEW t \in Nat, t % b = 0, from <= t
      PROVE  asked <= t
  <2>1. t \div b \in Int /\ t = b * (t \div b)
    <3>1. t \div b \in Int /\ t = b * (t \div b) + (t % b)
      BY <1>1, Division
    <3> QED
      BY <1>6, <3>1, <1>1
  <2>2. (t + b - 1) \div b \in Int /\ q <= (t + b - 1) \div b
    BY <1>1, <1>2, <1>6, Division, DivisionMonotone
  <2>3. (t + b - 1) \div b <= t \div b
    <3>1. t + b - 1 = b * (t \div b) + (b - 1)
      BY <1>1, <2>1
    <3>2. (b * (t \div b) + (b - 1)) \div b = t \div b
      BY <1>1, <2>1, QuotientIs
    <3> QED
      BY <2>1, <3>1, <3>2
  <2>4. q <= t \div b
    BY <1>3, <2>1, <2>2, <2>3
  <2>5. b * q <= b * (t \div b)
    <3>1. (t \div b) - q \in Nat
      BY <1>3, <2>1, <2>4
    <3>2. b * ((t \div b) - q) \in Nat
      BY <1>1, <3>1
    <3>3. b * ((t \div b) - q) = b * (t \div b) - b * q
      BY <1>1, <1>3, <2>1
    <3> QED
      BY <1>1, <1>3, <2>1, <3>2, <3>3
  <2> QED
    BY <1>1, <1>3, <2>1, <2>5
<1>12. from <= asked
  <2>1. from + b - 1 = b * q + ((from + b - 1) % b) /\ (from + b - 1) % b \in 0..b - 1
    BY <1>1, <1>2, Division
  <2>2. asked = b * q /\ b * q \in Int
    BY <1>1, <1>3
  <2> HIDE DEF asked, q
  <2> QED
    BY <1>1, <2>1, <2>2
<1> HIDE DEF asked, q
<1>9. \/ First(tf, from) = 0 /\ asked <= 0 /\ Oldest(tf) <= 0
      \/ First(tf, from) = asked /\ asked >= 0 /\ Oldest(tf) <= asked
      \/ First(tf, from) = Oldest(tf) /\ Oldest(tf) >= 0 /\ Oldest(tf) >= asked
  BY <1>4, <1>7, <1>8 DEF Later
<1>10. First(tf, from) \in Nat /\ First(tf, from) % b = 0 /\ from <= First(tf, from)
  BY <1>4, <1>5, <1>8, <1>9, <1>12
<1>11. \A t \in Nat : t % b = 0 /\ from <= t /\ Oldest(tf) <= t => First(tf, from) <= t
  BY <1>4, <1>6, <1>8, <1>9
<1> QED
  BY <1>10, <1>11

-----------------------------------------------------------------------------
(* What a page holds.                                                      *)

\* A page is ascending from where it was asked for, its candles are known to have
\* closed or are in progress, and it is full or reaches the newest candle.
GoodPage(page, tf, from) ==
  /\ page \in Seq(Candles) /\ Len(page) <= PageLimit
  /\ \A i, j \in DOMAIN page : i < j => page[i].at < page[j].at
  /\ \A i \in DOMAIN page : from <= page[i].at
  /\ \A i \in DOMAIN page : page[i].closed \/ clock < page[i].at + Span[tf]
  /\ \A t \in Nat : t % Span[tf] = 0 /\ from <= t /\ Oldest(tf) <= t /\ t <= clock =>
       \/ \E i \in DOMAIN page : page[i].at = t
       \/ Len(page) = PageLimit /\ page[PageLimit].at < t

LEMMA PageIsGood ==
  ASSUME SeedTypeOK, NEW tf \in Timeframes, NEW from \in Int
  PROVE  GoodPage(Page(tf, from), tf, from)
<1> DEFINE b == Span[tf]
           f == First(tf, from)
           there == IF f > clock THEN 0 ELSE (clock - f) \div b + 1
           n == IF there < PageLimit THEN there ELSE PageLimit
           page == Page(tf, from)
<1>1. /\ b \in Nat \ {0} /\ clock \in Nat /\ PageLimit \in Nat \ {0}
      /\ f \in Nat /\ f % b = 0 /\ from <= f
  <2>1. f \in Nat /\ f % b = 0 /\ from <= f
    BY FirstFacts, Zenon
  <2>2. b \in Nat \ {0} /\ clock \in Nat /\ PageLimit \in Nat \ {0}
    BY SpanIsPositive, SeedAssumption DEF SeedTypeOK
  <2> QED
    BY <2>1, <2>2
<1>2. /\ Oldest(tf) \in Int
      /\ \A t \in Nat : t % b = 0 /\ from <= t /\ Oldest(tf) <= t => f <= t
  BY FirstFacts, OldestType
<1>3. page = [i \in 1..n |-> [at |-> f + (i - 1) * b, closed |-> f + (i - 1) * b + b <= clock]]
  BY DEF Page, First
<1> SUFFICES GoodPage(page, tf, from)
  OBVIOUS
<1>4. \A i \in Nat \ {0} : f + (i - 1) * b \in Nat
  <2> SUFFICES ASSUME NEW i \in Nat \ {0}
               PROVE  f + (i - 1) * b \in Nat
    OBVIOUS
  <2> HIDE DEF b, f
  <2>1. i - 1 \in Nat
    OBVIOUS
  <2>2. (i - 1) * b \in Nat
    BY <1>1, <2>1
  <2> QED
    BY <1>1, <2>2
<1> HIDE DEF page, f, b
<1>5. there \in Nat
  <2>1. ASSUME f <= clock
        PROVE  (clock - f) \div b \in Nat
    <3>1. clock - f \in Nat
      BY <1>1, <2>1
    <3>2. (clock - f) \div b \in Int /\ 0 \div b <= (clock - f) \div b /\ 0 \div b = 0
      <4>1. b * 0 = 0 /\ 0 \in Int
        BY <1>1
      <4>2. 0 \div b = 0
        BY <1>1, <4>1, Multiples
      <4> QED
        BY <1>1, <3>1, <4>1, <4>2, Division, DivisionMonotone
    <3> QED
      BY <3>2
  <2> QED
    BY <1>1, <2>1
<1> HIDE DEF there
<1>6. n \in Nat /\ n <= PageLimit /\ n <= there /\ (n = PageLimit \/ n = there)
  BY <1>1, <1>5
<1> HIDE DEF n
<1>7. /\ DOMAIN page = 1..n
      /\ \A i \in 1..n : /\ page[i].at = f + (i - 1) * b /\ page[i].at \in Nat
                         /\ page[i].closed = (page[i].at + b <= clock)
                         /\ page[i] \in Candles
  BY <1>3, <1>4, <1>6 DEF Candles
<1>8. page \in Seq(Candles) /\ Len(page) = n
  <2>1. page \in [1..n -> Candles]
    BY <1>3, <1>7
  <2> QED
    BY <1>6, <2>1, SeqDef, LenProperties
<1>9. \A i, j \in 1..n : i < j => page[i].at < page[j].at
  <2> SUFFICES ASSUME NEW i \in 1..n, NEW j \in 1..n, i < j
               PROVE  page[i].at < page[j].at
    OBVIOUS
  <2>1. i - 1 \in Nat /\ j - i - 1 \in Nat
    BY <1>6
  <2>2. (i - 1) * b \in Nat /\ (j - i - 1) * b \in Nat
    BY <1>1, <2>1
  <2>3. (j - 1) * b = (i - 1) * b + (j - i - 1) * b + b
    BY <1>1, <1>6
  <2>4. page[i].at = f + (i - 1) * b /\ page[j].at = f + (j - 1) * b
    BY <1>7
  <2>5. \A u, v, x, y, w \in Int : y = u + v + w /\ v >= 0 /\ w > 0 => x + u < x + y
    OBVIOUS
  <2>6. f + (i - 1) * b < f + (j - 1) * b
    <3>1. (i - 1) * b \in Int /\ (j - i - 1) * b \in Int /\ (j - 1) * b \in Int /\ b \in Int /\ f \in Int
          /\ (j - i - 1) * b >= 0 /\ b > 0
      BY <1>1, <1>6, <2>2
    <3> QED
      BY <2>3, <2>5, <3>1, Zenon
  <2> QED
    BY <2>4, <2>6
<1>12. \A i \in 1..n : from <= page[i].at
  <2> SUFFICES ASSUME NEW i \in 1..n
               PROVE  from <= page[i].at
    OBVIOUS
  <2>1. page[i].at = f + (i - 1) * b
    BY <1>7
  <2>2. (i - 1) * b \in Nat
    <3>1. i - 1 \in Nat
      BY <1>6
    <3> QED
      BY <1>1, <3>1
  <2> QED
    BY <1>1, <2>1, <2>2
<1>10. \A i \in 1..n : page[i].closed \/ clock < page[i].at + b
  <2>1. \A i \in 1..n : page[i].at + b <= clock \/ clock < page[i].at + b
    <3>1. \A i \in 1..n : page[i].at \in Nat
      BY <1>7
    <3>2. \A x \in Nat : x + b <= clock \/ clock < x + b
      BY <1>1
    <3> QED
      BY <3>1, <3>2
  <2> QED
    BY <1>7, <2>1, Zenon
<1>11. ASSUME NEW t \in Nat, t % b = 0, from <= t, Oldest(tf) <= t, t <= clock,
              ~ \E i \in 1..n : page[i].at = t
       PROVE  n = PageLimit /\ page[PageLimit].at < t
  <2>1. f <= t /\ f <= clock
    BY <1>1, <1>2, <1>11
  <2> DEFINE k == (t - f) \div b
  <2>2. k \in Nat /\ t = f + k * b
    <3>1. /\ t \div b \in Int /\ f \div b \in Int
          /\ t = b * (t \div b) + (t % b) /\ f = b * (f \div b) + (f % b)
      BY <1>1, Division
    <3>2. (t \div b) - (f \div b) \in Int /\ f \div b <= t \div b
      BY <1>1, <2>1, <3>1, DivisionMonotone
    <3>3. t = b * (t \div b) /\ f = b * (f \div b)
      BY <1>1, <1>11, <3>1
    <3>4. t - f = b * ((t \div b) - (f \div b))
      <4>1. \A u, v \in Int : b * u - b * v = b * (u - v)
        BY <1>1
      <4> QED
        BY <3>1, <3>3, <4>1
    <3>5. k = (t \div b) - (f \div b)
      <4>1. (b * ((t \div b) - (f \div b))) \div b = (t \div b) - (f \div b)
        BY <1>1, <3>2, Multiples
      <4> QED
        BY <3>4, <4>1
    <3> HIDE DEF k
    <3>6. k \in Nat /\ t - f = b * k
      BY <3>1, <3>2, <3>4, <3>5
    <3> QED
      BY <1>1, <3>6
  <2>3. k + 1 <= there
    <3>1. t - f \in Int /\ clock - f \in Int /\ t - f <= clock - f
      BY <1>1, <1>11
    <3>2. k <= (clock - f) \div b /\ (clock - f) \div b \in Int
      BY <1>1, <3>1, Division, DivisionMonotone
    <3> HIDE DEF k
    <3> QED
      BY <1>1, <2>1, <2>2, <3>2 DEF there
  <2> HIDE DEF k
  <2>4. k + 1 \notin 1..n
    <3>1. (k + 1) - 1 = k
      BY <2>2
    <3> QED
      BY <1>7, <1>11, <2>2, <3>1
  <2>5. n = PageLimit /\ n < k + 1
    BY <1>5, <1>6, <2>2, <2>3, <2>4
  <2>6. page[n].at = f + (n - 1) * b
    BY <1>1, <1>6, <1>7, <2>5
  <2>7. (n - 1) * b \in Nat /\ (k - n) * b \in Nat
    BY <1>1, <1>6, <2>2, <2>5
  <2>8. k * b = (n - 1) * b + (k - n) * b + b
    BY <1>1, <1>6, <2>2
  <2> QED
    BY <1>1, <2>2, <2>5, <2>6, <2>7, <2>8
<1> QED
  BY <1>6, <1>7, <1>8, <1>9, <1>10, <1>11, <1>12 DEF GoodPage, b

\* What one turn of the paging loop adds: what opens by `end`, up to the last of it
\* if it is a full page, which is later than where it was asked for, and everything
\* otherwise.
GoodBatch(batch, tf, from, end) ==
  /\ batch \in Seq(Candles)
  /\ \A i \in DOMAIN batch :
       batch[i].at <= end /\ (batch[i].closed \/ end < batch[i].at + Span[tf])
  /\ \A t \in Nat :
       /\ t % Span[tf] = 0 /\ from <= t /\ Oldest(tf) <= t /\ t <= end
       /\ Len(batch) < PageLimit \/ t <= batch[Len(batch)].at
       => \E i \in DOMAIN batch : batch[i].at = t
  /\ ~LastPage(batch) => from < batch[Len(batch)].at

LEMMA CandlesIn ==
  ASSUME NEW s \in Seq(Candles)
  PROVE  /\ Len(s) \in Nat /\ DOMAIN s = 1..Len(s)
         /\ \A i \in 1..Len(s) : s[i] \in Candles /\ s[i].at \in Nat
<1>1. s \in [1..Len(s) -> Candles] /\ Len(s) \in Nat /\ DOMAIN s = 1..Len(s)
  BY LenProperties
<1>2. \A c \in Candles : c.at \in Nat
  BY DEF Candles
<1>3. \A i \in 1..Len(s) : s[i] \in Candles
  BY <1>1
<1> QED
  BY <1>1, <1>2, <1>3

LEMMA UpToIsPrefix ==
  ASSUME NEW page \in Seq(Candles), NEW end \in Nat,
         \A i, j \in DOMAIN page : i < j => page[i].at < page[j].at
  PROVE  \E m \in 0..Len(page) :
           /\ UpTo(page, end) \in Seq(Candles) /\ Len(UpTo(page, end)) = m
           /\ \A i \in 1..m : UpTo(page, end)[i] = page[i] /\ page[i].at <= end
           /\ \A i \in 1..Len(page) : page[i].at <= end => i <= m
<1> DEFINE n == Len(page)
           D == {k \in 1..n : page[k].at <= end}
           batch == UpTo(page, end)
<1>1. n \in Nat /\ DOMAIN page = 1..n /\ \A i \in 1..n : page[i] \in Candles /\ page[i].at \in Nat
  BY CandlesIn
<1>2. \E m \in 0..n : D = 1..m
  <2>1. CASE D = {}
    <3>1. 0 \in 0..n /\ 1..0 = {}
      BY <1>1
    <3> QED
      BY <2>1, <3>1
  <2>2. CASE D # {}
    <3>1. D \in SUBSET (1..n)
      OBVIOUS
    <3>2. PICK m \in D : \A j \in D : m >= j
      <4> HIDE DEF D
      <4> QED
        BY <1>1, <2>2, <3>1, GreatestExists
    <3>3. m \in 1..n /\ page[m].at <= end
      BY <3>2
    <3>4. \A k \in 1..m : k \in D
      <4> SUFFICES ASSUME NEW k \in 1..m
                   PROVE  page[k].at <= end /\ k \in 1..n
        OBVIOUS
      <4>1. k \in 1..n /\ (k < m \/ k = m)
        BY <1>1, <3>3
      <4>2. k < m => page[k].at < page[m].at
        BY <1>1, <3>3, <4>1
      <4>3. page[k].at \in Nat /\ page[m].at \in Nat
        BY <1>1, <3>3, <4>1
      <4> QED
        BY <3>3, <4>1, <4>2, <4>3
    <3>5. D \subseteq 1..m
      <4> SUFFICES ASSUME NEW k \in D
                   PROVE  k \in 1..m
        OBVIOUS
      <4>1. k \in 1..n /\ m >= k
        BY <3>2
      <4> QED
        BY <1>1, <3>3, <4>1
    <3>6. D = 1..m
      <4> HIDE DEF D
      <4> QED
        BY <3>4, <3>5
    <3> QED
      BY <1>1, <3>3, <3>6
  <2> QED
    BY <2>1, <2>2
<1>3. PICK m \in 0..n : D = 1..m
  BY <1>2
<1>4. batch = [i \in D |-> page[i]]
  BY <1>1 DEF UpTo
<1>5. \A i \in 1..m : i \in 1..n /\ page[i].at <= end
  BY <1>3
<1>6. \A i \in 1..n : page[i].at <= end => i \in 1..m
  BY <1>3
<1> HIDE DEF D, batch, n
<1>7. batch = [i \in 1..m |-> page[i]]
  BY <1>3, <1>4
<1>8. batch \in [1..m -> Candles]
  BY <1>1, <1>5, <1>7
<1>9. m \in Nat
  BY <1>1
<1>10. batch \in Seq(Candles) /\ Len(batch) = m
  BY <1>8, <1>9, SeqDef, LenProperties
<1>11. \A i \in 1..n : page[i].at <= end => i <= m
  BY <1>1, <1>6, <1>9
<1>12. \A i \in 1..m : batch[i] = page[i]
  BY <1>7
<1> QED
  BY <1>5, <1>10, <1>11, <1>12 DEF batch, n

LEMMA BatchIsGood ==
  ASSUME SeedTypeOK, NEW tf \in Timeframes, NEW from \in Int, NEW end \in Nat, end <= clock
  PROVE  GoodBatch(UpTo(Page(tf, from), end), tf, from, end)
<1> DEFINE page == Page(tf, from)
           batch == UpTo(page, end)
           n == Len(page)
<1>1. GoodPage(page, tf, from)
  BY PageIsGood
<1> HIDE DEF page
<1>2. /\ page \in Seq(Candles) /\ n <= PageLimit
      /\ \A i, j \in DOMAIN page : i < j => page[i].at < page[j].at
      /\ \A i \in DOMAIN page : from <= page[i].at
      /\ \A i \in DOMAIN page : page[i].closed \/ clock < page[i].at + Span[tf]
      /\ \A t \in Nat : t % Span[tf] = 0 /\ from <= t /\ Oldest(tf) <= t /\ t <= clock =>
           \/ \E i \in DOMAIN page : page[i].at = t
           \/ n = PageLimit /\ page[PageLimit].at < t
  BY <1>1 DEF GoodPage
<1>3. PICK m \in 0..n : /\ batch \in Seq(Candles) /\ Len(batch) = m
                        /\ \A i \in 1..m : batch[i] = page[i] /\ page[i].at <= end
                        /\ \A i \in 1..n : page[i].at <= end => i <= m
  BY <1>2, UpToIsPrefix
<1> HIDE DEF batch
<1>4. /\ n \in Nat /\ DOMAIN page = 1..n /\ DOMAIN batch = 1..m
      /\ \A i \in 1..n : page[i].at \in Nat
  BY <1>2, <1>3, CandlesIn
<1> HIDE DEF n
<1>5. clock \in Nat /\ Span[tf] \in Nat /\ PageLimit \in Nat \ {0}
  BY SpanIsPositive, SeedAssumption DEF SeedTypeOK
<1>6. ASSUME NEW i \in 1..m
      PROVE  batch[i].at <= end /\ (batch[i].closed \/ end < batch[i].at + Span[tf])
  <2>1. i \in 1..n /\ batch[i] = page[i] /\ page[i].at <= end /\ page[i].at \in Nat
    BY <1>3, <1>4
  <2>2. page[i].closed \/ clock < page[i].at + Span[tf]
    BY <1>2, <1>4, <2>1
  <2>3. clock < page[i].at + Span[tf] => end < page[i].at + Span[tf]
    BY <1>5, <2>1
  <2>4. page[i].closed \/ end < page[i].at + Span[tf]
    BY <2>2, <2>3, Zenon
  <2> QED
    BY <2>1, <2>4, Zenon
<1>7. ASSUME NEW t \in Nat, t % Span[tf] = 0, from <= t, Oldest(tf) <= t, t <= end,
             m < PageLimit \/ t <= batch[m].at
      PROVE  \E i \in 1..m : batch[i].at = t
  <2>1. t <= clock
    BY <1>5, <1>7
  <2>2. CASE \E i \in 1..n : page[i].at = t
    <3>1. PICK i \in 1..n : page[i].at = t
      BY <2>2
    <3>2. i <= m
      BY <1>3, <1>7, <3>1
    <3>3. i \in 1..m
      BY <1>4, <3>2
    <3> QED
      BY <1>3, <3>1, <3>3
  <2>3. CASE n = PageLimit /\ page[PageLimit].at < t
    <3>1. PageLimit \in 1..n
      BY <1>4, <1>5, <2>3
    <3>2. page[PageLimit].at \in Nat /\ page[PageLimit].at <= end
      BY <1>4, <1>7, <2>3, <3>1
    <3>3. m = PageLimit
      BY <1>3, <1>4, <1>5, <2>3, <3>1, <3>2
    <3>4. batch[m] = page[m]
      BY <1>3, <1>5, <3>3
    <3> QED
      BY <1>7, <2>3, <3>2, <3>3, <3>4
  <2>4. (\E i \in 1..n : page[i].at = t) \/ (n = PageLimit /\ page[PageLimit].at < t)
    BY <1>2, <1>4, <1>7, <2>1
  <2> QED
    BY <2>2, <2>3, <2>4
<1>8. ASSUME m >= PageLimit
      PROVE  from < batch[m].at
  <2>1. PageLimit > 1 /\ m \in Nat
    BY <1>4, SeedAssumption
  <2>2. 1 \in 1..n /\ m \in 1..n /\ m \in 1..m /\ 1 < m
    BY <1>3, <1>4, <1>5, <1>8, <2>1
  <2>3. from <= page[1].at /\ page[1].at < page[m].at /\ batch[m] = page[m]
    BY <1>2, <1>3, <1>4, <2>2
  <2>4. page[1].at \in Nat /\ page[m].at \in Nat
    BY <1>4, <2>2
  <2> QED
    BY <2>3, <2>4
<1>9. ~LastPage(batch) => from < batch[Len(batch)].at
  <2>1. m \in Nat /\ Len(batch) = m
    BY <1>3, <1>4
  <2>2. ~LastPage(batch) => m >= PageLimit
    BY <1>5, <2>1 DEF LastPage
  <2> QED
    BY <1>8, <2>1, <2>2
<1> QED
  BY <1>3, <1>4, <1>6, <1>7, <1>9 DEF GoodBatch, batch, page

-----------------------------------------------------------------------------
(* The invariant of the paging loop.                                       *)

Asked(t, phase) ==
  /\ t % Span[phase.tf] = 0 /\ Oldest(phase.tf) <= t
  /\ until - phase.back <= t /\ t <= until
Reached(t) == seedStage = "storing" \/ t < cursor \/ (t = cursor /\ got # <<>>)

\* What has been paged through so far is all there, however far the clock went on,
\* and only the candle in progress when the phase began may be an open one.
GotInv ==
  seedStage \in {"paging", "storing"} =>
    /\ until <= clock
    /\ seedStage = "paging" /\ got = <<>> => cursor < until
    /\ \A i \in DOMAIN got :
         got[i].at <= until /\ (got[i].closed \/ until < got[i].at + Span[Head(phases).tf])
    /\ \A t \in Nat : Asked(t, Head(phases)) /\ Reached(t) => \E i \in DOMAIN got : got[i].at = t

SeedInv == SeedTypes /\ GotInv

LEMMA PlansAreTasks ==
  /\ DeepPlan \in Seq(Tasks)
  /\ \A tf \in Timeframes : SinglePlan(tf) \in Seq(Tasks)
<1> DEFINE n == Len(Markets)
<1>1. n \in Nat /\ \A i \in 1..n : Markets[i] \in STRING
  BY SeedAssumption, LenProperties
<1> HIDE DEF n
<1>2. \A i \in 1..2 * n : i % 2 = 1 => (i + 1) \div 2 \in 1..n
  BY <1>1
<1>3. \A i \in 1..2 * n : i % 2 # 1 => i \div 2 \in 1..n
  BY <1>1
<1>4. \A m \in STRING, tf \in Timeframes, back \in Nat \ {0} : Phase(m, tf, back) \in Tasks
  BY DEF Phase, Tasks
<1>5. Deep \in Nat \ {0} /\ Recent \in Nat \ {0} /\ "1h" \in Timeframes /\ "15m" \in Timeframes
  BY SeedAssumption DEF Timeframes
<1>6. DeepPlan = [i \in 1..2 * n |-> IF i % 2 = 1 THEN Phase(Markets[(i + 1) \div 2], "1h", Deep)
                                     ELSE Phase(Markets[i \div 2], "15m", Recent)]
  BY DEF DeepPlan, n
<1>7. \A tf : SinglePlan(tf) = [i \in 1..n |-> Phase(Markets[i], tf, Deep)]
  BY DEF SinglePlan, n
<1>8. DeepPlan \in [1..2 * n -> Tasks] /\ 2 * n \in Nat
  <2>1. \A i \in 1..2 * n : i % 2 = 1 => Phase(Markets[(i + 1) \div 2], "1h", Deep) \in Tasks
    BY <1>1, <1>2, <1>4, <1>5
  <2>2. \A i \in 1..2 * n : i % 2 # 1 => Phase(Markets[i \div 2], "15m", Recent) \in Tasks
    BY <1>1, <1>3, <1>4, <1>5
  <2>3. 2 * n \in Nat
    BY <1>1
  <2> QED
    BY <1>6, <2>1, <2>2, <2>3
<1>9. \A tf \in Timeframes : SinglePlan(tf) \in [1..n -> Tasks]
  BY <1>1, <1>4, <1>5, <1>7
<1> QED
  BY <1>1, <1>8, <1>9, SeqDef

\* What the phase under way is.
LEMMA HeadIsTask ==
  ASSUME SeedTypes, phases # <<>>
  PROVE  /\ Head(phases) \in Tasks /\ Tail(phases) \in Seq(Tasks)
         /\ Head(phases).tf \in Timeframes /\ Head(phases).market \in STRING
         /\ Head(phases).back \in Nat \ {0}
<1>1. Head(phases) \in Tasks /\ Tail(phases) \in Seq(Tasks)
  BY HeadTailProperties DEF SeedTypes
<1> QED
  BY <1>1 DEF Tasks

LEMMA TasksAreTyped == Seq(Tasks) \subseteq Seq([market : STRING, tf : Timeframes, back : Nat])
<1>1. Tasks \subseteq [market : STRING, tf : Timeframes, back : Nat]
  BY DEF Tasks
<1> QED
  BY <1>1, SeqMonotonic

LEMMA SeedInitInv == SeedInit => SeedInv
<1> SUFFICES ASSUME SeedInit PROVE SeedInv
  OBVIOUS
<1>1. clock \in Nat /\ <<>> \in Seq(Candles)
      /\ <<>> \in Seq(Tasks) /\ <<>> \in Seq([market : STRING, tf : Timeframes, back : Nat])
  BY SeedAssumption, EmptySeq DEF SeedInit
<1>2. seedStage = "idle" /\ until = 0 /\ cursor = 0 /\ table = {} /\ served = {}
      /\ phases = <<>> /\ got = <<>>
  BY DEF SeedInit
<1> QED
  BY <1>1, <1>2 DEF SeedInv, SeedTypes, SeedTypeOK, GotInv

LEMMA SeedDatabaseInv ==
  ASSUME SeedInv, SeedDatabase
  PROVE  SeedInv'
<1>1. phases' \in Seq(Tasks) /\ phases' \in Seq([market : STRING, tf : Timeframes, back : Nat])
  BY PlansAreTasks, TasksAreTyped DEF SeedDatabase
<1>2. seedStage' = "next" /\ UNCHANGED <<clock, table, until, cursor, got, served>>
  BY DEF SeedDatabase
<1> QED
  BY <1>1, <1>2 DEF SeedInv, SeedTypes, SeedTypeOK, GotInv

LEMMA BeginPhaseInv ==
  ASSUME SeedInv, BeginPhase
  PROVE  SeedInv'
<1>1. /\ phases # <<>> /\ seedStage' = "paging" /\ until' = clock
      /\ cursor' = clock - Head(phases).back /\ got' = <<>>
      /\ UNCHANGED <<clock, table, phases, served>>
  BY DEF BeginPhase
<1>2. Head(phases).back \in Nat \ {0} /\ clock \in Nat
  BY <1>1, HeadIsTask DEF SeedInv, SeedTypes, SeedTypeOK
<1>3. cursor' \in Int /\ cursor' < until' /\ until' \in Nat
  BY <1>1, <1>2
<1>4. got' \in Seq(Candles) /\ DOMAIN got' = {}
  BY <1>1, EmptySeq
<1>5. SeedTypes'
  BY <1>1, <1>2, <1>3, <1>4 DEF SeedInv, SeedTypes, SeedTypeOK
<1>6. ASSUME NEW t \in Nat, Asked(t, Head(phases))', Reached(t)'
      PROVE  FALSE
  <2>1. until' - Head(phases').back <= t /\ Head(phases') = Head(phases)
    BY <1>1, <1>6 DEF Asked
  <2>2. t < cursor'
    BY <1>1, <1>6 DEF Reached
  <2> QED
    BY <1>1, <1>2, <1>3, <2>1, <2>2
<1>7. until' <= clock'
  BY <1>1, <1>2
<1> QED
  BY <1>3, <1>4, <1>5, <1>6, <1>7 DEF SeedInv, GotInv

LEMMA FetchPageInv ==
  ASSUME SeedInv, FetchPage
  PROVE  SeedInv'
<1> DEFINE phase == Head(phases)
           tf == phase.tf
           batch == UpTo(Page(tf, cursor), until)
           n == Len(got)
           m == Len(batch)
<1>1. /\ seedStage = "paging" /\ cursor < until
      /\ got' = got \o batch
      /\ IF m < PageLimit THEN seedStage' = "storing" /\ cursor' = cursor
                          ELSE seedStage' = seedStage /\ cursor' = batch[m].at
      /\ UNCHANGED <<clock, table, phases, until, served>>
  BY DEF FetchPage, LastPage
<1>2. /\ SeedTypeOK /\ phases # <<>> /\ got \in Seq(Candles) /\ cursor \in Int
      /\ until \in Nat /\ clock \in Nat /\ until <= clock
  BY <1>1 DEF SeedInv, SeedTypes, SeedTypeOK, GotInv
<1>3. tf \in Timeframes
  BY <1>2, HeadIsTask DEF SeedInv
<1>4. GoodBatch(batch, tf, cursor, until)
  BY <1>2, <1>3, BatchIsGood
<1> HIDE DEF batch
<1>5. /\ n \in Nat /\ DOMAIN got = 1..n /\ m \in Nat /\ DOMAIN batch = 1..m
      /\ batch \in Seq(Candles) /\ \A i \in 1..m : batch[i].at \in Nat
  BY <1>2, <1>4, CandlesIn DEF GoodBatch
<1>6. /\ got' \in Seq(Candles) /\ DOMAIN got' = 1..n + m
      /\ \A i \in 1..n : got'[i] = got[i]
      /\ \A i \in 1..m : got'[n + i] = batch[i]
  <2>1. got' \in Seq(Candles) /\ Len(got') = n + m
    BY <1>1, <1>2, <1>5, ConcatProperties
  <2>2. \A i \in 1..n + m : got'[i] = IF i <= n THEN got[i] ELSE batch[i - n]
    BY <1>1, <1>2, <1>5, ConcatProperties
  <2>3. DOMAIN got' = 1..n + m
    BY <2>1, CandlesIn
  <2>4. \A i \in 1..n : got'[i] = got[i]
    BY <1>5, <2>2
  <2>5. \A i \in 1..m : got'[n + i] = batch[i]
    <3>1. \A i \in 1..m : n + i \in 1..n + m /\ ~(n + i <= n) /\ n + i - n = i
      BY <1>5
    <3> QED
      BY <2>2, <3>1
  <2> QED
    BY <2>1, <2>3, <2>4, <2>5
<1> HIDE DEF n, m
<1>7. m < PageLimit \/ (m >= PageLimit /\ m \in 1..m)
  BY <1>5, SeedAssumption
<1>8. SeedTypes'
  <2>1. seedStage' \in {"paging", "storing"} /\ cursor' \in Int
    BY <1>1, <1>2, <1>5, <1>7
  <2> QED
    BY <1>1, <1>2, <1>6, <2>1 DEF SeedInv, SeedTypes, SeedTypeOK
<1>9. \A i \in 1..n + m : i \in 1..n \/ (i - n \in 1..m /\ n + (i - n) = i)
  BY <1>5
<1>10. \A i \in DOMAIN got' : got'[i].at <= until' /\ (got'[i].closed \/ until' < got'[i].at + Span[Head(phases').tf])
  <2>1. \A i \in 1..n : got[i].at <= until /\ (got[i].closed \/ until < got[i].at + Span[tf])
    BY <1>1, <1>5 DEF SeedInv, GotInv
  <2>2. \A i \in 1..m : batch[i].at <= until /\ (batch[i].closed \/ until < batch[i].at + Span[tf])
    BY <1>4, <1>5 DEF GoodBatch
  <2>3. until' = until /\ Head(phases').tf = tf
    BY <1>1
  <2> HIDE DEF tf
  <2> QED
    BY <1>6, <1>9, <2>1, <2>2, <2>3, Zenon
<1>11. ASSUME NEW t \in Nat, Asked(t, Head(phases))', Reached(t)'
       PROVE  \E i \in DOMAIN got' : got'[i].at = t
  <2>1. Asked(t, phase) /\ t % Span[tf] = 0 /\ Oldest(tf) <= t /\ t <= until
    BY <1>1, <1>11 DEF Asked, Oldest
  <2>2. CASE t < cursor
    <3>1. PICK i \in 1..n : got[i].at = t
      BY <1>1, <1>5, <2>1, <2>2 DEF SeedInv, GotInv, Reached
    <3>2. i \in 1..n + m /\ got'[i] = got[i]
      BY <1>5, <1>6
    <3> QED
      BY <1>6, <3>1, <3>2, Zenon
  <2>3. CASE cursor <= t
    <3>1. m < PageLimit \/ t <= batch[m].at
      BY <1>1, <1>5, <1>7, <1>11 DEF Reached
    <3>2. PICK i \in 1..m : batch[i].at = t
      BY <1>4, <1>5, <2>1, <2>3, <3>1 DEF GoodBatch, m
    <3>3. n + i \in 1..n + m
      BY <1>5
    <3> QED
      BY <1>6, <3>2, <3>3
  <2> QED
    BY <1>2, <2>2, <2>3
<1>12. seedStage' = "paging" => got' # <<>>
  <2>1. seedStage' = "paging" => m \in 1..m
    BY <1>1, <1>7
  <2>2. m \in 1..m => n + m \in 1..n + m
    BY <1>5
  <2> QED
    BY <1>6, <2>1, <2>2, EmptySeq
<1>13. until' <= clock'
  BY <1>1, <1>2
<1> QED
  BY <1>8, <1>10, <1>11, <1>12, <1>13 DEF SeedInv, GotInv

LEMMA PagesDoneInv ==
  ASSUME SeedInv, PagesDone
  PROVE  SeedInv'
<1>1. /\ seedStage = "paging" /\ cursor >= until /\ seedStage' = "storing"
      /\ UNCHANGED <<clock, table, phases, until, cursor, got, served>>
  BY DEF PagesDone
<1>2. SeedTypes' /\ cursor \in Int /\ until \in Nat
  BY <1>1 DEF SeedInv, SeedTypes, SeedTypeOK
<1>3. got # <<>>
  BY <1>1, <1>2 DEF SeedInv, GotInv
<1>4. ASSUME NEW t \in Nat, Asked(t, Head(phases))'
      PROVE  Asked(t, Head(phases)) /\ Reached(t)
  <2>1. Asked(t, Head(phases)) /\ t <= until
    BY <1>1, <1>4 DEF Asked, Oldest
  <2> QED
    BY <1>1, <1>2, <1>3, <2>1 DEF Reached
<1> QED
  BY <1>1, <1>2, <1>4 DEF SeedInv, GotInv

LEMMA ReportsAreGot ==
  ASSUME SeedTypeOK
  PROVE  /\ Reports \subseteq Candles
         /\ \A c \in Reports : \E i \in DOMAIN got : got[i] = c
         /\ \A c, d \in Reports : c.at = d.at => c = d
         /\ \A i \in DOMAIN got : \E c \in Reports : c.at = got[i].at
<1> DEFINE n == Len(got)
           Repeats(i) == \E j \in 1..i - 1 : got[j].at = got[i].at
<1>1. n \in Nat /\ DOMAIN got = 1..n /\ \A i \in 1..n : got[i] \in Candles
  BY CandlesIn DEF SeedTypeOK
<1>2. Reports = {got[i] : i \in {k \in 1..n : ~Repeats(k)}}
  BY <1>1 DEF Reports
<1> HIDE DEF n
<1>3. ASSUME NEW i \in 1..n, NEW j \in 1..n, ~Repeats(i), ~Repeats(j), got[i].at = got[j].at
      PROVE  i = j
  <2>1. ~(i < j)
    <3>1. i < j => i \in 1..j - 1
      BY <1>1
    <3> QED
      BY <1>3, <3>1
  <2>2. ~(j < i)
    <3>1. j < i => j \in 1..i - 1
      BY <1>1
    <3> QED
      BY <1>3, <3>1
  <2> QED
    BY <1>1, <2>1, <2>2
<1>4. ASSUME NEW i \in 1..n
      PROVE  \E c \in Reports : c.at = got[i].at
  <2> DEFINE S == {j \in 1..n : got[j].at = got[i].at}
  <2>1. PICK k \in S : \A j \in S : k <= j
    <3>1. S \in SUBSET (1..n) /\ S # {}
      OBVIOUS
    <3> HIDE DEF S
    <3> QED
      BY <1>1, <3>1, LeastExists
  <2>2. k \in 1..n /\ got[k].at = got[i].at
    BY <2>1
  <2>3. ~Repeats(k)
    <3> SUFFICES ASSUME NEW j \in 1..k - 1, got[j].at = got[k].at
                 PROVE  FALSE
      OBVIOUS
    <3>1. j \in 1..n /\ j < k
      BY <1>1, <2>2
    <3>2. j \in S
      BY <2>2, <3>1
    <3>3. k <= j
      BY <2>1, <3>2
    <3> QED
      BY <1>1, <2>2, <3>1, <3>3
  <2> QED
    BY <1>2, <2>2, <2>3
<1>5. \A c \in Reports : \E i \in 1..n : ~Repeats(i) /\ got[i] = c
  BY <1>2
<1>6. Reports \subseteq Candles
  BY <1>1, <1>5
<1>7. \A c, d \in Reports : c.at = d.at => c = d
  <2> SUFFICES ASSUME NEW c \in Reports, NEW d \in Reports, c.at = d.at
               PROVE  c = d
    OBVIOUS
  <2>1. PICK i \in 1..n : ~Repeats(i) /\ got[i] = c
    BY <1>5
  <2>2. PICK j \in 1..n : ~Repeats(j) /\ got[j] = d
    BY <1>5
  <2>3. got[i].at = got[j].at
    BY <2>1, <2>2
  <2> HIDE DEF Repeats
  <2>4. i = j
    BY <1>3, <2>1, <2>2, <2>3
  <2> QED
    BY <2>1, <2>2, <2>4
<1> QED
  BY <1>1, <1>4, <1>5, <1>6, <1>7

\* What a phase that succeeds leaves behind.
LEMMA StoredRows ==
  ASSUME SeedTypes, StoreCandles
  PROVE  LET phase == Head(phases)
             answered == [market |-> phase.market, tf |-> phase.tf,
                          from |-> Later(until - phase.back, Oldest(phase.tf)), to |-> until]
         IN  /\ table' = Insert({Row(phase, c) : c \in Reports})
             /\ served' = served \cup {answered}
             /\ answered \in [market : STRING, tf : Timeframes, from : Int, to : Nat]
             /\ \A c \in Reports : /\ Row(phase, c) \in [market : STRING, tf : Timeframes,
                                                          at : Nat, closed : BOOLEAN]
                                   /\ Row(phase, c).market = phase.market /\ Row(phase, c).tf = phase.tf
                                   /\ Row(phase, c).at = c.at /\ Row(phase, c).closed = c.closed
<1> DEFINE phase == Head(phases)
<1>1. phases # <<>>
  BY DEF StoreCandles, SeedTypes, SeedTypeOK
<1>2. phase.market \in STRING /\ phase.tf \in Timeframes /\ phase.back \in Nat \ {0}
  BY <1>1, HeadIsTask
<1>3. Oldest(phase.tf) \in Int /\ until \in Nat
  BY <1>2, OldestType DEF SeedTypes, SeedTypeOK
<1>4. Later(until - phase.back, Oldest(phase.tf)) \in Int
  BY <1>2, <1>3 DEF Later
<1>5. \A c \in Reports : c.at \in Nat /\ c.closed \in BOOLEAN
  BY ReportsAreGot DEF SeedTypes, Candles
<1>6. table' = Insert({Row(phase, c) : c \in Reports})
  BY DEF StoreCandles
<1>7. \A c \in Reports : Row(phase, c) = [market |-> phase.market, tf |-> phase.tf,
                                          at |-> c.at, closed |-> c.closed]
  BY DEF Row
<1>8. served' = served \cup {[market |-> phase.market, tf |-> phase.tf,
                              from |-> Later(until - phase.back, Oldest(phase.tf)), to |-> until]}
  BY DEF StoreCandles
<1> HIDE DEF phase
<1>9. \A c \in Reports : /\ Row(phase, c) \in [market : STRING, tf : Timeframes, at : Nat, closed : BOOLEAN]
                         /\ Row(phase, c).market = phase.market /\ Row(phase, c).tf = phase.tf
                         /\ Row(phase, c).at = c.at /\ Row(phase, c).closed = c.closed
  BY <1>2, <1>5, <1>7
<1> QED
  BY <1>2, <1>3, <1>4, <1>6, <1>8, <1>9 DEF phase

LEMMA StoreCandlesInv ==
  ASSUME SeedInv, StoreCandles
  PROVE  SeedInv'
<1>1. SeedTypes /\ phases # <<>>
  BY DEF SeedInv, SeedTypes, SeedTypeOK, StoreCandles
<1>2. phases' \in Seq(Tasks) /\ phases' \in Seq([market : STRING, tf : Timeframes, back : Nat])
  BY <1>1, HeadIsTask, TasksAreTyped DEF StoreCandles
<1>3. /\ seedStage' = "next" /\ until' = 0 /\ cursor' = 0 /\ got' = <<>> /\ clock' = clock
  BY DEF StoreCandles, PhaseOver
<1>4. table' \subseteq [market : STRING, tf : Timeframes, at : Nat, closed : BOOLEAN]
  BY <1>1, StoredRows DEF Insert, SeedTypes, SeedTypeOK
<1>5. served' \subseteq [market : STRING, tf : Timeframes, from : Int, to : Nat]
  BY <1>1, StoredRows DEF SeedTypes, SeedTypeOK
<1>6. <<>> \in Seq(Candles)
  BY EmptySeq
<1> QED
  BY <1>1, <1>2, <1>3, <1>4, <1>5, <1>6 DEF SeedInv, SeedTypes, SeedTypeOK, GotInv

LEMMA PhaseFailsInv ==
  ASSUME SeedInv, PhaseFails
  PROVE  SeedInv'
<1>1. SeedTypes /\ phases # <<>>
  BY DEF SeedInv, SeedTypes, SeedTypeOK, PhaseFails
<1>2. phases' \in Seq(Tasks) /\ phases' \in Seq([market : STRING, tf : Timeframes, back : Nat])
  BY <1>1, HeadIsTask, TasksAreTyped DEF PhaseFails
<1>3. /\ seedStage' = "next" /\ until' = 0 /\ cursor' = 0 /\ got' = <<>>
      /\ UNCHANGED <<clock, table, served>>
  BY DEF PhaseFails, PhaseOver
<1>4. <<>> \in Seq(Candles)
  BY EmptySeq
<1> QED
  BY <1>1, <1>2, <1>3, <1>4 DEF SeedInv, SeedTypes, SeedTypeOK, GotInv

LEMMA SeedKilledInv ==
  ASSUME SeedInv, SeedKilled
  PROVE  SeedInv'
<1>1. /\ seedStage' = "idle" /\ phases' = <<>> /\ until' = 0 /\ cursor' = 0 /\ got' = <<>>
      /\ UNCHANGED <<clock, table, served>>
  BY DEF SeedKilled, PhaseOver
<1>2. /\ <<>> \in Seq(Candles) /\ <<>> \in Seq(Tasks)
      /\ <<>> \in Seq([market : STRING, tf : Timeframes, back : Nat])
  BY EmptySeq
<1> QED
  BY <1>1, <1>2 DEF SeedInv, SeedTypes, SeedTypeOK, GotInv

\* What the exchange can still serve only recedes.
LEMMA OldestGrows ==
  ASSUME SeedTypeOK, clock' = clock + 1, NEW tf \in Timeframes
  PROVE  Oldest(tf) <= Oldest(tf)' /\ Oldest(tf) \in Int /\ Oldest(tf)' \in Int
<1> DEFINE b == Span[tf]
           u == clock \div b
           v == (clock + 1) \div b
<1>1. b \in Nat \ {0}
  BY SpanIsPositive
<1>2. Oldest(tf) = (u - Kept + 1) * b
  BY DEF Oldest
<1>3. Oldest(tf)' = (v - Kept + 1) * b
  BY DEF Oldest
<1> HIDE DEF b
<1>4. clock \in Int /\ clock + 1 \in Int /\ clock <= clock + 1 /\ Kept \in Int
  BY SeedAssumption DEF SeedTypeOK
<1>5. u \in Int /\ v \in Int /\ u <= v
  BY <1>1, <1>4, Division, DivisionMonotone
<1> HIDE DEF u, v
<1>6. v - u \in Nat /\ u - Kept + 1 \in Int /\ v - Kept + 1 \in Int
  BY <1>4, <1>5
<1>7. (v - u) * b \in Nat /\ (u - Kept + 1) * b \in Int /\ (v - Kept + 1) * b \in Int
  BY <1>1, <1>6
<1>8. (v - Kept + 1) * b = (u - Kept + 1) * b + (v - u) * b
  BY <1>1, <1>4, <1>5
<1> QED
  BY <1>2, <1>3, <1>7, <1>8

LEMMA TimePassesInv ==
  ASSUME SeedInv, TimePasses
  PROVE  SeedInv'
<1>1. clock' = clock + 1 /\ UNCHANGED <<table, phases, seedStage, until, cursor, got, served>>
  BY DEF TimePasses
<1>2. SeedTypes /\ clock \in Nat /\ until \in Nat
  BY DEF SeedInv, SeedTypes, SeedTypeOK
<1>3. SeedTypes'
  BY <1>1, <1>2 DEF SeedTypes, SeedTypeOK
<1>4. ASSUME seedStage \in {"paging", "storing"}, NEW t \in Nat, Asked(t, Head(phases))', Reached(t)'
      PROVE  Asked(t, Head(phases)) /\ Reached(t)
  <2>1. PICK tf \in Timeframes : tf = Head(phases).tf
    BY <1>2, <1>4, HeadIsTask DEF SeedTypes, SeedTypeOK
  <2>2. Oldest(tf) <= Oldest(tf)' /\ Oldest(tf) \in Int /\ Oldest(tf)' \in Int
    BY <1>1, <1>2, OldestGrows DEF SeedTypes
  <2>3. /\ t % Span[tf] = 0 /\ Oldest(tf)' <= t
        /\ until - Head(phases).back <= t /\ t <= until
    BY <1>1, <1>4, <2>1 DEF Asked, Oldest
  <2>4. Oldest(tf) <= t
    BY <2>2, <2>3
  <2> QED
    BY <1>1, <1>4, <2>1, <2>3, <2>4 DEF Asked, Reached
<1>5. until <= clock => until' <= clock'
  BY <1>1, <1>2
<1> QED
  BY <1>1, <1>3, <1>4, <1>5 DEF SeedInv, GotInv

LEMMA SeedStepInv == SeedInv /\ [SeedNext]_seedVars => SeedInv'
<1> SUFFICES ASSUME SeedInv, [SeedNext]_seedVars PROVE SeedInv'
  OBVIOUS
<1>1. CASE SeedFinishes
  BY <1>1 DEF SeedFinishes, SeedInv, SeedTypes, SeedTypeOK, GotInv
<1>2. CASE UNCHANGED seedVars
  BY <1>2 DEF seedVars, SeedInv, SeedTypes, SeedTypeOK, GotInv, Asked, Reached, Oldest
<1> QED
  BY <1>1, <1>2, SeedDatabaseInv, BeginPhaseInv, FetchPageInv, PagesDoneInv, StoreCandlesInv,
     PhaseFailsInv, SeedKilledInv, TimePassesInv DEF SeedNext, SeedStep

\* The tables, the phases and the pages of HistoricalSeed keep their types, and of
\* the phase under way the pages so far are all there (kraken.py:213-246).
THEOREM SeedInvariant == SeedSpec => []SeedInv
<1> QED
  BY SeedInitInv, SeedStepInv, PTL DEF SeedSpec

-----------------------------------------------------------------------------
(* No gap, and no stale candle but the tip.                                *)

\* Rows are never taken away.
LEMMA TableGrows ==
  ASSUME SeedInv, [SeedNext]_seedVars
  PROVE  /\ table \subseteq table' /\ served \subseteq served'
         /\ ~StoreCandles => table' = table /\ served' = served
<1>1. ~StoreCandles => table' = table /\ served' = served
  BY DEF SeedNext, SeedStep, SeedDatabase, BeginPhase, FetchPage, PagesDone, PhaseFails,
         SeedFinishes, SeedKilled, TimePasses, seedVars
<1>2. StoreCandles => table \subseteq table' /\ served \subseteq served'
  BY DEF StoreCandles, Insert
<1> QED
  BY <1>1, <1>2

Has(s, t) == \E r \in table : r.market = s.market /\ r.tf = s.tf /\ r.at = t
Owed(s, t) == s.from <= t /\ t <= s.to /\ t % Span[s.tf] = 0

\* However pages, failures, kills and earlier runs came before, a phase that
\* succeeded has every candle of its range in the table ("All candles in the
\* range", kraken.py:200): the pages overlap and the exchange's window recedes.
THEOREM SeedLeavesNoGap == SeedSpec => []NoGap
<1> DEFINE Complete == \A s \in served : \A t \in Nat : Owed(s, t) => Has(s, t)
<1>1. SeedInit => Complete
  BY DEF SeedInit
<1>2. SeedInv /\ Complete /\ [SeedNext]_seedVars => Complete'
  <2> SUFFICES ASSUME SeedInv, Complete, [SeedNext]_seedVars,
                      NEW s \in served', NEW t \in Nat, Owed(s, t)
               PROVE  Has(s, t)'
    BY DEF Owed
  <2>1. table \subseteq table' /\ (~StoreCandles => served' = served)
    BY TableGrows
  <2>2. CASE s \in served
    BY <2>1, <2>2 DEF Has
  <2>3. CASE s \notin served
    <3> DEFINE phase == Head(phases)
    <3>1. StoreCandles /\ SeedTypes
      BY <2>1, <2>3 DEF SeedInv
    <3>2. /\ table' = Insert({Row(phase, c) : c \in Reports})
          /\ \A c \in Reports : /\ Row(phase, c).market = phase.market /\ Row(phase, c).tf = phase.tf
                                /\ Row(phase, c).at = c.at
      BY <3>1, StoredRows
    <3>3. s = [market |-> phase.market, tf |-> phase.tf,
               from |-> Later(until - phase.back, Oldest(phase.tf)), to |-> until]
      BY <2>3, <3>1, StoredRows
    <3>4. phase.back \in Nat \ {0} /\ phase.tf \in Timeframes
      BY <3>1, HeadIsTask DEF SeedTypes, SeedTypeOK, StoreCandles
    <3>5. Oldest(phase.tf) \in Int /\ until \in Nat
      BY <3>1, <3>4, OldestType DEF SeedTypes, SeedTypeOK
    <3>6. Asked(t, phase)
      <4>1. s.from = Later(until - phase.back, Oldest(phase.tf)) /\ s.to = until /\ s.tf = phase.tf
        BY <3>3
      <4>2. s.from <= t /\ t <= s.to /\ t % Span[s.tf] = 0
        BY DEF Owed
      <4>3. Later(until - phase.back, Oldest(phase.tf)) <= t /\ t <= until /\ t % Span[phase.tf] = 0
        BY <4>1, <4>2
      <4>4. until - phase.back <= t /\ Oldest(phase.tf) <= t
        BY <3>4, <3>5, <4>3 DEF Later
      <4> QED
        BY <4>3, <4>4 DEF Asked
    <3>7. PICK i \in DOMAIN got : got[i].at = t
      BY <3>1, <3>6 DEF SeedInv, GotInv, Reached, StoreCandles
    <3>8. PICK c \in Reports : c.at = t
      BY <3>1, <3>7, ReportsAreGot DEF SeedTypes
    <3>9. Row(phase, c) \in table' \/ \E old \in table : SameCandle(old, Row(phase, c))
      BY <3>2 DEF Insert
    <3>10. \E r \in table' : r.market = phase.market /\ r.tf = phase.tf /\ r.at = t
      BY <2>1, <3>2, <3>8, <3>9 DEF SameCandle
    <3> QED
      BY <3>3, <3>10 DEF Has
  <2> QED
    BY <2>2, <2>3
<1>3. Complete => NoGap
  BY SeedAssumption DEF NoGap, Owed, Has
<1> QED
  BY <1>1, <1>2, <1>3, SeedInvariant, PTL DEF SeedSpec

\* There is one row per candle, and DO NOTHING leaves behind no open candle but the
\* one in progress when some phase that succeeded began (historical.py:218).
THEOREM StaleOnlyAtTheTip == SeedSpec => []OnlyTheTipIsStale
<1>1. SeedInit => OnlyTheTipIsStale
  BY DEF SeedInit, OnlyTheTipIsStale
<1>2. SeedInv /\ OnlyTheTipIsStale /\ [SeedNext]_seedVars => OnlyTheTipIsStale'
  <2> SUFFICES ASSUME SeedInv, OnlyTheTipIsStale, [SeedNext]_seedVars
               PROVE  OnlyTheTipIsStale'
    OBVIOUS
  <2>1. /\ table \subseteq table' /\ served \subseteq served'
        /\ ~StoreCandles => table' = table /\ served' = served
    BY TableGrows
  <2>2. CASE ~StoreCandles
    BY <2>1, <2>2 DEF OnlyTheTipIsStale
  <2>3. CASE StoreCandles
    <3> DEFINE phase == Head(phases)
               fresh == {Row(phase, c) : c \in Reports}
               answered == [market |-> phase.market, tf |-> phase.tf,
                            from |-> Later(until - phase.back, Oldest(phase.tf)), to |-> until]
    <3>1. SeedTypes
      BY DEF SeedInv
    <3>2. /\ table' = Insert(fresh) /\ answered \in served'
          /\ \A c \in Reports : /\ Row(phase, c).market = phase.market /\ Row(phase, c).tf = phase.tf
                                /\ Row(phase, c).at = c.at /\ Row(phase, c).closed = c.closed
      BY <2>3, <3>1, StoredRows
    <3>3. ASSUME NEW r \in table', r \notin table
          PROVE  \E c \in Reports : r = Row(phase, c) /\ \A old \in table : ~SameCandle(old, r)
      BY <3>2, <3>3 DEF Insert
    <3>4. ASSUME NEW r \in table', NEW s \in table', SameCandle(r, s)
          PROVE  r = s
      <4>1. CASE r \in table /\ s \in table
        BY <3>4, <4>1 DEF OnlyTheTipIsStale
      <4>2. CASE r \notin table /\ s \in table
        BY <3>3, <3>4, <4>2 DEF SameCandle
      <4>3. CASE r \in table /\ s \notin table
        BY <3>3, <3>4, <4>3 DEF SameCandle
      <4>4. CASE r \notin table /\ s \notin table
        <5>1. PICK c \in Reports : r = Row(phase, c)
          BY <3>3, <4>4
        <5>2. PICK d \in Reports : s = Row(phase, d)
          BY <3>3, <4>4
        <5>3. c.at = d.at
          BY <3>2, <3>4, <5>1, <5>2 DEF SameCandle
        <5>4. c = d
          BY <3>1, <5>3, ReportsAreGot DEF SeedTypes
        <5> QED
          BY <5>1, <5>2, <5>4
      <4> QED
        BY <4>1, <4>2, <4>3, <4>4
    <3>5. ASSUME NEW r \in table', ~r.closed
          PROVE  \E s \in served' : /\ s.market = r.market /\ s.tf = r.tf
                                    /\ r.at <= s.to /\ s.to < r.at + Span[r.tf]
      <4>1. CASE r \in table
        BY <2>1, <3>5, <4>1 DEF OnlyTheTipIsStale
      <4>2. CASE r \notin table
        <5>1. PICK c \in Reports : r = Row(phase, c)
          BY <3>3, <4>2
        <5>2. r.market = phase.market /\ r.tf = phase.tf /\ r.at = c.at /\ ~c.closed
          BY <3>2, <3>5, <5>1
        <5>3. PICK i \in DOMAIN got : got[i] = c
          BY <3>1, ReportsAreGot DEF SeedTypes
        <5>4. c.at <= until /\ until < c.at + Span[phase.tf]
          BY <2>3, <5>2, <5>3 DEF SeedInv, GotInv, StoreCandles
        <5>5. answered.market = phase.market /\ answered.tf = phase.tf /\ answered.to = until
          OBVIOUS
        <5> HIDE DEF answered, phase
        <5> QED
          BY <3>2, <5>2, <5>4, <5>5
      <4> QED
        BY <4>1, <4>2
    <3> QED
      BY <3>4, <3>5 DEF OnlyTheTipIsStale, SameCandle
  <2> QED
    BY <2>2, <2>3
<1> QED
  BY <1>1, <1>2, SeedInvariant, PTL DEF SeedSpec


-----------------------------------------------------------------------------
(* A run winds down: the safety half of SeedingEnds.                       *)

Longest == Later(Deep, Recent)
PhaseMost == Longest + 3

\* How many more steps a run can take at most, however the clock goes on: a phase
\* begins, asks for a page at most once for every tick it looks back, and stores.
SeedLeft ==
  CASE seedStage = "idle" -> 0
    [] seedStage = "next" -> 1 + Len(phases) * PhaseMost
    [] seedStage = "paging" -> 1 + (Len(phases) - 1) * PhaseMost + (until - cursor) + 2
    [] seedStage = "storing" -> 1 + (Len(phases) - 1) * PhaseMost + 1

\* No phase looks back further than the plan says, and the cursor is on its way from
\* there to where the phase ends.
PhasesFit ==
  /\ \A i \in DOMAIN phases : phases[i].back <= Longest
  /\ seedStage = "paging" => cursor <= until /\ until - cursor <= Longest

\* Every step of the program brings its run nearer to the end, a failing phase and an
\* overlapping page included; being killed ends it, and time passing never prolongs it.
SeedWindsDown ==
  [][ /\ SeedLeft \in Nat
      /\ SeedStep \/ SeedKilled => SeedLeft' < SeedLeft
      /\ TimePasses => SeedLeft' = SeedLeft ]_seedVars

LEMMA LongestIs ==
  /\ Longest \in Nat \ {0} /\ Deep <= Longest /\ Recent <= Longest
  /\ PhaseMost \in Nat /\ PhaseMost = Longest + 3
BY SeedAssumption DEF Longest, PhaseMost, Later

\* What the plans look back.
LEMMA PlansFit ==
  /\ \A i \in DOMAIN DeepPlan : DeepPlan[i].back <= Longest
  /\ \A tf \in Timeframes : \A i \in DOMAIN SinglePlan(tf) : SinglePlan(tf)[i].back <= Longest
<1>1. \A m, tf : Phase(m, tf, Deep).back <= Longest /\ Phase(m, tf, Recent).back <= Longest
  BY LongestIs DEF Phase
<1>2. \A i \in DOMAIN DeepPlan : \E m, tf : DeepPlan[i] = Phase(m, tf, Deep) \/ DeepPlan[i] = Phase(m, tf, Recent)
  BY DEF DeepPlan
<1>3. \A tf \in Timeframes : \A i \in DOMAIN SinglePlan(tf) :
        \E m : SinglePlan(tf)[i] = Phase(m, tf, Deep)
  BY DEF SinglePlan
<1> QED
  BY <1>1, <1>2, <1>3

\* The head of the list and the rest of it.
LEMMA HeadFits ==
  ASSUME SeedTypes, PhasesFit, phases # <<>>
  PROVE  /\ Head(phases).back <= Longest
         /\ Len(phases) \in Nat \ {0} /\ Len(Tail(phases)) = Len(phases) - 1
         /\ \A i \in DOMAIN Tail(phases) : Tail(phases)[i].back <= Longest
         /\ Len(phases) * PhaseMost = (Len(phases) - 1) * PhaseMost + PhaseMost
         /\ (Len(phases) - 1) * PhaseMost \in Nat
<1>1. phases \in Seq(Tasks)
  BY DEF SeedTypes
<1>2. /\ Head(phases) = phases[1] /\ 1 \in DOMAIN phases /\ Len(phases) \in Nat \ {0}
      /\ DOMAIN phases = 1..Len(phases)
      /\ Len(Tail(phases)) = Len(phases) - 1
      /\ \A i \in 1..Len(phases) - 1 : Tail(phases)[i] = phases[i + 1]
      /\ DOMAIN Tail(phases) = 1..Len(phases) - 1
  BY <1>1
<1>3. \A i \in 1..Len(phases) - 1 : i + 1 \in 1..Len(phases)
  BY <1>2
<1>4. \A n \in Nat \ {0} : \A c \in Nat : n * c = (n - 1) * c + c /\ (n - 1) * c \in Nat
  <2>1. \A n \in Nat \ {0} : n - 1 \in Nat
    OBVIOUS
  <2>2. \A n, c \in Nat : n * c \in Nat
    OBVIOUS
  <2>3. \A n \in Nat \ {0} : \A c \in Nat : n * c = (n - 1) * c + c
    OBVIOUS
  <2> QED
    BY <2>1, <2>2, <2>3
<1> QED
  BY <1>2, <1>3, <1>4, LongestIs DEF PhasesFit

\* In a stage of its own the run has so much left.
LEMMA LeftIs ==
  /\ seedStage = "idle" => SeedLeft = 0
  /\ seedStage = "next" => SeedLeft = 1 + Len(phases) * PhaseMost
  /\ seedStage = "paging" => SeedLeft = 1 + (Len(phases) - 1) * PhaseMost + (until - cursor) + 2
  /\ seedStage = "storing" => SeedLeft = 1 + (Len(phases) - 1) * PhaseMost + 1
BY Zenon DEF SeedLeft

LEMMA SeedLeftIsNat == SeedInv /\ PhasesFit => SeedLeft \in Nat
<1> SUFFICES ASSUME SeedInv, PhasesFit PROVE SeedLeft \in Nat
  OBVIOUS
<1>1. SeedTypes /\ seedStage \in {"idle", "next", "paging", "storing"} /\ until \in Nat /\ cursor \in Int
      /\ phases \in Seq(Tasks) /\ (seedStage \in {"paging", "storing"} => phases # <<>>)
  BY DEF SeedInv, SeedTypes, SeedTypeOK
<1>2. CASE seedStage = "idle"
  BY <1>2, LeftIs
<1>3. CASE seedStage = "next"
  <2>1. Len(phases) \in Nat /\ \A n, c \in Nat : n * c \in Nat
    BY <1>1
  <2>2. Len(phases) * PhaseMost \in Nat
    BY <2>1, LongestIs
  <2> QED
    BY <1>3, <2>2, LeftIs
<1>4. CASE seedStage \in {"paging", "storing"}
  <2>1. (Len(phases) - 1) * PhaseMost \in Nat
    BY <1>1, <1>4, HeadFits
  <2>2. seedStage = "paging" => until - cursor \in Nat
    BY <1>1 DEF PhasesFit
  <2> QED
    BY <1>4, <2>1, <2>2, LeftIs
<1> QED
  BY <1>1, <1>2, <1>3, <1>4

\* One step.
LEMMA StepShortens ==
  ASSUME SeedInv, PhasesFit, [SeedNext]_seedVars
  PROVE  /\ PhasesFit'
         /\ SeedStep \/ SeedKilled => SeedLeft' < SeedLeft
         /\ TimePasses => SeedLeft' = SeedLeft
<1>1. /\ SeedTypes /\ SeedTypeOK /\ phases \in Seq(Tasks) /\ clock \in Nat
      /\ until \in Nat /\ cursor \in Int
      /\ (seedStage \in {"paging", "storing"} => phases # <<>>)
      /\ seedStage \in {"idle", "next", "paging", "storing"}
  BY DEF SeedInv, SeedTypes, SeedTypeOK
<1>2. SeedLeft \in Nat
  BY SeedLeftIsNat
<1> DEFINE Shorter == PhasesFit' /\ SeedLeft' < SeedLeft
           rest == (Len(phases) - 1) * PhaseMost
<1>3. ASSUME SeedDatabase PROVE PhasesFit'
  <2>1. /\ \/ phases' = DeepPlan
           \/ \E tf \in Timeframes : phases' = SinglePlan(tf)
        /\ seedStage' = "next"
    BY <1>3 DEF SeedDatabase
  <2> QED
    BY <2>1, PlansFit DEF PhasesFit
<1>4. ASSUME BeginPhase PROVE Shorter
  <2>1. /\ seedStage = "next" /\ phases # <<>> /\ seedStage' = "paging" /\ phases' = phases
        /\ until' = clock /\ cursor' = clock - Head(phases).back
    BY <1>4 DEF BeginPhase
  <2>2. Head(phases).back \in Nat /\ Head(phases).back <= Longest
        /\ Len(phases) * PhaseMost = rest + PhaseMost /\ rest \in Nat
    BY <1>1, <2>1, HeadIsTask, HeadFits
  <2>3. cursor' <= until' /\ until' - cursor' = Head(phases).back
    BY <1>1, <2>1, <2>2
  <2>4. PhasesFit'
    BY <2>1, <2>2, <2>3 DEF PhasesFit
  <2>5. SeedLeft = 1 + Len(phases) * PhaseMost
    BY <2>1, LeftIs
  <2>6. SeedLeft' = 1 + (Len(phases') - 1) * PhaseMost + (until' - cursor') + 2
    <3>1. (seedStage = "paging" => SeedLeft = 1 + (Len(phases) - 1) * PhaseMost + (until - cursor) + 2)'
      BY LeftIs, PTL
    <3> QED
      BY <2>1, <3>1
  <2>7. SeedLeft' = 1 + rest + Head(phases).back + 2
    BY <2>1, <2>3, <2>6
  <2> HIDE DEF rest
  <2> QED
    BY <2>2, <2>4, <2>5, <2>7, LongestIs
<1>5. ASSUME FetchPage PROVE Shorter
  <2> DEFINE batch == UpTo(Page(Head(phases).tf, cursor), until)
  <2>1. /\ seedStage = "paging" /\ cursor < until /\ phases' = phases /\ until' = until
        /\ IF LastPage(batch) THEN seedStage' = "storing" /\ cursor' = cursor
           ELSE seedStage' = "paging" /\ cursor' = batch[Len(batch)].at
    BY <1>5 DEF FetchPage
  <2>2. phases # <<>> /\ until <= clock
    BY <1>1, <2>1 DEF SeedInv, GotInv
  <2>3. GoodBatch(batch, Head(phases).tf, cursor, until)
    BY <1>1, <2>2, HeadIsTask, BatchIsGood
  <2>4. rest \in Nat
    BY <1>1, <2>2, HeadFits
  <2>5. SeedLeft = 1 + rest + (until - cursor) + 2
    BY <2>1, LeftIs
  <2> HIDE DEF batch
  <2>6. CASE LastPage(batch)
    <3>1. SeedLeft' = 1 + rest + 1
      <4>1. (seedStage = "storing" => SeedLeft = 1 + (Len(phases) - 1) * PhaseMost + 1)'
        BY LeftIs, PTL
      <4> QED
        BY <2>1, <2>6, <4>1
    <3>2. PhasesFit'
      BY <2>1, <2>6 DEF PhasesFit
    <3> HIDE DEF rest
    <3> QED
      BY <1>1, <2>1, <2>4, <2>5, <3>1, <3>2
  <2>7. CASE ~LastPage(batch)
    <3>1. seedStage' = "paging" /\ cursor' = batch[Len(batch)].at
      BY <2>1, <2>7
    <3>2. cursor < cursor' /\ cursor' <= until /\ cursor' \in Nat
      <4>1. batch \in Seq(Candles) /\ cursor < batch[Len(batch)].at
        BY <2>3, <2>7 DEF GoodBatch
      <4>2. Len(batch) \in DOMAIN batch
        <5>1. Len(batch) \in Nat /\ DOMAIN batch = 1..Len(batch)
          BY <4>1
        <5>2. ~(Len(batch) < PageLimit) /\ PageLimit \in Nat /\ PageLimit > 1
          BY <2>7, SeedAssumption DEF LastPage
        <5> QED
          BY <5>1, <5>2
      <4>3. batch[Len(batch)].at <= until
        BY <2>3, <4>2 DEF GoodBatch
      <4>4. batch[Len(batch)].at \in Nat
        BY <4>1, <4>2, CandlesIn
      <4> QED
        BY <3>1, <4>1, <4>3, <4>4
    <3>3. SeedLeft' = 1 + rest + (until - cursor') + 2
      <4>1. (seedStage = "paging"
               => SeedLeft = 1 + (Len(phases) - 1) * PhaseMost + (until - cursor) + 2)'
        BY LeftIs, PTL
      <4> QED
        BY <2>1, <3>1, <4>1
    <3>4. PhasesFit'
      <4>1. until - cursor <= Longest
        BY <2>1 DEF PhasesFit
      <4>2. cursor' <= until /\ until - cursor' <= Longest
        <5>1. \A u, c, d, l \in Int : c < d /\ d <= u /\ u - c <= l => u - d <= l
          OBVIOUS
        <5>2. until \in Int /\ cursor \in Int /\ cursor' \in Int /\ Longest \in Int
          BY <1>1, <3>2, LongestIs
        <5> QED
          BY <3>2, <4>1, <5>1, <5>2
      <4> QED
        BY <2>1, <4>2 DEF PhasesFit
    <3>5. SeedLeft' < SeedLeft
      <4>1. \A r, u, c, d \in Int : c < d => 1 + r + (u - d) + 2 < 1 + r + (u - c) + 2
        OBVIOUS
      <4>2. rest \in Int /\ until \in Int /\ cursor \in Int /\ cursor' \in Int
        BY <1>1, <2>4, <3>2
      <4> HIDE DEF rest
      <4> QED
        BY <2>5, <3>2, <3>3, <4>1, <4>2
    <3> QED
      BY <3>4, <3>5
  <2> QED
    BY <2>6, <2>7
<1>6. ASSUME PagesDone PROVE Shorter
  <2>1. /\ seedStage = "paging" /\ seedStage' = "storing" /\ phases' = phases /\ phases # <<>>
    BY <1>1, <1>6 DEF PagesDone
  <2>2. SeedLeft = 1 + rest + (until - cursor) + 2 /\ rest \in Nat /\ until - cursor \in Nat
    BY <1>1, <2>1, LeftIs, HeadFits DEF PhasesFit
  <2>3. SeedLeft' = 1 + rest + 1
    <3>1. (seedStage = "storing" => SeedLeft = 1 + (Len(phases) - 1) * PhaseMost + 1)'
      BY LeftIs, PTL
    <3> QED
      BY <2>1, <3>1
  <2>4. PhasesFit'
    BY <2>1 DEF PhasesFit
  <2> HIDE DEF rest
  <2> QED
    BY <2>2, <2>3, <2>4
<1>7. ASSUME StoreCandles \/ PhaseFails PROVE Shorter
  <2>1. /\ seedStage \in {"paging", "storing"} /\ phases # <<>>
        /\ seedStage' = "next" /\ phases' = Tail(phases)
    BY <1>1, <1>7 DEF StoreCandles, PhaseFails
  <2>2. rest \in Nat /\ Len(Tail(phases)) = Len(phases) - 1
        /\ \A i \in DOMAIN Tail(phases) : Tail(phases)[i].back <= Longest
    BY <1>1, <2>1, HeadFits
  <2>3. SeedLeft' = 1 + rest
    <3>1. (seedStage = "next" => SeedLeft = 1 + Len(phases) * PhaseMost)'
      BY LeftIs, PTL
    <3> QED
      BY <2>1, <2>2, <3>1
  <2>4. SeedLeft = 1 + rest + 1 \/ (SeedLeft = 1 + rest + (until - cursor) + 2 /\ until - cursor \in Nat)
    BY <1>1, <2>1, LeftIs DEF PhasesFit
  <2>5. PhasesFit'
    BY <2>1, <2>2 DEF PhasesFit
  <2> HIDE DEF rest
  <2> QED
    BY <2>2, <2>3, <2>4, <2>5
<1>8. ASSUME SeedFinishes \/ SeedKilled PROVE Shorter
  <2>1. seedStage # "idle" /\ seedStage' = "idle" /\ (phases' = phases \/ phases' = <<>>)
    BY <1>8 DEF SeedFinishes, SeedKilled
  <2>2. SeedLeft' = 0
    <3>1. (seedStage = "idle" => SeedLeft = 0)'
      BY LeftIs, PTL
    <3> QED
      BY <2>1, <3>1
  <2>3. SeedLeft # 0
    <3>1. CASE seedStage = "next"
      <4>1. Len(phases) \in Nat /\ \A n, c \in Nat : n * c \in Nat
        BY <1>1
      <4>2. Len(phases) * PhaseMost \in Nat
        BY <4>1, LongestIs
      <4> QED
        BY <3>1, <4>2, LeftIs
    <3>2. CASE seedStage \in {"paging", "storing"}
      <4>1. rest \in Nat
        BY <1>1, <3>2, HeadFits
      <4>2. SeedLeft = 1 + rest + 1 \/ (SeedLeft = 1 + rest + (until - cursor) + 2 /\ until - cursor \in Nat)
        BY <1>1, <3>2, LeftIs DEF PhasesFit
      <4> HIDE DEF rest
      <4> QED
        BY <4>1, <4>2
    <3> QED
      BY <1>1, <2>1, <3>1, <3>2
  <2>4. PhasesFit'
    BY <2>1 DEF PhasesFit
  <2> QED
    BY <1>2, <2>2, <2>3, <2>4
<1>9. ASSUME TimePasses \/ UNCHANGED seedVars
      PROVE  PhasesFit' /\ SeedLeft' = SeedLeft
  <2>1. UNCHANGED <<phases, seedStage, until, cursor>>
    BY <1>9 DEF TimePasses, seedVars
  <2>2. SeedLeft' = SeedLeft
    BY <2>1 DEF SeedLeft
  <2>3. PhasesFit'
    BY <2>1 DEF PhasesFit
  <2> QED
    BY <2>2, <2>3
<1> QED
  BY <1>3, <1>4, <1>5, <1>6, <1>7, <1>8, <1>9 DEF SeedNext, SeedStep

\* However pages, failures and kills come, and however the clock goes on, every step of
\* a run brings it nearer to its end, so it takes no more than SeedLeft of them; it has
\* a step to take in every stage but "idle" (kraken.py:213-230, historical.py:132-166).
THEOREM SeedingWindsDown == SeedSpec => SeedWindsDown
<1>1. SeedInit => PhasesFit
  BY DEF SeedInit, PhasesFit
<1>2. SeedInv /\ PhasesFit /\ [SeedNext]_seedVars => PhasesFit'
  BY StepShortens
<1>3. SeedInv /\ PhasesFit /\ [SeedNext]_seedVars
        => [ /\ SeedLeft \in Nat
             /\ SeedStep \/ SeedKilled => SeedLeft' < SeedLeft
             /\ TimePasses => SeedLeft' = SeedLeft ]_seedVars
  BY StepShortens, SeedLeftIsNat
<1> QED
  BY <1>1, <1>2, <1>3, SeedInvariant, PTL DEF SeedSpec, SeedWindsDown

-----------------------------------------------------------------------------
(* Where a signal is relative to its averages (TechnicalAnalyst).          *)

LEMMA EmaScaleGrows ==
  ASSUME NEW p \in Nat \ {0}, NEW k \in Nat
  PROVE  /\ EmaScale(p, k) \in Nat \ {0}
         /\ EmaScale(p, k + 1) = (p + 1) * EmaScale(p, k)
<1> DEFINE a == Power(p + 1, k)
<1>1. p + 1 \in Nat \ {0}
  OBVIOUS
<1>2. a \in Nat \ {0} /\ Power(p + 1, k + 1) = (p + 1) * a
  BY <1>1, PowerFacts
<1>3. EmaScale(p, k) = p * a /\ EmaScale(p, k + 1) = p * ((p + 1) * a)
  BY <1>2 DEF EmaScale
<1> HIDE DEF a
<1>4. \A x, y \in Nat \ {0} : x * y \in Nat \ {0} /\ x * ((x + 1) * y) = (x + 1) * (x * y)
  OBVIOUS
<1> QED
  BY <1>2, <1>3, <1>4

\* The average as a recurrence: a value weighs 2 / (p + 1), the past the rest.
LEMMA EmaUnrolls ==
  ASSUME NEW values \in Seq(Nat), NEW p \in Nat \ {0}, p <= Len(values)
  PROVE  /\ \A k \in 0..Len(values) - p : Ema(values, p)[k] \in Int
         /\ \A k \in 1..Len(values) - p :
              Ema(values, p)[k] = 2 * EmaScale(p, k - 1) * values[p + k] + (p - 1) * Ema(values, p)[k - 1]
<1> DEFINE n == Len(values) - p
           first == Total(SubSeq(values, 1, p))
           term(k) == 2 * EmaScale(p, k - 1) * values[p + k]
           body(f) == [k \in 0..n |-> IF k = 0 THEN first ELSE term(k) + (p - 1) * f[k - 1]]
           ema == CHOOSE f : f = body(f)
           Turn == [k \in 1..n |-> [v \in Int |-> term(k) + (p - 1) * v]]
<1>1. n \in Nat /\ \A i \in 1..Len(values) : values[i] \in Nat
  OBVIOUS
<1>2. first \in Int
  <2> DEFINE head == SubSeq(values, 1, p)
  <2>1. \A i \in 1..p : values[i] \in Int
    BY <1>1
  <2>2. head \in Seq(Int)
    BY <2>1, SubSeqProperties
  <2> HIDE DEF head
  <2>3. SumFunction(head) \in Int
    BY <2>2, SumOfSequence
  <2> QED
    BY <2>3 DEF Total, head
<1>3. \A k \in 1..n : term(k) \in Int
  <2> SUFFICES ASSUME NEW k \in 1..n
               PROVE  term(k) \in Int
    OBVIOUS
  <2>1. k - 1 \in Nat /\ p + k \in 1..Len(values)
    OBVIOUS
  <2>2. EmaScale(p, k - 1) \in Nat /\ values[p + k] \in Nat
    BY <1>1, <2>1, EmaScaleGrows
  <2>3. \A x, y \in Nat : 2 * x * y \in Int
    OBVIOUS
  <2> QED
    BY <2>2, <2>3
<1> HIDE DEF term, first
<1>4. /\ Turn \in StepsFrom(1, n, Int) /\ 1 \in Nat \ {0} /\ 1 <= n + 1
      /\ \A k \in 1..n : \A v \in Int : Turn[k][v] = term(k) + (p - 1) * v
  <2> DEFINE q == p - 1
             Linear(k) == [v \in Int |-> term(k) + q * v]
  <2>1. \A x, y, z \in Int : x + y * z \in Int
    OBVIOUS
  <2>2. \A k \in 1..n : Linear(k) \in [Int -> Int] /\ \A v \in Int : Linear(k)[v] = term(k) + q * v
    <3>1. q \in Int
      OBVIOUS
    <3> HIDE DEF q, n
    <3> QED
      BY <1>3, <2>1, <3>1
  <2>3. \A k \in 1..n : Turn[k] = Linear(k)
    <3> HIDE DEF n
    <3> QED
      OBVIOUS
  <2>4. Turn = [k \in 1..n |-> Linear(k)]
    OBVIOUS
  <2> HIDE DEF Turn, Linear
  <2>5. Turn \in [1..n -> [Int -> Int]]
    <3> HIDE DEF n
    <3> QED
      BY <2>2, <2>4
  <2>6. 1 \in Nat \ {0} /\ 1 <= n + 1
    BY <1>1
  <2> QED
    BY <2>2, <2>3, <2>5, <2>6, Zenon DEF StepsFrom
<1> HIDE DEF Turn
<1>5. PICK g : Follows(g, 1, n, Int, first, Turn)
  <2> HIDE DEF n
  <2> QED
    BY <1>1, <1>2, <1>4, RecursionFrom
<1>6. 1 - 1 = 0 /\ (\A k \in 1..n : k - 1 \in 0..n /\ k # 0) /\ \A k \in 0..n : k = 0 \/ k \in 1..n
  BY <1>1
<1>7. g \in [0..n -> Int] /\ g[0] = first /\ \A k \in 1..n : g[k] = term(k) + (p - 1) * g[k - 1]
  <2>1. g \in [0..n -> Int] /\ g[0] = first /\ \A k \in 1..n : g[k] = Turn[k][g[k - 1]]
    BY <1>5, <1>6, Zenon DEF Follows
  <2>2. \A k \in 1..n : g[k - 1] \in Int
    BY <1>6, <2>1
  <2> QED
    BY <1>4, <2>1, <2>2
<1>8. g = body(g)
  BY <1>6, <1>7
<1>9. ema = body(ema)
  <2> HIDE DEF body
  <2> QED
    BY <1>8
<1>10. Ema(values, p) = ema
  BY DEF Ema, term, first
<1> HIDE DEF ema
<1>11. ema[0] = first /\ \A k \in 1..n : ema[k] = term(k) + (p - 1) * ema[k - 1]
  <2>1. \A k \in 0..n : ema[k] = IF k = 0 THEN first ELSE term(k) + (p - 1) * ema[k - 1]
    <3> HIDE DEF n
    <3> QED
      BY <1>9, Zenon
  <2>2. 0 \in 0..n /\ \A k \in 1..n : k \in 0..n /\ k # 0
    BY <1>1
  <2> HIDE DEF n
  <2> QED
    BY <2>1, <2>2
<1> DEFINE G == {k \in 0..n : ema[k] \in Int}
<1>12. 0 \in G /\ \A k \in 1..n : k - 1 \in G => k \in G
  <2>1. \A x \in Int : (p - 1) * x \in Int
    OBVIOUS
  <2> QED
    BY <1>1, <1>2, <1>3, <1>6, <1>11, <2>1
<1>13. \A k \in 0..n : k \in G
  <2> HIDE DEF G, n
  <2> QED
    BY <1>1, <1>12, Induction
<1> QED
  BY <1>10, <1>11, <1>13 DEF term

\* Two averages of different memory cross upwards only below the price: with P < Q,
\* a and b the scales and A and B the averages before the last value x.
LEMMA CrossedByPrice ==
  ASSUME NEW P \in Nat, NEW Q \in Nat, 1 < P, P < Q, NEW a \in Nat \ {0}, NEW b \in Nat \ {0},
         NEW A \in Int, NEW B \in Int, NEW x \in Int,
         A * b < B * a,
         (2 * a * x + (P - 1) * A) * ((Q + 1) * b) > (2 * b * x + (Q - 1) * B) * ((P + 1) * a)
  PROVE  /\ (P + 1) * a * x > 2 * a * x + (P - 1) * A
         /\ (Q + 1) * b * x > 2 * b * x + (Q - 1) * B
<1> DEFINE M == A * b
           N == B * a
           Y == a * (b * x)
           c1 == (P - 1) * (Q + 1)
           c2 == (Q - 1) * (P + 1)
           c3 == 2 * (Q - P)
<1>1. M \in Int /\ N \in Int /\ Y \in Int /\ c1 \in Nat /\ c2 \in Nat /\ c3 \in Nat /\ c3 + c1 = c2 /\ c3 > 0
  <2>1. M \in Int /\ N \in Int /\ Y \in Int
    OBVIOUS
  <2>2. P - 1 \in Nat /\ Q - 1 \in Nat /\ P + 1 \in Nat /\ Q + 1 \in Nat
    OBVIOUS
  <2>3. \A u, v \in Nat : u * v \in Nat
    OBVIOUS
  <2>4. c3 \in Nat /\ c3 > 0
    OBVIOUS
  <2>5. c3 + c1 = c2
    OBVIOUS
  <2> QED
    BY <2>1, <2>2, <2>3, <2>4, <2>5
<1>2. (2 * a * x + (P - 1) * A) * ((Q + 1) * b) = 2 * (Q + 1) * Y + c1 * M
  OBVIOUS
<1>3. (2 * b * x + (Q - 1) * B) * ((P + 1) * a) = 2 * (P + 1) * Y + c2 * N
  OBVIOUS
<1>4. 2 * (Q + 1) * Y - 2 * (P + 1) * Y = c3 * Y
  OBVIOUS
<1>5. c3 * Y + c1 * M > c2 * N
  BY <1>2, <1>3, <1>4
<1>6. M < N
  OBVIOUS
<1> HIDE DEF M, N, Y, c1, c2, c3
<1>7. Y > N
  <2> SUFFICES ASSUME Y <= N PROVE FALSE
    BY <1>1
  <2>1. \A k \in Nat : \A u, v \in Int : u <= v => k * u <= k * v
    OBVIOUS
  <2>2. c3 * Y <= c3 * N /\ c1 * M <= c1 * N
    BY <1>1, <1>6, <2>1
  <2>3. (c3 + c1) * N = c3 * N + c1 * N
    BY <1>1
  <2>4. c3 * Y \in Int /\ c3 * N \in Int /\ c1 * M \in Int /\ c1 * N \in Int /\ c2 * N \in Int
    BY <1>1
  <2>5. c2 * N = c3 * N + c1 * N
    BY <1>1, <2>3
  <2> QED
    BY <1>5, <2>2, <2>4, <2>5
<1>8. \A k \in Nat \ {0} : \A u, v \in Int : k * u < k * v => u < v
  OBVIOUS
<1>9. a * x > A
  <2>1. b * A < b * (a * x)
    BY <1>1, <1>6, <1>7 DEF M, Y
  <2> QED
    BY <1>8, <2>1
<1>10. b * x > B
  <2>1. a * B < a * (b * x)
    BY <1>7 DEF N, Y
  <2> QED
    BY <1>8, <2>1
<1>11. \A k \in Nat \ {0} : \A u, v \in Int : u < v => k * u < k * v
  OBVIOUS
<1>12. (P - 1) * A < (P - 1) * (a * x) /\ (Q - 1) * B < (Q - 1) * (b * x)
  BY <1>9, <1>10, <1>11
<1>13. /\ (P + 1) * a * x = 2 * a * x + (P - 1) * (a * x)
       /\ (Q + 1) * b * x = 2 * b * x + (Q - 1) * (b * x)
  OBVIOUS
<1> QED
  BY <1>12, <1>13

\* Of finitely many integers there is a least and a greatest.
LEMMA Extremes ==
  ASSUME NEW S, IsFiniteSet(S), S \subseteq Int, S # {}
  PROVE  /\ Min(S) \in S /\ \A x \in S : Min(S) <= x
         /\ Max(S) \in S /\ \A x \in S : Max(S) >= x
<1> DEFINE Bounded(T) == \E x, z \in T : \A y \in T : x <= y /\ z >= y
           G == {T \in SUBSET S : T = {} \/ Bounded(T)}
<1>1. {} \in G
  OBVIOUS
<1>2. ASSUME NEW T \in SUBSET S, NEW e \in S, e \notin T, T \in G
      PROVE  T \union {e} \in G
  <2>1. CASE T = {}
    <3>1. T \union {e} = {e} /\ e <= e /\ e >= e
      BY <2>1
    <3>2. \A y \in {e} : e <= y /\ e >= y
      BY <3>1
    <3>3. Bounded(T \union {e})
      BY <3>1, <3>2
    <3> QED
      BY <3>3
  <2>2. CASE T # {}
    <3>1. PICK x, z \in T : \A y \in T : x <= y /\ z >= y
      BY <1>2, <2>2
    <3> DEFINE low == IF e <= x THEN e ELSE x
               high == IF e >= z THEN e ELSE z
    <3>2. e \in Int /\ x \in Int /\ z \in Int /\ \A y \in T : y \in Int
      OBVIOUS
    <3>3. \A y \in T \union {e} : low <= y /\ high >= y
      BY <3>1, <3>2
    <3>4. low \in T \union {e} /\ high \in T \union {e}
      OBVIOUS
    <3> HIDE DEF low, high
    <3>5. Bounded(T \union {e})
      BY <3>3, <3>4
    <3> QED
      BY <3>5
  <2> QED
    BY <2>1, <2>2
<1>3. S \in G
  <2> HIDE DEF G
  <2> QED
    BY <1>1, <1>2, SetInduction
<1>4. PICK x, z \in S : \A y \in S : x <= y /\ z >= y
  BY <1>3
<1>5. Min(S) \in S /\ \A y \in S : Min(S) <= y
  BY <1>4 DEF Min
<1>6. Max(S) \in S /\ \A y \in S : Max(S) >= y
  BY <1>4 DEF Max
<1> QED
  BY <1>5, <1>6

\* The newest values are the last ones, in their order.
LEMMA NewestAre ==
  ASSUME NEW V, NEW values \in Seq(V), NEW n \in Nat
  PROVE  /\ Newest(n, values) \in Seq(V)
         /\ Len(Newest(n, values)) <= n
         /\ \A i \in 1..Len(values) : i > Len(values) - n => \E j \in 1..Len(Newest(n, values)) : Newest(n, values)[j] = values[i]
<1> DEFINE N == Len(values)
           m == (IF N > n THEN N - n ELSE 0) + 1
           newest == SubSeq(values, m, N)
<1>1. N \in Nat /\ m \in Int /\ m >= 1 /\ m > N - n /\ \A i \in m..N : values[i] \in V
  OBVIOUS
<1>2. N - m + 1 <= n /\ \A i \in 1..N : i > N - n => i \in m..N
  OBVIOUS
<1> HIDE DEF N, m
<1>3. /\ newest \in Seq(V)
      /\ Len(newest) = IF m <= N THEN N - m + 1 ELSE 0
      /\ \A j \in 1..N - m + 1 : newest[j] = values[m + j - 1]
  BY <1>1, SubSeqProperties
<1>4. Newest(n, values) = newest
  BY DEF Newest, N, m
<1> HIDE DEF newest
<1>5. Len(newest) <= n
  BY <1>1, <1>2, <1>3
<1>6. ASSUME NEW i \in 1..N, i > N - n
      PROVE  \E j \in 1..Len(newest) : newest[j] = values[i]
  <2> DEFINE j == i - m + 1
  <2>1. i \in m..N
    BY <1>2, <1>6
  <2>2. j \in 1..N - m + 1 /\ m + j - 1 = i /\ m <= N
    BY <1>1, <2>1
  <2>3. Len(newest) = N - m + 1
    BY <1>3, <2>2
  <2> HIDE DEF j
  <2> QED
    BY <1>3, <2>2, <2>3
<1> QED
  BY <1>3, <1>4, <1>5, <1>6 DEF N

\* The stop is at the extreme of the recent candles, and the entry on its other side.
LEMMA SwingBounds ==
  ASSUME NEW candles \in Seq(Market), candles # <<>>
  PROVE  /\ Swing(candles, "long") \in Int /\ Swing(candles, "short") \in Int
         /\ \A i \in 1..Len(candles) : i > Len(candles) - Lookback =>
              Swing(candles, "long") <= candles[i].low /\ Swing(candles, "short") >= candles[i].high
<1> DEFINE newest == Newest(Lookback, candles)
           R == Range(newest)
           lowOf == [c \in R |-> c.low]
           highOf == [c \in R |-> c.high]
           lows == {c.low : c \in R}
           highs == {c.high : c \in R}
           N == Len(candles)
<1>1. Lookback \in Nat \ {0} /\ N \in Nat \ {0}
  BY AnalystAssumption
<1>2. /\ newest \in Seq(Market)
      /\ \A i \in 1..N : i > N - Lookback => \E j \in 1..Len(newest) : newest[j] = candles[i]
  BY <1>1, NewestAre
<1>3. IsFiniteSet(R) /\ R = Image(newest, 1..Len(newest)) /\ R \subseteq Market
  <2> HIDE DEF newest
  <2>1. R = Image(newest, 1..Len(newest))
    BY <1>2 DEF Range, Image
  <2>2. Len(newest) \in Nat
    BY <1>2
  <2>3. IsFiniteSet(1..Len(newest))
    BY <2>2, FS_Interval
  <2> HIDE DEF R
  <2>4. IsFiniteSet(R)
    BY <2>1, <2>3, ImageSize
  <2> QED
    BY <1>2, <2>1, <2>4 DEF Image
<1>4. \A i \in 1..N : i > N - Lookback => candles[i] \in R
  <2> HIDE DEF newest, R, N
  <2> QED
    BY <1>2, <1>3 DEF Image
<1>5. candles[N] \in R
  <2>1. N \in 1..N /\ N > N - Lookback
    BY <1>1
  <2> HIDE DEF R, N
  <2> QED
    BY <1>4, <2>1
<1>6. \A c \in R : c.low \in Int /\ c.high \in Int
  <2> HIDE DEF R
  <2> QED
    BY <1>3, AnalystAssumption
<1> HIDE DEF R, newest, N
<1>7. lows = Image(lowOf, R) /\ highs = Image(highOf, R)
  BY DEF Image
<1>8. IsFiniteSet(lows) /\ IsFiniteSet(highs)
  <2> HIDE DEF lows, highs, lowOf, highOf
  <2> QED
    BY <1>3, <1>7, ImageSize
<1>9. /\ lows \subseteq Int /\ lows # {} /\ highs \subseteq Int /\ highs # {}
      /\ \A c \in R : c.low \in lows /\ c.high \in highs
  BY <1>5, <1>6
<1>10. Swing(candles, "long") = Min(lows) /\ Swing(candles, "short") = Max(highs)
  BY DEF Swing, R, newest
<1> HIDE DEF lows, highs
<1>11. Min(lows) \in Int /\ \A x \in lows : Min(lows) <= x
  BY <1>8, <1>9, Extremes
<1>12. Max(highs) \in Int /\ \A x \in highs : Max(highs) >= x
  BY <1>8, <1>9, Extremes
<1> QED
  BY <1>4, <1>9, <1>10, <1>11, <1>12 DEF N

\* Where the price is relative to the average over p candles, in the average's scale.
Above(price, closes, p) ==
  price * EmaScale(p, Len(closes) - p) - Ema(closes, p)[Len(closes) - p]

\* A crossing on the last candle leaves its close beyond both averages.
LEMMA CrossingPassesBoth ==
  ASSUME NEW closes \in Seq(Nat), Len(closes) > SlowPeriod
  PROVE  LET x == closes[Len(closes)]
         IN  /\ Lead(closes, 1) < 0 /\ Lead(closes, 0) > 0
                  => Above(x, closes, FastPeriod) > 0 /\ Above(x, closes, SlowPeriod) > 0
             /\ Lead(closes, 1) > 0 /\ Lead(closes, 0) < 0
                  => Above(x, closes, FastPeriod) < 0 /\ Above(x, closes, SlowPeriod) < 0
<1> DEFINE N == Len(closes)
           x == closes[N]
           P == FastPeriod
           Q == SlowPeriod
           f == N - P
           s == N - Q
           a == EmaScale(P, f - 1)
           b == EmaScale(Q, s - 1)
           A == Ema(closes, P)[f - 1]
           B == Ema(closes, Q)[s - 1]
           C == 2 * a * x + (P - 1) * A
           D == 2 * b * x + (Q - 1) * B
<1>1. /\ P \in Nat \ {0} /\ Q \in Nat \ {0} /\ 1 < P /\ P < Q /\ N \in Nat /\ P <= N /\ Q <= N
      /\ f - 1 \in Nat /\ s - 1 \in Nat /\ f - 1 \in 0..f /\ s - 1 \in 0..s /\ f \in 1..f /\ s \in 1..s
      /\ f - 1 + 1 = f /\ s - 1 + 1 = s /\ P + f = N /\ Q + s = N /\ x \in Int
  <2>1. FastPeriod \in Nat \ {0} /\ SlowPeriod \in Nat /\ SlowPeriod > FastPeriod /\ FastPeriod > 1
    BY AnalystAssumption
  <2>2. N \in Nat /\ N > SlowPeriod /\ \A i \in 1..N : closes[i] \in Nat
    OBVIOUS
  <2> HIDE DEF N
  <2>3. N \in 1..N
    BY <2>1, <2>2
  <2> QED
    BY <2>1, <2>2, <2>3
<1>2. N - P - 1 = f - 1 /\ N - Q - 1 = s - 1 /\ N - P - 0 = f /\ N - Q - 0 = s
  BY <1>1
<1>3. a \in Nat \ {0} /\ b \in Nat \ {0} /\ EmaScale(P, f) = (P + 1) * a /\ EmaScale(Q, s) = (Q + 1) * b
  <2> HIDE DEF P, Q, f, s, N
  <2> QED
    BY <1>1, EmaScaleGrows
<1>4. A \in Int /\ Ema(closes, P)[f] = 2 * a * closes[P + f] + (P - 1) * A
  <2>1. /\ \A k \in 0..N - P : Ema(closes, P)[k] \in Int
        /\ \A k \in 1..N - P :
             Ema(closes, P)[k] = 2 * EmaScale(P, k - 1) * closes[P + k] + (P - 1) * Ema(closes, P)[k - 1]
    <3> HIDE DEF P
    <3> QED
      BY <1>1, EmaUnrolls
  <2>2. /\ \A k \in 0..f : Ema(closes, P)[k] \in Int
        /\ \A k \in 1..f :
             Ema(closes, P)[k] = 2 * EmaScale(P, k - 1) * closes[P + k] + (P - 1) * Ema(closes, P)[k - 1]
    BY <2>1
  <2> HIDE DEF P, f
  <2> QED
    BY <1>1, <2>2
<1>5. B \in Int /\ Ema(closes, Q)[s] = 2 * b * closes[Q + s] + (Q - 1) * B
  <2>1. /\ \A k \in 0..N - Q : Ema(closes, Q)[k] \in Int
        /\ \A k \in 1..N - Q :
             Ema(closes, Q)[k] = 2 * EmaScale(Q, k - 1) * closes[Q + k] + (Q - 1) * Ema(closes, Q)[k - 1]
    <3> HIDE DEF Q
    <3> QED
      BY <1>1, EmaUnrolls
  <2>2. /\ \A k \in 0..s : Ema(closes, Q)[k] \in Int
        /\ \A k \in 1..s :
             Ema(closes, Q)[k] = 2 * EmaScale(Q, k - 1) * closes[Q + k] + (Q - 1) * Ema(closes, Q)[k - 1]
    BY <2>1
  <2> HIDE DEF Q, s
  <2> QED
    BY <1>1, <2>2
<1>6. Ema(closes, P)[f] = C /\ Ema(closes, Q)[s] = D
  <2> HIDE DEF P, Q, f, s, N, A, B, a, b
  <2> QED
    BY <1>1, <1>4, <1>5 DEF x
<1>7. Lead(closes, 1) = A * b - B * a
  BY <1>2 DEF Lead
<1>8. Lead(closes, 0) = C * ((Q + 1) * b) - D * ((P + 1) * a)
  <2>1. Lead(closes, 0) = Ema(closes, P)[f] * EmaScale(Q, s) - Ema(closes, Q)[s] * EmaScale(P, f)
    BY <1>2 DEF Lead
  <2> HIDE DEF P, Q, f, s, C, D, a, b
  <2> QED
    BY <1>3, <1>6, <2>1
<1>9. Above(x, closes, P) = x * ((P + 1) * a) - C /\ Above(x, closes, Q) = x * ((Q + 1) * b) - D
  <2>1. /\ Above(x, closes, P) = x * EmaScale(P, f) - Ema(closes, P)[f]
        /\ Above(x, closes, Q) = x * EmaScale(Q, s) - Ema(closes, Q)[s]
    BY DEF Above
  <2> HIDE DEF P, Q, f, s, C, D, a, b
  <2> QED
    BY <1>3, <1>6, <2>1
<1>10. P \in Nat /\ Q \in Nat
  BY <1>1
<1> HIDE DEF P, Q, f, s, N, A, B, a, b, x
<1>11. C \in Int /\ D \in Int /\ A * b \in Int /\ B * a \in Int
       /\ C * ((Q + 1) * b) \in Int /\ D * ((P + 1) * a) \in Int
       /\ x * ((P + 1) * a) = (P + 1) * a * x /\ x * ((Q + 1) * b) = (Q + 1) * b * x
       /\ (P + 1) * a * x \in Int /\ (Q + 1) * b * x \in Int
  <2>1. \A u, v \in Int : u * v \in Int /\ u + v \in Int
    OBVIOUS
  <2>2. (P - 1) \in Int /\ (Q - 1) \in Int /\ P + 1 \in Int /\ Q + 1 \in Int /\ a \in Int /\ b \in Int
    BY <1>1, <1>3
  <2>3. C \in Int /\ D \in Int
    BY <1>1, <1>4, <1>5, <2>1, <2>2
  <2>4. A * b \in Int /\ B * a \in Int /\ (P + 1) * a \in Int /\ (Q + 1) * b \in Int
    BY <1>4, <1>5, <2>1, <2>2
  <2>5. C * ((Q + 1) * b) \in Int /\ D * ((P + 1) * a) \in Int
    <3> HIDE DEF C, D
    <3> QED
      BY <2>1, <2>3, <2>4
  <2>6. (P + 1) * a * x \in Int /\ (Q + 1) * b * x \in Int
    BY <1>1, <2>1, <2>4
  <2>7. \A u, v \in Int : u * v = v * u
    OBVIOUS
  <2>8. x * ((P + 1) * a) = (P + 1) * a * x /\ x * ((Q + 1) * b) = (Q + 1) * b * x
    BY <1>1, <2>4, <2>7
  <2> QED
    BY <2>3, <2>4, <2>5, <2>6, <2>8
<1>12. ASSUME Lead(closes, 1) < 0, Lead(closes, 0) > 0
       PROVE  Above(x, closes, P) > 0 /\ Above(x, closes, Q) > 0
  <2>1. A * b < B * a
    BY <1>7, <1>11, <1>12
  <2>2. C * ((Q + 1) * b) > D * ((P + 1) * a)
    <3> HIDE DEF C, D
    <3> QED
      BY <1>8, <1>11, <1>12
  <2>3. (P + 1) * a * x > C /\ (Q + 1) * b * x > D
    BY <1>1, <1>3, <1>4, <1>5, <1>10, <2>1, <2>2, CrossedByPrice
  <2> HIDE DEF C, D
  <2> QED
    BY <1>9, <1>11, <2>3
<1>13. ASSUME Lead(closes, 1) > 0, Lead(closes, 0) < 0
       PROVE  Above(x, closes, P) < 0 /\ Above(x, closes, Q) < 0
  <2> DEFINE nA == -A
             nB == -B
             nx == -x
             nC == 2 * a * nx + (P - 1) * nA
             nD == 2 * b * nx + (Q - 1) * nB
  <2>1. nA \in Int /\ nB \in Int /\ nx \in Int
    BY <1>1, <1>4, <1>5
  <2>2. \A u, v \in Int : (-u) * v = -(u * v) /\ v * (-u) = -(v * u)
    OBVIOUS
  <2>3. nA * b = -(A * b) /\ nB * a = -(B * a)
    BY <1>3, <1>4, <1>5, <2>2
  <2>4. nA * b < nB * a
    <3>1. A * b > B * a
      BY <1>7, <1>11, <1>13
    <3>2. -(A * b) < -(B * a)
      BY <1>11, <3>1
    <3> HIDE DEF nA, nB
    <3> QED
      BY <2>3, <3>2
  <2>5. nC = -C /\ nD = -D
    <3>1. \A p \in Int, u, v, w \in Int : 2 * u * (-v) + (p - 1) * (-w) = -(2 * u * v + (p - 1) * w)
      OBVIOUS
    <3> QED
      BY <1>1, <1>3, <1>4, <1>5, <1>10, <3>1
  <2> HIDE DEF nA, nB, nx
  <2>6. nC * ((Q + 1) * b) > nD * ((P + 1) * a)
    <3> HIDE DEF nC, nD, C, D
    <3>1. (Q + 1) * b \in Int /\ (P + 1) * a \in Int
      BY <1>1, <1>3
    <3>2. nC * ((Q + 1) * b) = -(C * ((Q + 1) * b)) /\ nD * ((P + 1) * a) = -(D * ((P + 1) * a))
      BY <1>11, <2>2, <2>5, <3>1
    <3> QED
      BY <1>8, <1>11, <1>13, <3>2
  <2>7. (P + 1) * a * nx > nC /\ (Q + 1) * b * nx > nD
    BY <1>1, <1>3, <1>10, <2>1, <2>4, <2>6, CrossedByPrice
  <2>8. (P + 1) * a * nx = -((P + 1) * a * x) /\ (Q + 1) * b * nx = -((Q + 1) * b * x)
    <3>1. (Q + 1) * b \in Int /\ (P + 1) * a \in Int
      BY <1>1, <1>3
    <3> QED
      BY <1>1, <2>2, <3>1 DEF nx
  <2> HIDE DEF nC, nD, C, D
  <2>9. -((P + 1) * a * x) > -C /\ -((Q + 1) * b * x) > -D
    BY <2>5, <2>7, <2>8
  <2>10. (P + 1) * a * x < C /\ (Q + 1) * b * x < D
    <3>1. \A u, v \in Int : -u > -v => u < v
      OBVIOUS
    <3> QED
      BY <1>11, <2>9, <3>1
  <2> QED
    BY <1>9, <1>11, <2>10
<1> QED
  BY <1>12, <1>13 DEF P, Q, x, N

\* A signal names its direction by the crossing, enters at the last close and
\* stops at the swing.
LEMMA SignalIs ==
  ASSUME NEW candles \in Seq(Market), NEW signal \in Analyze(candles)
  PROVE  LET closes == [i \in DOMAIN candles |-> candles[i].close]
             levels == signal.levels
         IN  /\ Len(candles) > SlowPeriod
             /\ levels.entry_price = candles[Len(candles)].close
             /\ \/ levels.direction = "long" /\ Lead(closes, 1) < 0 /\ Lead(closes, 0) > 0
                \/ levels.direction = "short" /\ Lead(closes, 1) > 0 /\ Lead(closes, 0) < 0
             /\ levels.stop_loss = Swing(candles, levels.direction)
             /\ signal.confidence \in {"high", "medium"}
<1> DEFINE closes == [i \in DOMAIN candles |-> candles[i].close]
           N == Len(candles)
           entry == candles[N].close
           direction == IF Crossover(closes) = "bullish" THEN "long" ELSE "short"
           swing == Swing(candles, direction)
           levels == Levels(direction, entry, Distance(entry, swing))
<1>1. N >= MinCandles
  <2>1. ~(N < MinCandles)
    BY Zenon DEF Analyze, NoSignal
  <2>2. N \in Nat /\ MinCandles \in Nat
    BY AnalystAssumption
  <2> QED
    BY <2>1, <2>2
<1>2. Crossover(closes) # "none"
  BY Zenon DEF Analyze, NoSignal
<1>3. signal.levels = levels /\ signal.confidence \in {"high", "medium"}
  <2> DEFINE rating == IF Rsi(closes) \in 4000..6000 THEN "high" ELSE "medium"
             volumes == [i \in DOMAIN candles |-> candles[i].volume]
             rejected == \/ Crossover(closes) = "none"
                         \/ direction = "long" /\ Rsi(closes) >= RsiOverbought
                         \/ direction = "short" /\ Rsi(closes) <= RsiOversold
                         \/ ~AboveAverageVolume(volumes)
             given == [levels |-> levels, confidence |-> rating]
  <2>1. Analyze(candles) = IF N < MinCandles THEN {} ELSE IF rejected THEN {} ELSE {given}
    BY Zenon DEF Analyze, NoSignal
  <2>2. given.levels = levels /\ given.confidence = rating /\ rating \in {"high", "medium"}
    <3>1. rating \in {"high", "medium"}
      OBVIOUS
    <3> HIDE DEF levels, rating
    <3> QED
      BY <3>1
  <2> HIDE DEF levels, given, rejected, rating, N
  <2>3. signal = given
    BY <2>1
  <2> QED
    BY <2>2, <2>3
<1>4. N \in Nat /\ N > SlowPeriod /\ N > 0 /\ candles # <<>> /\ N \in 1..N
  BY <1>1, AnalystAssumption
<1>5. \/ direction = "long" /\ Lead(closes, 1) < 0 /\ Lead(closes, 0) > 0
      \/ direction = "short" /\ Lead(closes, 1) > 0 /\ Lead(closes, 0) < 0
  <2> HIDE DEF closes
  <2> QED
    BY <1>2 DEF Crossover
<1>6. candles[N] \in Market /\ candles[N].low \in Nat /\ entry \in Nat /\ candles[N].high \in Nat
      /\ candles[N].low <= entry /\ entry <= candles[N].high
  <2>1. candles[N] \in Market
    BY <1>4
  <2> QED
    BY <2>1, AnalystAssumption
<1>7. /\ Swing(candles, "long") \in Int /\ Swing(candles, "short") \in Int
      /\ Swing(candles, "long") <= candles[N].low /\ Swing(candles, "short") >= candles[N].high
  <2>1. N > N - Lookback
    BY <1>4, AnalystAssumption
  <2> QED
    BY <1>4, <2>1, SwingBounds DEF N
<1>8. levels.stop_loss = swing /\ levels.direction = direction /\ levels.entry_price = entry
  <2> DEFINE d == Distance(entry, swing)
             side == IF direction = "long" THEN 1 ELSE -1
  <2>1. direction = "long" \/ direction = "short"
    OBVIOUS
  <2> HIDE DEF direction, entry
  <2>2. ASSUME direction = "long" PROVE entry - side * d = swing
    <3>1. swing \in Int /\ swing <= entry /\ entry \in Int
      BY <1>6, <1>7, <2>2
    <3> HIDE DEF swing
    <3> QED
      BY <2>2, <3>1 DEF Distance
  <2>3. ASSUME direction = "short" PROVE entry - side * d = swing
    <3>1. swing \in Int /\ swing >= entry /\ entry \in Int
      BY <1>6, <1>7, <2>3
    <3> HIDE DEF swing
    <3> QED
      BY <2>3, <3>1 DEF Distance
  <2>4. entry - side * d = swing
    BY <2>1, <2>2, <2>3
  <2>5. /\ levels.stop_loss = entry - side * d
        /\ levels.direction = direction /\ levels.entry_price = entry
    <3> HIDE DEF swing
    <3> QED
      BY DEF Levels
  <2> HIDE DEF levels, d, side, swing
  <2> QED
    BY <2>4, <2>5
<1> HIDE DEF levels, direction, closes, entry, swing
<1> QED
  BY <1>3, <1>4, <1>5, <1>8 DEF swing, entry, closes

-----------------------------------------------------------------------------
(* The advice is always the analysis of the window it was given with.      *)

\* TechnicalAnalyst!SignalFollowsPrice, of any such pair.
FollowsPrice(candles, signals) ==
  \A signal \in signals :
    LET closes == [i \in DOMAIN candles |-> candles[i].close]
        price == signal.levels.entry_price
        recent == {i \in DOMAIN candles : i > Len(candles) - Lookback}
    IN  IF signal.levels.direction = "long"
        THEN /\ Above(price, closes, FastPeriod) > 0 /\ Above(price, closes, SlowPeriod) > 0
             /\ \A i \in recent : signal.levels.stop_loss <= candles[i].low
        ELSE /\ Above(price, closes, FastPeriod) < 0 /\ Above(price, closes, SlowPeriod) < 0
             /\ \A i \in recent : signal.levels.stop_loss >= candles[i].high

LEMMA AnalysisFollowsPrice ==
  ASSUME NEW candles \in Seq(Market)
  PROVE  FollowsPrice(candles, Analyze(candles))
<1> SUFFICES ASSUME NEW signal \in Analyze(candles)
             PROVE  FollowsPrice(candles, {signal})
  BY Zenon DEF FollowsPrice
<1> DEFINE closes == [i \in DOMAIN candles |-> candles[i].close]
           N == Len(candles)
           levels == signal.levels
           price == levels.entry_price
<1>1. /\ N > SlowPeriod /\ price = candles[N].close
      /\ \/ levels.direction = "long" /\ Lead(closes, 1) < 0 /\ Lead(closes, 0) > 0
         \/ levels.direction = "short" /\ Lead(closes, 1) > 0 /\ Lead(closes, 0) < 0
      /\ levels.stop_loss = Swing(candles, levels.direction)
  BY SignalIs, Zenon
<1>2. N \in Nat /\ N \in 1..N /\ candles # <<>> /\ DOMAIN candles = 1..N
  BY <1>1, AnalystAssumption
<1>3. closes \in Seq(Nat) /\ Len(closes) = N /\ closes[N] = price
  <2>1. \A i \in 1..N : candles[i] \in Market
    OBVIOUS
  <2>2. \A i \in 1..N : candles[i].close \in Nat
    BY <2>1, AnalystAssumption
  <2> QED
    BY <1>1, <1>2, <2>2
<1> HIDE DEF closes, N
<1>4. \/ /\ levels.direction = "long"
         /\ Above(price, closes, FastPeriod) > 0 /\ Above(price, closes, SlowPeriod) > 0
      \/ /\ levels.direction = "short"
         /\ Above(price, closes, FastPeriod) < 0 /\ Above(price, closes, SlowPeriod) < 0
  <2> HIDE DEF levels
  <2>1. Len(closes) > SlowPeriod /\ closes[Len(closes)] = price
    BY <1>1, <1>3
  <2> HIDE DEF price
  <2>2. /\ Lead(closes, 1) < 0 /\ Lead(closes, 0) > 0
             => Above(price, closes, FastPeriod) > 0 /\ Above(price, closes, SlowPeriod) > 0
        /\ Lead(closes, 1) > 0 /\ Lead(closes, 0) < 0
             => Above(price, closes, FastPeriod) < 0 /\ Above(price, closes, SlowPeriod) < 0
    BY <1>3, <2>1, CrossingPassesBoth
  <2> QED
    BY <1>1, <2>2
<1>5. \A i \in 1..N : i > N - Lookback =>
        Swing(candles, "long") <= candles[i].low /\ Swing(candles, "short") >= candles[i].high
  BY <1>2, SwingBounds DEF N
<1> HIDE DEF price, levels
<1>6. CASE levels.direction = "long"
  <2>1. \A i \in 1..N : i > N - Lookback => levels.stop_loss <= candles[i].low
    BY <1>1, <1>5, <1>6
  <2>2. Above(price, closes, FastPeriod) > 0 /\ Above(price, closes, SlowPeriod) > 0
    BY <1>4, <1>6
  <2> QED
    BY <1>2, <1>6, <2>1, <2>2 DEF FollowsPrice, price, levels, closes, N
<1>7. CASE levels.direction = "short"
  <2>1. \A i \in 1..N : i > N - Lookback => levels.stop_loss >= candles[i].high
    BY <1>1, <1>5, <1>7
  <2>2. Above(price, closes, FastPeriod) < 0 /\ Above(price, closes, SlowPeriod) < 0
    BY <1>4, <1>7
  <2> QED
    BY <1>2, <1>7, <2>1, <2>2 DEF FollowsPrice, price, levels, closes, N
<1> QED
  BY <1>4, <1>6, <1>7

AdviceInv ==
  /\ window \in Seq(Market) /\ Len(window) <= Fetched
  /\ advice = NoSignal \/ advice = Analyze(window)

LEMMA LookInv ==
  ASSUME AdviceInv, NEW candle \in Market, Look(candle)
  PROVE  AdviceInv'
<1>1. Append(window, candle) \in Seq(Market)
  BY DEF AdviceInv
<1>2. window' \in Seq(Market) /\ Len(window') <= Fetched
  BY <1>1, NewestAre, AnalystAssumption DEF Look
<1>3. advice' = Analyze(window')
  BY DEF Look
<1> QED
  BY <1>2, <1>3, Zenon DEF AdviceInv

LEMMA AdviceInvFollows == AdviceInv => SignalFollowsPrice
<1> SUFFICES ASSUME AdviceInv PROVE SignalFollowsPrice
  OBVIOUS
<1>1. FollowsPrice(window, advice)
  <2>1. FollowsPrice(window, Analyze(window))
    BY AnalysisFollowsPrice DEF AdviceInv
  <2>2. FollowsPrice(window, NoSignal)
    BY Zenon DEF FollowsPrice, NoSignal
  <2> QED
    BY <2>1, <2>2 DEF AdviceInv
<1> QED
  BY <1>1, Zenon DEF FollowsPrice, SignalFollowsPrice, Above

LEMMA AdviceInvariant == AnalystSpec => []AdviceInv
<1>1. AnalystInit => AdviceInv
  BY AnalystAssumption DEF AnalystInit, AdviceInv
<1>2. AdviceInv /\ [AnalystNext]_analystVars => AdviceInv'
  <2> SUFFICES ASSUME AdviceInv, [AnalystNext]_analystVars PROVE AdviceInv'
    OBVIOUS
  <2>1. CASE AnalystNext
    BY <2>1, LookInv DEF AnalystNext
  <2>2. CASE UNCHANGED analystVars
    BY <2>2, Zenon DEF AdviceInv, analystVars
  <2> QED
    BY <2>1, <2>2
<1> QED
  BY <1>1, <1>2, PTL DEF AnalystSpec

\* A long signal enters above both of its averages and a short one below them,
\* with the stop beyond every recent candle: for every market whose closes lie
\* between their lows and highs, and any two periods (technical.py:analyze).
THEOREM SignalsFollowPrice == AnalystSpec => []SignalFollowsPrice
BY AdviceInvariant, AdviceInvFollows, PTL

\* Whatever the market, the window never holds more than the coordinator fetches, and
\* a signal has a direction and a confidence.
THEOREM AnalystTypes == AnalystSpec => []AnalystTypeOK
<1>1. AdviceInv => AnalystTypeOK
  <2> SUFFICES ASSUME AdviceInv, NEW signal \in advice
               PROVE  /\ signal.levels.direction \in {"long", "short"}
                      /\ signal.confidence \in {"high", "medium"}
    BY DEF AdviceInv, AnalystTypeOK
  <2>1. window \in Seq(Market) /\ signal \in Analyze(window)
    BY DEF AdviceInv, NoSignal
  <2> QED
    BY <2>1, SignalIs, Zenon
<1> QED
  BY <1>1, AdviceInvariant, PTL

=============================================================================
