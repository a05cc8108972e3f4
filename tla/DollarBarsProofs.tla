-------------------------- MODULE DollarBarsProofs --------------------------
(***************************************************************************)
(* Proofs about DollarBars for every market, page size, threshold, flush   *)
(* interval and number of aborts. A page is ingested by a recursive        *)
(* function; what it yields is shown by one lemma (IngestedKeeps), an      *)
(* induction over the page's trades, which every invariant below uses with *)
(* a relation of its own between a trade and the state it leaves.          *)
(***************************************************************************)
EXTENDS DollarBars, DataFacts

-----------------------------------------------------------------------------
(* The inductive invariants.                                               *)

\* The exchange lists trades oldest first.
MarketSorted ==
  \A i, j \in DOMAIN market : i <= j => market[i].ts <= market[j].ts

\* Between runs nothing is left in memory, and only the last flush is final.
MemoryClean ==
  /\ pc = "down" => /\ cursor = NoTs /\ lastTs = 0 /\ acc = Empty /\ pending = <<>>
                    /\ lastPage = FALSE /\ final = FALSE
  /\ final => pc \in {"appending", "marking"} /\ acc = Empty

TypesInv == TypeOK /\ MarketSorted /\ MemoryClean

-----------------------------------------------------------------------------
(* Ingesting a page.                                                       *)

States == [acc : Bars, bars : Seq(Bars)]

LEMMA EmptyIsBar == Empty \in Bars
<1>1. <<>> \in Seq(Nat \ {0})
  OBVIOUS
<1> QED
  BY <1>1, BarsAssumption DEF Empty, Bars, NoTs

LEMMA AddedIsBar ==
  ASSUME market \in Seq(Trades), NEW a \in Bars, NEW i \in DOMAIN market
  PROVE  Add(a, i) \in Bars /\ Add(a, i).ids = Append(a.ids, i)
<1>1. market[i] \in Trades /\ i \in Nat \ {0}
  OBVIOUS
<1>2. /\ market[i].ts \in Nat /\ market[i].price \in Nat /\ market[i].amount \in Nat
  BY <1>1, BarsAssumption DEF Trades
<1>3. Append(a.ids, i) \in Seq(Nat \ {0})
  BY <1>1 DEF Bars
<1> DEFINE worth == market[i].price * market[i].amount
<1>4. worth \in Nat
  BY <1>2
<1> HIDE DEF worth
<1>5. /\ a.start \in Nat /\ a.last \in Nat /\ a.open \in Nat /\ a.high \in Nat /\ a.low \in Nat
      /\ a.volume \in Nat /\ a.dollars \in Nat /\ a.ticks \in Nat
  BY DEF Bars
<1>6. /\ a.dollars + worth \in Nat /\ a.volume + market[i].amount \in Nat
      /\ a.ticks + 1 \in Nat
  BY <1>2, <1>4, <1>5
<1>7. Greater(a.high, market[i].price) \in Nat /\ Lesser(a.low, market[i].price) \in Nat
  BY <1>2, <1>5 DEF Greater, Lesser
<1> DEFINE first == a.start = NoTs
<1>8. /\ (IF first THEN market[i].ts ELSE a.start) \in Nat
      /\ (IF first THEN market[i].price ELSE a.open) \in Nat
  BY <1>2, <1>5
<1> HIDE DEF first
<1> QED
  BY <1>2, <1>3, <1>6, <1>7, <1>8 DEF Add, Bars, worth, first

LEMMA IngestType ==
  ASSUME market \in Seq(Trades), NEW k \in DOMAIN market, NEW s \in States
  PROVE  Ingest(k, s) \in States
<1>1. Add(s.acc, k) \in Bars /\ s.bars \in Seq(Bars)
  BY AddedIsBar DEF States
<1> QED
  BY <1>1, EmptyIsBar DEF Ingest, States, Reset, Collect

\* Before trade i the accumulator and the pending bars are the run's; each trade
\* of the page is then ingested in turn.
LEMMA IngestedUnrolls ==
  ASSUME market \in Seq(Trades), acc \in Bars, pending \in Seq(Bars),
         NEW i \in Nat \ {0}, NEW j \in Nat, i <= j, i..j \subseteq DOMAIN market
  PROVE  \E after : /\ after[i - 1] = [acc |-> acc, bars |-> pending]
                    /\ \A k \in i..j : after[k] = Ingest(k, after[k - 1])
                    /\ Ingested(i, j) = after[j]
<1> DEFINE before == [acc |-> acc, bars |-> pending]
           Step == [k \in i..j |-> [s \in States |-> Ingest(k, s)]]
           body(f) == [k \in i - 1..j |-> IF k < i THEN before ELSE Ingest(k, f[k - 1])]
           after == CHOOSE f : f = body(f)
<1>1. i..j \subseteq DOMAIN market
  OBVIOUS
<1>2. before \in States
  BY DEF States
<1>3. Step \in StepsFrom(i, j, States)
  BY <1>1, IngestType DEF StepsFrom
<1>4. \A k \in i..j : \A s \in States : Step[k][s] = Ingest(k, s)
  OBVIOUS
<1>5. PICK h : Follows(h, i, j, States, before, Step)
  <2> HIDE DEF before, Step
  <2> QED
    BY <1>2, <1>3, RecursionFrom
<1> HIDE DEF before, Step
<1>6. h = body(h)
  <2>1. h \in [i - 1..j -> States] /\ h[i - 1] = before
        /\ \A k \in i..j : h[k] = Step[k][h[k - 1]]
    BY <1>5 DEF Follows
  <2>2. \A k \in i..j : k - 1 \in i - 1..j /\ ~(k < i)
    BY FromFacts
  <2>3. \A k \in i..j : h[k] = Ingest(k, h[k - 1])
    BY <1>4, <2>1, <2>2
  <2>4. \A k \in i - 1..j : h[k] = IF k < i THEN before ELSE Ingest(k, h[k - 1])
    BY <2>1, <2>2, <2>3, FromFacts
  <2> QED
    BY <2>1, <2>4
<1>7. after = body(after)
  BY <1>6, Zenon
<1>8. Ingested(i, j) = after[j]
  BY DEF Ingested, before
<1> HIDE DEF after
<1>9. after[i - 1] = before /\ \A k \in i..j : after[k] = Ingest(k, after[k - 1])
  BY <1>1, <1>7, FromFacts
<1> QED
  BY <1>8, <1>9 DEF before

\* Induction over the trades of a page: what holds of the state before trade i
\* and each trade hands on (G[k] has the states allowed after trade k) holds
\* after trade j.
LEMMA IngestedKeeps ==
  ASSUME market \in Seq(Trades), acc \in Bars, pending \in Seq(Bars),
         NEW i \in Nat \ {0}, NEW j \in Nat, i <= j, i..j \subseteq DOMAIN market,
         NEW G, [acc |-> acc, bars |-> pending] \in G[i - 1],
         \A k \in i..j : \A s \in States : s \in G[k - 1] => Ingest(k, s) \in G[k]
  PROVE  Ingested(i, j) \in States /\ Ingested(i, j) \in G[j]
<1>1. PICK after : /\ after[i - 1] = [acc |-> acc, bars |-> pending]
                   /\ \A k \in i..j : after[k] = Ingest(k, after[k - 1])
                   /\ Ingested(i, j) = after[j]
  BY IngestedUnrolls
<1>2. i..j \subseteq DOMAIN market
  OBVIOUS
<1>3. [acc |-> acc, bars |-> pending] \in States
  BY DEF States
<1> DEFINE Good == {k \in i - 1..j : after[k] \in States /\ after[k] \in G[k]}
<1>4. i - 1 \in Good
  BY <1>1, <1>2, <1>3, FromFacts
<1>5. \A k \in i..j : k - 1 \in Good => k \in Good
  <2>1. SUFFICES ASSUME NEW k \in i..j, k - 1 \in Good
                 PROVE  k \in Good
    OBVIOUS
  <2>2. k \in i - 1..j /\ k \in DOMAIN market
    BY <1>2, FromFacts
  <2> QED
    BY <1>1, <2>1, <2>2, IngestType
<1> HIDE DEF Good
<1>6. j \in Good
  BY <1>2, <1>4, <1>5, InductionFrom, FromFacts
<1> QED
  BY <1>1, <1>6 DEF Good

-----------------------------------------------------------------------------
(* The page a fetch returns.                                               *)

\* The market in order, with positive timestamps.
LEMMA TradeFacts ==
  ASSUME market \in Seq(Trades)
  PROVE  /\ Len(market) \in Nat /\ DOMAIN market = 1..Len(market)
         /\ \A i \in DOMAIN market : /\ market[i].ts \in Nat \ {0} /\ market[i].price \in Nat \ {0}
                                     /\ market[i].amount \in Nat \ {0}
                                     /\ market[i].price < Inf
<1>1. Len(market) \in Nat /\ DOMAIN market = 1..Len(market)
  OBVIOUS
<1>2. \A i \in DOMAIN market : market[i] \in Trades
  OBVIOUS
<1> QED
  BY <1>1, <1>2, BarsAssumption DEF Trades

\* A page is an interval of the market that starts at the first trade that is due.
LEMMA PageShape ==
  ASSUME market \in Seq(Trades), cursor \in Nat, MarketSorted, Page # {}
  PROVE  \E i \in Nat \ {0}, j \in Nat :
           /\ i <= j /\ i..j \subseteq DOMAIN market /\ Page = i..j
           /\ i = CHOOSE a \in Page : \A b \in Page : a <= b
           /\ j = CHOOSE a \in Page : \A b \in Page : a >= b
           /\ \A k \in DOMAIN market : k >= i <=> (cursor = NoTs \/ market[k].ts >= cursor)
<1> DEFINE n == Len(market)
           due == {k \in DOMAIN market : cursor = NoTs \/ market[k].ts >= cursor}
           before(k) == {m \in due : m < k}
<1>1. n \in Nat /\ DOMAIN market = 1..n
  BY TradeFacts
<1>2. due \in SUBSET (1..n)
  BY <1>1
<1>3. Page = {k \in due : Cardinality(before(k)) < PageSize}
  BY DEF Page
<1>4. \A k \in due : \A m \in 1..n : k <= m => m \in due
  <2>1. SUFFICES ASSUME NEW k \in due, NEW m \in 1..n, k <= m
                 PROVE  m \in due
    OBVIOUS
  <2>2. k \in DOMAIN market /\ m \in DOMAIN market
    BY <1>1, <2>1
  <2>3. market[k].ts <= market[m].ts
    BY <2>1, <2>2 DEF MarketSorted
  <2>4. market[k].ts \in Nat /\ market[m].ts \in Nat
    BY <2>2, TradeFacts
  <2> QED
    BY <2>1, <2>2, <2>3, <2>4
<1>5. IsFiniteSet(due) /\ \A S \in SUBSET due : IsFiniteSet(S) /\ Cardinality(S) \in Nat
  <2> HIDE DEF due, n
  <2>1. IsFiniteSet(1..n)
    BY <1>1, FS_Interval
  <2>2. IsFiniteSet(due)
    BY <1>2, <2>1, FS_Subset
  <2> QED
    BY <2>2, FS_Subset, FS_CardinalityType
<1>6. PICK i \in due : \A m \in due : i <= m
  <2>1. due # {}
    BY <1>3
  <2> HIDE DEF due, n
  <2> QED
    BY <1>1, <1>2, <2>1, LeastExists
<1>7. \A k \in due : k \in 1..n /\ before(k) \in SUBSET due
  BY <1>2
<1> HIDE DEF due
<1>8. i \in Page
  <2>1. before(i) = {}
    <3>1. \A m \in due : ~(m < i)
      BY <1>6, <1>7, <1>1
    <3> QED
      BY <3>1
  <2>2. Cardinality(before(i)) = 0
    BY <2>1, FS_EmptySet, Zenon
  <2> QED
    BY <1>3, <2>2, BarsAssumption
<1>9. PICK j \in Page : \A m \in Page : j >= m
  <2>1. Page \in SUBSET (1..n)
    BY <1>2, <1>3
  <2> HIDE DEF n
  <2> QED
    BY <1>1, <2>1, GreatestExists
<1>10. i \in 1..n /\ j \in 1..n /\ j \in due
  BY <1>2, <1>3, <1>6, <1>9
<1>11. ASSUME NEW k \in i..j
       PROVE  k \in Page
  <2>1. k \in 1..n /\ k \in due
    BY <1>1, <1>4, <1>6, <1>10, <1>11
  <2>2. before(k) \in SUBSET before(j)
    <3>1. \A m \in due : m < k => m < j
      BY <1>1, <1>7, <1>10, <2>1, <1>11
    <3> QED
      BY <3>1
  <2>3. before(j) \in SUBSET due
    BY <1>7, <1>10
  <2> HIDE DEF before
  <2>4. /\ Cardinality(before(k)) <= Cardinality(before(j))
        /\ Cardinality(before(k)) \in Nat /\ Cardinality(before(j)) \in Nat
    BY <1>5, <2>2, <2>3, FS_Subset
  <2>5. Cardinality(before(j)) < PageSize
    BY <1>3, <1>9
  <2> QED
    BY <1>3, <2>1, <2>4, <2>5, BarsAssumption
<1> HIDE DEF before
<1>12. \A k \in Page : k \in i..j
  BY <1>1, <1>2, <1>3, <1>6, <1>9, <1>10
<1>13. Page = i..j
  BY <1>11, <1>12
<1>14. \A a \in Page : (\A b \in Page : a <= b) => a = i
  BY <1>8, <1>10, <1>12, <1>13
<1>15. \A a \in Page : (\A b \in Page : a >= b) => a = j
  BY <1>9, <1>10, <1>12, <1>13
<1>16. i = CHOOSE a \in Page : \A b \in Page : a <= b
  <2>1. \A b \in Page : i <= b
    BY <1>3, <1>6
  <2> QED
    BY <1>8, <1>14, <2>1
<1>17. j = CHOOSE a \in Page : \A b \in Page : a >= b
  BY <1>9, <1>15
<1>18. \A k \in DOMAIN market : k >= i <=> k \in due
  BY <1>1, <1>4, <1>6, <1>10
<1>19. i \in Nat \ {0} /\ j \in Nat /\ i <= j /\ i..j \subseteq DOMAIN market
  BY <1>1, <1>8, <1>10, <1>12
<1> HIDE DEF n
<1> QED
  BY <1>13, <1>16, <1>17, <1>18, <1>19 DEF due

\* What FetchPage does: it ingests the trades i..j, which are the first that are due.
LEMMA PageFetched ==
  ASSUME market \in Seq(Trades), cursor \in Nat, MarketSorted, FetchPage
  PROVE  \E i \in Nat \ {0}, j \in Nat :
           /\ i <= j /\ i..j \subseteq DOMAIN market /\ j \in DOMAIN market
           /\ \A k \in DOMAIN market : k >= i <=> (cursor = NoTs \/ market[k].ts >= cursor)
           /\ acc' = Ingested(i, j).acc /\ pending' = Ingested(i, j).bars
           /\ lastTs' = market[j].ts
           /\ lastPage' \in BOOLEAN /\ UNCHANGED <<market, final, file, aborts, overrides>>
           /\ \/ pc' = "appending" /\ cursor' = cursor /\ FlushDue(pending')
              \/ pc' = "closing" /\ cursor' = cursor /\ ~FlushDue(pending')
              \/ pc' = "fetching" /\ cursor' = NextCursor(lastTs') /\ ~FlushDue(pending')
<1>1. PICK i \in Nat \ {0}, j \in Nat :
           /\ i <= j /\ i..j \subseteq DOMAIN market /\ Page = i..j
           /\ i = CHOOSE a \in Page : \A b \in Page : a <= b
           /\ j = CHOOSE a \in Page : \A b \in Page : a >= b
           /\ \A k \in DOMAIN market : k >= i <=> (cursor = NoTs \/ market[k].ts >= cursor)
  BY PageShape DEF FetchPage
<1> DEFINE first == CHOOSE a \in Page : \A b \in Page : a <= b
           newest == CHOOSE a \in Page : \A b \in Page : a >= b
<1>2. first = i /\ newest = j
  BY <1>1, Zenon
<1>3. /\ acc' = Ingested(first, newest).acc /\ pending' = Ingested(first, newest).bars
      /\ lastTs' = market[newest].ts /\ lastPage' = Short(Page)
      /\ IF FlushDue(Ingested(first, newest).bars)
         THEN pc' = "appending" /\ UNCHANGED cursor
         ELSE TurnPage(Short(Page), market[newest].ts)
      /\ UNCHANGED <<market, final, file, aborts, overrides>>
  BY Zenon DEF FetchPage
<1> HIDE DEF first, newest
<1>4. Short(Page) \in BOOLEAN
  BY DEF Short
<1>5. j \in DOMAIN market
  <2>1. j \in i..j
    BY <1>1
  <2> QED
    BY <1>1, <2>1
<1>6. /\ acc' = Ingested(i, j).acc /\ pending' = Ingested(i, j).bars
      /\ lastTs' = market[j].ts /\ lastPage' = Short(Page)
      /\ IF FlushDue(Ingested(i, j).bars)
         THEN pc' = "appending" /\ UNCHANGED cursor
         ELSE TurnPage(Short(Page), market[j].ts)
      /\ UNCHANGED <<market, final, file, aborts, overrides>>
  BY <1>2, <1>3, Zenon
<1>7. \/ pc' = "appending" /\ cursor' = cursor /\ FlushDue(pending')
      \/ pc' = "closing" /\ cursor' = cursor /\ ~FlushDue(pending')
      \/ pc' = "fetching" /\ cursor' = NextCursor(lastTs') /\ ~FlushDue(pending')
  BY <1>6 DEF TurnPage
<1> QED
  BY <1>1, <1>4, <1>5, <1>6, <1>7, Zenon

\* The lists that an action makes are lists of bars.
LEMMA ListFacts ==
  /\ \A s \in Seq(Bars), t \in Seq(Bars) : s \o t \in Seq(Bars) /\ Len(s \o t) = Len(s) + Len(t)
  /\ \A s \in Seq(Bars), b \in Bars : Append(s, b) \in Seq(Bars)
  /\ \A s \in Seq(Bars) : Len(s) \in Nat
  /\ <<>> \in Seq(Bars) /\ Len(<<>>) = 0
OBVIOUS

\* The market grows at its end, by a trade that is not older than any other.
LEMMA TradeAppends ==
  ASSUME market \in Seq(Trades), MarketSorted, Trade
  PROVE  /\ market' \in Seq(Trades) /\ MarketSorted'
         /\ Len(market') = Len(market) + 1 /\ DOMAIN market \subseteq DOMAIN market'
         /\ \A i \in DOMAIN market : market'[i] = market[i]
         /\ UNCHANGED <<pc, memory, file, aborts, overrides>>
<1>1. PICK price \in Prices, amount \in Amounts, gap \in Gaps :
        LET now == IF market = <<>> THEN 1 ELSE market[Len(market)].ts + gap
        IN  market' = Append(market, [ts |-> now, price |-> price, amount |-> amount])
  BY DEF Trade
<1> DEFINE n == Len(market)
           now == IF market = <<>> THEN 1 ELSE market[n].ts + gap
           t == [ts |-> now, price |-> price, amount |-> amount]
<1>2. n \in Nat /\ DOMAIN market = 1..n
  BY TradeFacts
<1>3. now \in Nat \ {0} /\ \A i \in DOMAIN market : market[i].ts <= now
  <2>1. CASE market = <<>>
    BY <2>1
  <2>2. CASE market # <<>>
    <3>1. n \in DOMAIN market
      BY <1>2, <2>2
    <3>2. market[n].ts \in Nat \ {0} /\ gap \in Nat
      BY <3>1, TradeFacts, BarsAssumption
    <3>3. now = market[n].ts + gap
      BY <2>2
    <3>4. \A i \in DOMAIN market : market[i].ts <= market[n].ts /\ market[i].ts \in Nat
      BY <1>2, <3>1, TradeFacts DEF MarketSorted
    <3> HIDE DEF now, n
    <3> QED
      BY <3>2, <3>3, <3>4
  <2> QED
    BY <2>1, <2>2
<1>4. market' = Append(market, t)
  BY <1>1
<1> HIDE DEF now
<1>5. t \in Trades
  BY <1>3 DEF Trades
<1> HIDE DEF t
<1>6. /\ market' \in Seq(Trades) /\ Len(market') = n + 1 /\ market'[n + 1] = t
      /\ \A i \in 1..n : market'[i] = market[i]
  BY <1>4, <1>5
<1>7. DOMAIN market' = 1..n + 1
  BY <1>6
<1> HIDE DEF n
<1>8. MarketSorted'
  <2>1. SUFFICES ASSUME NEW i \in 1..n + 1, NEW j \in 1..n + 1, i <= j
                 PROVE  market'[i].ts <= market'[j].ts
    BY <1>7 DEF MarketSorted
  <2>2. CASE j \in 1..n
    <3>1. i \in 1..n
      BY <1>2, <2>1, <2>2
    <3> QED
      BY <1>2, <1>6, <2>1, <2>2, <3>1 DEF MarketSorted
  <2>3. CASE j = n + 1
    <3>1. market'[j].ts = now
      BY <1>6, <2>3 DEF t
    <3>2. CASE i \in 1..n
      BY <1>2, <1>3, <1>6, <3>1, <3>2
    <3>3. CASE i = n + 1
      BY <1>3, <2>3, <3>1, <3>3
    <3> QED
      BY <1>2, <3>2, <3>3
  <2> QED
    BY <1>2, <2>2, <2>3
<1> QED
  BY <1>2, <1>6, <1>7, <1>8 DEF Trade, n

-----------------------------------------------------------------------------
(* Types.                                                                  *)

LEMMA TypesInit ==
  ASSUME Init
  PROVE  TypesInv
<1>1. <<>> \in Seq(Trades) /\ <<>> \in Seq(Bars)
  OBVIOUS
<1>2. 0 \in 0 .. MaxAborts /\ 0 \in 0 .. MaxOverrides
  BY BarsAssumption
<1>3. TypeOK
  BY <1>1, <1>2, EmptyIsBar DEF Init, TypeOK, NoTs
<1> QED
  BY <1>3 DEF Init, TypesInv, MarketSorted, MemoryClean

LEMMA FetchTypes ==
  ASSUME TypesInv, FetchPage
  PROVE  TypesInv'
<1>1. PICK i \in Nat \ {0}, j \in Nat :
           /\ i <= j /\ i..j \subseteq DOMAIN market /\ j \in DOMAIN market
           /\ acc' = Ingested(i, j).acc /\ pending' = Ingested(i, j).bars
           /\ lastTs' = market[j].ts
           /\ lastPage' \in BOOLEAN /\ UNCHANGED <<market, final, file, aborts, overrides>>
           /\ \/ pc' = "appending" /\ cursor' = cursor /\ FlushDue(pending')
              \/ pc' = "closing" /\ cursor' = cursor /\ ~FlushDue(pending')
              \/ pc' = "fetching" /\ cursor' = NextCursor(lastTs') /\ ~FlushDue(pending')
  BY PageFetched DEF TypesInv, TypeOK
<1>2. Ingested(i, j) \in States
  <2> DEFINE G == [k \in Nat |-> States]
  <2>1. \A k \in i..j : k - 1 \in Nat /\ k \in Nat /\ k \in DOMAIN market
    BY <1>1
  <2>2. i - 1 \in Nat
    OBVIOUS
  <2>3. [acc |-> acc, bars |-> pending] \in G[i - 1]
    BY <2>2 DEF TypesInv, TypeOK, States
  <2>4. \A k \in i..j : \A s \in States : s \in G[k - 1] => Ingest(k, s) \in G[k]
    BY <2>1, IngestType DEF TypesInv, TypeOK
  <2> HIDE DEF G
  <2> QED
    BY <1>1, <2>3, <2>4, IngestedKeeps DEF TypesInv, TypeOK
<1>3. acc' \in Bars /\ pending' \in Seq(Bars) /\ Len(pending') \in Nat
  BY <1>1, <1>2, ListFacts DEF States
<1>4. lastTs' \in Nat /\ cursor' \in Nat
  BY <1>1, TradeFacts DEF TypesInv, TypeOK, NextCursor
<1>5. pc' = "fetching" => Len(pending') < Interval
  BY <1>1, <1>3, BarsAssumption DEF FlushDue
<1>6. pc = "fetching" /\ final = FALSE
  BY DEF FetchPage, TypesInv, MemoryClean, TypeOK
<1>7. TypeOK'
  BY <1>1, <1>3, <1>4, <1>5 DEF TypesInv, TypeOK, file
<1>8. MarketSorted'
  BY <1>1 DEF TypesInv, MarketSorted
<1>9. MemoryClean'
  BY <1>1, <1>6 DEF MemoryClean
<1> QED
  BY <1>7, <1>8, <1>9 DEF TypesInv

\* Ending a run leaves memory as Init has it.
LEMMA DownTypes ==
  ASSUME Down
  PROVE  /\ pc' \in {"down", "fetching", "appending", "marking", "closing"}
         /\ cursor' \in Nat /\ lastTs' \in Nat /\ acc' \in Bars /\ pending' \in Seq(Bars)
         /\ lastPage' \in BOOLEAN /\ final' \in BOOLEAN
         /\ pc' # "fetching" /\ MemoryClean'
BY EmptyIsBar, ListFacts DEF Down, NoTs, MemoryClean

\* A run starts with the cursor just behind what counts as read, or with none.
LEMMA Started ==
  ASSUME checkpoint \in Nat, overrides \in 0 .. MaxOverrides, Start
  PROVE  /\ cursor' \in Nat /\ lastTs' \in Nat /\ overrides' \in 0 .. MaxOverrides
         /\ (cursor' = NoTs /\ lastTs' = 0) \/ cursor' = lastTs' + 1
         /\ overrides' = 0 => overrides = 0 /\ lastTs' = checkpoint
         /\ pc' = "fetching"
<1>1. lastTs' = (IF cursor' = NoTs THEN 0 ELSE cursor' - 1) /\ pc' = "fetching"
  BY DEF Start
<1>2. CASE cursor' = (IF checkpoint = NoTs THEN NoTs ELSE NextCursor(checkpoint))
           /\ overrides' = overrides
  <2>1. CASE checkpoint = NoTs
    BY <1>1, <1>2, <2>1 DEF NoTs
  <2>2. CASE checkpoint # NoTs
    BY <1>1, <1>2, <2>2 DEF NextCursor, NoTs
  <2> QED
    BY <2>1, <2>2
<1>3. CASE overrides < MaxOverrides /\ cursor' \in Overrides /\ overrides' = overrides + 1
  <2>1. cursor' \in Nat \ {0}
    BY <1>3, BarsAssumption
  <2>2. overrides' \in 0 .. MaxOverrides /\ overrides' # 0
    BY <1>3, BarsAssumption
  <2>3. cursor' = lastTs' + 1 /\ lastTs' \in Nat
    <3>1. cursor' # NoTs
      BY <2>1 DEF NoTs
    <3>2. lastTs' = cursor' - 1
      BY <1>1, <3>1, Zenon
    <3>3. \A c \in Nat \ {0} : c - 1 \in Nat /\ c = c - 1 + 1
      OBVIOUS
    <3> QED
      BY <2>1, <3>2, <3>3, Zenon
  <2> QED
    BY <1>1, <2>1, <2>2, <2>3
<1> QED
  BY <1>2, <1>3 DEF Start

LEMMA TypesStep ==
  ASSUME TypesInv, [Next]_vars
  PROVE  TypesInv'
<1> USE DEF TypesInv, TypeOK, file, memory
<1>1. CASE FetchPage
  BY <1>1, FetchTypes DEF TypesInv
<1>2. CASE Trade
  <2>1. TypeOK' /\ MarketSorted'
    BY <1>2, TradeAppends
  <2>2. MemoryClean'
    BY <1>2, TradeAppends DEF MemoryClean
  <2> QED
    BY <2>1, <2>2
<1>3. CASE UNCHANGED market /\ ~FetchPage /\ ~Trade
  <2>1. MarketSorted'
    BY <1>3 DEF MarketSorted
  <2>2. CASE Start
    <3>1. cursor' \in Nat /\ lastTs' \in Nat /\ overrides' \in 0 .. MaxOverrides
      BY <2>2, Started
    <3>2. pending = <<>> /\ Len(pending) < Interval /\ final = FALSE
      BY <2>2, ListFacts, BarsAssumption DEF Start, MemoryClean
    <3>3. pc' = "fetching"
          /\ UNCHANGED <<market, acc, pending, lastPage, final, stored, checkpoint, aborts>>
      BY <2>2 DEF Start
    <3>4. TypeOK'
      BY <3>1, <3>2, <3>3
    <3>5. MemoryClean'
      BY <3>2, <3>3 DEF MemoryClean
    <3> QED
      BY <2>1, <3>4, <3>5
  <2>3. CASE FetchNothing
    BY <1>3, <2>1, <2>3 DEF FetchNothing, MemoryClean
  <2>4. CASE AppendBars
    <3>1. stored' \in Seq(Bars)
      BY <2>4, ListFacts DEF AppendBars
    <3> QED
      BY <1>3, <2>1, <2>4, <3>1 DEF AppendBars, MemoryClean
  <2>5. CASE MarkCheckpoint
    <3>1. cursor' \in Nat /\ pc' \in {"closing", "fetching"}
      BY <2>5 DEF MarkCheckpoint, TurnPage, NextCursor
    <3>2. pending' \in Seq(Bars) /\ Len(pending') < Interval
      BY <2>5, ListFacts, BarsAssumption DEF MarkCheckpoint
    <3> QED
      BY <1>3, <2>1, <2>5, <3>1, <3>2 DEF MarkCheckpoint, MemoryClean
  <2>6. CASE CloseBar
    <3>1. CASE Down
      BY <1>3, <2>1, <2>6, <3>1, DownTypes DEF CloseBar
    <3>2. CASE ~Down
      <4> DEFINE all == IF acc.ticks = 0 THEN pending ELSE Collect(pending, acc)
      <4>1. all \in Seq(Bars)
        BY ListFacts DEF Collect
      <4> HIDE DEF all
      <4>2. /\ pc' = "appending" /\ final' = TRUE /\ pending' = all /\ acc' = Reset(acc)
            /\ UNCHANGED <<cursor, lastTs, lastPage, market, stored, checkpoint, aborts, overrides>>
        BY <2>6, <3>2, Zenon DEF CloseBar, all
      <4> QED
        BY <2>1, <4>1, <4>2, EmptyIsBar DEF MemoryClean, Reset
    <3> QED
      BY <3>1, <3>2
  <2>7. CASE MarkFinal
    BY <1>3, <2>1, <2>7, DownTypes DEF MarkFinal
  <2>8. CASE Abort
    <3>1. aborts' \in 0 .. MaxAborts
      BY <2>8, BarsAssumption DEF Abort
    <3> QED
      BY <1>3, <2>1, <2>8, <3>1, DownTypes DEF Abort
  <2>9. CASE UNCHANGED vars
    <3>1. UNCHANGED <<market, pc, cursor, lastTs, acc, pending, lastPage, final>>
          /\ UNCHANGED <<stored, checkpoint, aborts, overrides>>
      BY <2>9 DEF vars
    <3>2. TypeOK'
      BY <3>1
    <3>3. MemoryClean'
      BY <3>1 DEF MemoryClean
    <3> QED
      BY <2>1, <3>2, <3>3
  <2> QED
    BY <1>3, <2>2, <2>3, <2>4, <2>5, <2>6, <2>7, <2>8, <2>9 DEF Next, RunStep
<1>4. UNCHANGED market \/ Trade \/ FetchPage
  BY DEF Next, RunStep, Start, FetchNothing, FetchPage, AppendBars, MarkCheckpoint,
         CloseBar, MarkFinal, Abort, vars
<1> QED
  BY <1>1, <1>2, <1>3, <1>4

LEMMA TypesAlways == Spec => []TypesInv
BY TypesInit, TypesStep, PTL DEF Spec

\* In every reachable state memory, the file and the market have the types of
\* bars.py, and no flush's worth of bars is pending when a page is fetched.
THEOREM BarsTypes == Spec => []TypeOK
<1>1. TypesInv => TypeOK
  BY DEF TypesInv
<1> QED
  BY <1>1, TypesAlways, PTL

-----------------------------------------------------------------------------
(* What a bar says of its trades.                                          *)

\* A bar that sums up trades of the market.
Whole(bar) ==
  bar \in Bars /\ (\A n \in DOMAIN bar.ids : bar.ids[n] \in DOMAIN market) /\ Faithful(bar)
\* Without its last trade a bar is below the threshold.
Tight(bar) == bar.dollars - Worth(bar.ids[Len(bar.ids)]) < Threshold

BarsInv ==
  /\ acc = Empty \/ Whole(acc)
  /\ acc.dollars < Threshold
  /\ \A k \in DOMAIN pending : Whole(pending[k]) /\ Tight(pending[k])
  /\ \A k \in DOMAIN pending : pending[k].dollars < Threshold => final /\ k = Len(pending)
  /\ \A k \in DOMAIN stored : Whole(stored[k])

LEMMA WorthIsNat ==
  ASSUME market \in Seq(Trades), NEW i \in DOMAIN market
  PROVE  Worth(i) \in Nat
<1>1. market[i].price \in Nat /\ market[i].amount \in Nat
  BY TradeFacts
<1> QED
  BY <1>1 DEF Worth

LEMMA AddedIsWhole ==
  ASSUME market \in Seq(Trades), NEW a \in Bars, a = Empty \/ Whole(a), NEW i \in DOMAIN market
  PROVE  /\ Whole(Add(a, i)) /\ Add(a, i).dollars = a.dollars + Worth(i)
         /\ Add(a, i).ids[Len(Add(a, i).ids)] = i
<1> DEFINE b == Add(a, i)
           n == Len(a.ids)
<1>1. b \in Bars /\ b.ids = Append(a.ids, i)
  BY AddedIsBar
<1>2. /\ n \in Nat /\ Len(b.ids) = n + 1 /\ b.ids[n + 1] = i
      /\ DOMAIN b.ids = 1..n + 1 /\ DOMAIN a.ids = 1..n
      /\ \A m \in 1..n : b.ids[m] = a.ids[m]
  <2>1. a.ids \in Seq(Nat \ {0}) /\ i \in Nat \ {0}
    BY DEF Bars
  <2> QED
    BY <1>1, <2>1
<1>3. \A m \in 1..n : a.ids[m] \in DOMAIN market
  <2>1. CASE a = Empty
    BY <1>2, <2>1 DEF Empty
  <2>2. CASE Whole(a)
    BY <1>2, <2>2 DEF Whole
  <2> QED
    BY <2>1, <2>2
<1>4. \A m \in 1..n + 1 : b.ids[m] \in DOMAIN market
  BY <1>2, <1>3
<1>5. \A m \in DOMAIN market : Worth(m) \in Nat /\ market[m].amount \in Nat
  BY WorthIsNat, TradeFacts
<1> DEFINE worths(k, c) == [m \in 1..k |-> Worth(c.ids[m])]
           amounts(k, c) == [m \in 1..k |-> market[c.ids[m]].amount]
<1>6. a.dollars = SumFunction(worths(n, a)) /\ a.volume = SumFunction(amounts(n, a))
  <2>1. CASE a = Empty
    <3>1. n = 0 /\ 1..n = {} /\ a.dollars = 0 /\ a.volume = 0
      BY <2>1 DEF Empty
    <3>2. DOMAIN worths(n, a) = {} /\ DOMAIN amounts(n, a) = {}
      BY <3>1
    <3> QED
      BY <3>1, <3>2, SumOfNothing
  <2>2. CASE Whole(a)
    BY <2>2 DEF Whole, Faithful
  <2> QED
    BY <2>1, <2>2
<1>7. SumFunction(worths(n + 1, b)) = a.dollars + Worth(i)
  <2> DEFINE f == worths(n, a)
             g == worths(n + 1, b)
  <2>1. /\ DOMAIN f = 1..n /\ DOMAIN g = 1..n + 1 /\ g[n + 1] = Worth(i)
        /\ g[n + 1] \in Int /\ \A m \in 1..n : g[m] = f[m] /\ f[m] \in Int
    BY <1>2, <1>3, <1>5
  <2>2. a.dollars = SumFunction(f)
    BY <1>6
  <2> HIDE DEF f, g, n
  <2>3. SumFunction(g) = SumFunction(f) + g[n + 1]
    BY <1>2, <2>1, SumOneMore
  <2>4. SumFunction(g) = a.dollars + Worth(i)
    BY <2>1, <2>2, <2>3
  <2> QED
    BY <2>4 DEF g, n
<1>8. SumFunction(amounts(n + 1, b)) = a.volume + market[i].amount
  <2> DEFINE f == amounts(n, a)
             g == amounts(n + 1, b)
  <2>1. /\ DOMAIN f = 1..n /\ DOMAIN g = 1..n + 1 /\ g[n + 1] = market[i].amount
        /\ g[n + 1] \in Int /\ \A m \in 1..n : g[m] = f[m] /\ f[m] \in Int
    BY <1>2, <1>3, <1>5
  <2>2. a.volume = SumFunction(f)
    BY <1>6
  <2> HIDE DEF f, g, n
  <2>3. SumFunction(g) = SumFunction(f) + g[n + 1]
    BY <1>2, <2>1, SumOneMore
  <2>4. SumFunction(g) = a.volume + market[i].amount
    BY <2>1, <2>2, <2>3
  <2> QED
    BY <2>4 DEF g, n
<1>9. /\ b.dollars = a.dollars + Worth(i) /\ b.volume = a.volume + market[i].amount
      /\ b.ticks = a.ticks + 1 /\ b.close = market[i].price /\ b.last = market[i].ts
  BY DEF Add, Worth
<1>10. b.ticks = n + 1
  <2>1. CASE a = Empty
    BY <1>9, <2>1 DEF Empty
  <2>2. CASE Whole(a)
    BY <1>9, <2>2 DEF Whole, Faithful
  <2> QED
    BY <2>1, <2>2
<1>11. /\ b.start = market[b.ids[1]].ts /\ b.open = market[b.ids[1]].price
  <2>1. CASE a = Empty
    BY <1>2, <2>1 DEF Empty, Add
  <2>2. CASE Whole(a)
    <3>1. n > 0 /\ a.start = market[a.ids[1]].ts /\ a.open = market[a.ids[1]].price
      BY <2>2 DEF Whole, Faithful
    <3>2. b.ids[1] = a.ids[1] /\ a.ids[1] \in DOMAIN market
      BY <1>2, <1>3, <3>1
    <3>3. a.start # NoTs
      BY <3>1, <3>2, TradeFacts DEF NoTs
    <3> QED
      BY <3>1, <3>2, <3>3 DEF Add
  <2> QED
    BY <2>1, <2>2
<1> DEFINE prices(k, c) == {market[c.ids[m]].price : m \in 1..k}
<1>12. prices(n + 1, b) = prices(n, a) \union {market[i].price}
  <2>1. \A m \in 1..n + 1 : m \in 1..n \/ m = n + 1
    BY <1>2
  <2>2. \A m \in 1..n : m \in 1..n + 1 /\ b.ids[m] = a.ids[m]
    BY <1>2
  <2>3. n + 1 \in 1..n + 1 /\ b.ids[n + 1] = i
    BY <1>2
  <2> HIDE DEF n, b
  <2> QED
    BY <2>1, <2>2, <2>3
<1>13. prices(n + 1, b) \subseteq Nat
  BY <1>4, TradeFacts
<1>14. /\ b.high = Greater(a.high, market[i].price) /\ b.low = Lesser(a.low, market[i].price)
  BY DEF Add
<1>15. /\ b.high \in prices(n + 1, b) /\ b.low \in prices(n + 1, b)
       /\ \A p \in prices(n + 1, b) : b.low <= p /\ p <= b.high
  <2>1. market[i].price \in Nat \ {0} /\ market[i].price < Inf
    BY TradeFacts
  <2>2. CASE a = Empty
    <3>1. prices(n, a) = {}
      BY <2>2, <1>2 DEF Empty
    <3>2. a.high = 0 /\ a.low = Inf
      BY <2>2 DEF Empty
    <3> HIDE DEF prices
    <3>3. b.high = market[i].price /\ b.low = market[i].price
      BY <1>14, <2>1, <3>2, BarsAssumption DEF Greater, Lesser
    <3> QED
      BY <1>12, <2>1, <3>1, <3>3
  <2>3. CASE Whole(a)
    <3>1. /\ a.high \in prices(n, a) /\ a.low \in prices(n, a)
          /\ \A p \in prices(n, a) : a.low <= p /\ p <= a.high
      BY <2>3 DEF Whole, Faithful
    <3> HIDE DEF prices
    <3> QED
      BY <1>12, <1>13, <1>14, <2>1, <3>1 DEF Greater, Lesser
  <2> QED
    BY <2>2, <2>3
<1>16. Faithful(b)
  BY <1>2, <1>7, <1>8, <1>9, <1>10, <1>11, <1>15 DEF Faithful
<1> QED
  BY <1>1, <1>2, <1>4, <1>9, <1>16 DEF Whole

\* What a page's trades leave in memory: whole bars, each cut at the threshold.
Sound(s) ==
  /\ s.acc = Empty \/ Whole(s.acc)
  /\ s.acc.dollars < Threshold
  /\ \A k \in DOMAIN s.bars : /\ Whole(s.bars[k]) /\ Tight(s.bars[k])
                              /\ ~(s.bars[k].dollars < Threshold)

LEMMA EmptyIsBelow == Empty.dollars < Threshold
BY BarsAssumption DEF Empty

LEMMA IngestSound ==
  ASSUME market \in Seq(Trades), NEW k \in DOMAIN market, NEW s \in States, Sound(s)
  PROVE  Sound(Ingest(k, s))
<1> DEFINE b == Add(s.acc, k)
<1>1. s.acc \in Bars /\ s.bars \in Seq(Bars)
  BY DEF States
<1>2. Whole(b) /\ b.dollars = s.acc.dollars + Worth(k) /\ b.ids[Len(b.ids)] = k
  BY <1>1, AddedIsWhole DEF Sound
<1>3. s.acc.dollars \in Nat /\ b.dollars \in Nat /\ b \in Bars /\ Worth(k) \in Nat
  BY <1>1, <1>2, WorthIsNat DEF Whole, Bars
<1>4. Tight(b)
  <2>1. b.dollars - Worth(b.ids[Len(b.ids)]) = s.acc.dollars
    BY <1>2, <1>3
  <2> QED
    BY <2>1 DEF Tight, Sound
<1> HIDE DEF b
<1>5. CASE Crosses(b)
  <2>1. Ingest(k, s) = [acc |-> Empty, bars |-> Append(s.bars, b)]
    BY <1>5 DEF Ingest, b, Reset, Collect
  <2>2. ~(b.dollars < Threshold)
    BY <1>3, <1>5, BarsAssumption DEF Crosses
  <2> DEFINE all == Append(s.bars, b)
  <2>3. \A m \in DOMAIN all : \/ m \in DOMAIN s.bars /\ all[m] = s.bars[m]
                              \/ all[m] = b
    BY <1>1, <1>3
  <2> HIDE DEF all
  <2>4. \A m \in DOMAIN all : Whole(all[m]) /\ Tight(all[m]) /\ ~(all[m].dollars < Threshold)
    BY <1>2, <1>4, <2>2, <2>3 DEF Sound
  <2> QED
    BY <2>1, <2>4, EmptyIsBelow DEF Sound, all
<1>6. CASE ~Crosses(b)
  <2>1. Ingest(k, s) = [acc |-> b, bars |-> s.bars]
    BY <1>6 DEF Ingest, b
  <2>2. b.dollars < Threshold
    BY <1>3, <1>6, BarsAssumption DEF Crosses
  <2> QED
    BY <1>2, <2>1, <2>2 DEF Sound
<1> QED
  BY <1>5, <1>6

\* New trades do not change what the bars say of the old ones.
LEMMA MarketGrows ==
  ASSUME market \in Seq(Trades), DOMAIN market \subseteq DOMAIN market',
         \A i \in DOMAIN market : market'[i] = market[i]
  PROVE  /\ \A i \in DOMAIN market : Worth(i)' = Worth(i)
         /\ \A bar : Whole(bar) => Whole(bar)'
         /\ \A bar : Whole(bar) /\ Tight(bar) => Tight(bar)'
<1>1. \A i \in DOMAIN market : Worth(i)' = Worth(i)
  BY DEF Worth
<1>2. ASSUME NEW bar, Whole(bar)
      PROVE  Whole(bar)' /\ (Tight(bar) => Tight(bar)')
  <2> DEFINE n == Len(bar.ids)
  <2>1. n \in Nat /\ DOMAIN bar.ids = 1..n /\ \A m \in 1..n : bar.ids[m] \in DOMAIN market
    BY <1>2 DEF Whole, Bars
  <2>2. n > 0 /\ 1 \in 1..n /\ n \in 1..n
    BY <1>2, <2>1 DEF Whole, Faithful
  <2>3. \A m \in 1..n : market'[bar.ids[m]] = market[bar.ids[m]] /\ Worth(bar.ids[m])' = Worth(bar.ids[m])
    BY <1>1, <2>1
  <2>4. [m \in 1..n |-> Worth(bar.ids[m])]' = [m \in 1..n |-> Worth(bar.ids[m])]
    BY <2>3
  <2>5. [m \in 1..n |-> market'[bar.ids[m]].amount] = [m \in 1..n |-> market[bar.ids[m]].amount]
    BY <2>3
  <2>6. {market'[bar.ids[m]].price : m \in 1..n} = {market[bar.ids[m]].price : m \in 1..n}
    BY <2>3
  <2>7. Faithful(bar)'
    BY <1>2, <2>2, <2>3, <2>4, <2>5, <2>6 DEF Whole, Faithful
  <2>8. Whole(bar)'
    BY <1>2, <2>1, <2>7 DEF Whole
  <2>9. Tight(bar)' <=> Tight(bar)
    BY <2>2, <2>3 DEF Tight
  <2> QED
    BY <2>8, <2>9
<1> QED
  BY <1>1, <1>2

\* The same for every bar there is.
LEMMA BarsInvGrows ==
  ASSUME market \in Seq(Trades), DOMAIN market \subseteq DOMAIN market',
         \A i \in DOMAIN market : market'[i] = market[i],
         BarsInv, UNCHANGED <<acc, pending, final, stored>>
  PROVE  BarsInv'
<1>1. /\ \A bar : Whole(bar) => Whole(bar)'
      /\ \A bar : Whole(bar) /\ Tight(bar) => Tight(bar)'
  BY MarketGrows
<1>2. /\ Whole(acc) => Whole(acc)'
      /\ \A k \in DOMAIN pending : Whole(pending[k])' /\ Tight(pending[k])'
      /\ \A k \in DOMAIN stored : Whole(stored[k])'
  BY <1>1 DEF BarsInv
<1> QED
  BY <1>2 DEF BarsInv, Empty

LEMMA FetchBars ==
  ASSUME TypesInv, BarsInv, FetchPage
  PROVE  BarsInv'
<1> USE DEF TypesInv, TypeOK
<1>1. PICK i \in Nat \ {0}, j \in Nat :
           /\ i <= j /\ i..j \subseteq DOMAIN market
           /\ acc' = Ingested(i, j).acc /\ pending' = Ingested(i, j).bars
           /\ UNCHANGED <<market, final, file, aborts, overrides>>
  BY PageFetched
<1> DEFINE G == [k \in Nat |-> {s \in States : Sound(s)}]
<1>2. ~final
  BY DEF FetchPage, MemoryClean
<1>3. Sound([acc |-> acc, bars |-> pending])
  BY <1>2 DEF Sound, BarsInv
<1>4. Ingested(i, j) \in G[j]
  <2>1. i - 1 \in Nat /\ j \in Nat /\ \A k \in i..j : k \in Nat /\ k - 1 \in Nat
    OBVIOUS
  <2>2. [acc |-> acc, bars |-> pending] \in G[i - 1]
    BY <1>3, <2>1 DEF States
  <2>3. \A k \in i..j : \A s \in States : s \in G[k - 1] => Ingest(k, s) \in G[k]
    BY <1>1, <2>1, IngestSound, IngestType
  <2> HIDE DEF G
  <2> QED
    BY <1>1, <2>2, <2>3, IngestedKeeps
<1>5. Sound(Ingested(i, j))
  BY <1>4
<1> HIDE DEF G
<1>6. /\ acc' = Empty \/ Whole(acc')
      /\ acc'.dollars < Threshold
      /\ \A k \in DOMAIN pending' : /\ Whole(pending'[k]) /\ Tight(pending'[k])
                                    /\ ~(pending'[k].dollars < Threshold)
  BY <1>1, <1>5 DEF Sound
<1>7. DOMAIN market \subseteq DOMAIN market' /\ \A k \in DOMAIN market : market'[k] = market[k]
  BY <1>1
<1>8. /\ acc' = Empty \/ Whole(acc)'
      /\ \A k \in DOMAIN pending' : Whole(pending[k])' /\ Tight(pending[k])'
      /\ \A k \in DOMAIN stored' : Whole(stored[k])'
  <2>1. market' = market /\ stored' = stored
    BY <1>1 DEF file
  <2>2. \A bar : (Whole(bar) => Whole(bar)') /\ (Whole(bar) /\ Tight(bar) => Tight(bar)')
    BY <1>7, MarketGrows
  <2>3. \A k \in DOMAIN stored : Whole(stored[k])
    BY DEF BarsInv
  <2> QED
    BY <1>6, <2>1, <2>2, <2>3
<1> QED
  BY <1>6, <1>8 DEF BarsInv, Empty

LEMMA BarsInit ==
  ASSUME Init
  PROVE  BarsInv
BY EmptyIsBelow DEF Init, BarsInv

LEMMA BarsStep ==
  ASSUME TypesInv, TypesInv', BarsInv, [Next]_vars
  PROVE  BarsInv'
<1> USE DEF TypesInv, TypeOK
<1>1. CASE FetchPage
  BY <1>1, FetchBars
<1>2. CASE Trade
  BY <1>2, TradeAppends, BarsInvGrows DEF memory, file
<1>3. CASE UNCHANGED market /\ ~FetchPage /\ ~Trade
  <2> USE EmptyIsBelow
  <2>1. /\ \A bar : Whole(bar) => Whole(bar)'
        /\ \A bar : Whole(bar) /\ Tight(bar) => Tight(bar)'
    BY <1>3, MarketGrows
  <2>2. ASSUME acc' = Empty \/ Whole(acc'), acc'.dollars < Threshold,
               \A k \in DOMAIN pending' : Whole(pending'[k]) /\ Tight(pending'[k]),
               \A k \in DOMAIN pending' : pending'[k].dollars < Threshold
                                            => final' /\ k = Len(pending'),
               \A k \in DOMAIN stored' : Whole(stored'[k])
        PROVE  BarsInv'
    <3>1. /\ acc' = Empty \/ Whole(acc)'
          /\ \A k \in DOMAIN pending' : Whole(pending[k])' /\ Tight(pending[k])'
          /\ \A k \in DOMAIN stored' : Whole(stored[k])'
      BY <2>1, <2>2
    <3> QED
      BY <2>2, <3>1 DEF BarsInv, Empty
  <2>3. CASE UNCHANGED <<acc, pending, final, stored>>
    BY <1>3, <2>3, BarsInvGrows
  <2>4. CASE AppendBars
    <3>1. /\ stored' = stored \o pending /\ UNCHANGED <<acc, pending, final>>
      BY <2>4 DEF AppendBars, memory
    <3>2. \A k \in DOMAIN stored' : \/ k \in DOMAIN stored /\ stored'[k] = stored[k]
                                    \/ /\ k - Len(stored) \in DOMAIN pending
                                       /\ stored'[k] = pending[k - Len(stored)]
      BY <3>1
    <3>3. \A k \in DOMAIN stored' : Whole(stored'[k])
      BY <3>2 DEF BarsInv
    <3> QED
      BY <2>2, <3>1, <3>3 DEF BarsInv
  <2>5. CASE MarkCheckpoint
    <3>1. pending' = <<>> /\ UNCHANGED <<acc, final, stored>>
      BY <2>5 DEF MarkCheckpoint
    <3> QED
      BY <2>2, <3>1 DEF BarsInv
  <2>6. CASE Down /\ UNCHANGED stored
    BY <2>2, <2>6 DEF Down, BarsInv
  <2>7. CASE CloseBar /\ ~Down
    <3> DEFINE all == IF acc.ticks = 0 THEN pending ELSE Collect(pending, acc)
    <3>1. final' = TRUE /\ pending' = all /\ acc' = Empty /\ UNCHANGED stored
      BY <2>7 DEF CloseBar, file, Reset
    <3>2. ~final
      BY <2>7 DEF CloseBar, MemoryClean
    <3>3. CASE acc.ticks = 0
      BY <2>2, <3>1, <3>2, <3>3 DEF BarsInv
    <3>4. CASE acc.ticks # 0
      <4>1. acc # Empty
        BY <3>4 DEF Empty
      <4>2. Whole(acc) /\ acc \in Bars /\ acc.dollars \in Nat
        BY <4>1 DEF BarsInv, Bars
      <4>3. Tight(acc)
        <5>1. Len(acc.ids) \in DOMAIN acc.ids
          <6>1. acc.ids \in Seq(Nat \ {0}) /\ Len(acc.ids) > 0
            BY <4>2 DEF Whole, Faithful, Bars
          <6> QED
            BY <6>1
        <5>2. Worth(acc.ids[Len(acc.ids)]) \in Nat
          BY <4>2, <5>1, WorthIsNat DEF Whole
        <5> QED
          BY <4>2, <5>2, BarsAssumption DEF Tight, BarsInv
      <4>4. pending' = Append(pending, acc)
        BY <3>1, <3>4 DEF Collect
      <4>5. /\ Len(pending') = Len(pending) + 1
            /\ \A k \in DOMAIN pending' : \/ k \in DOMAIN pending /\ pending'[k] = pending[k]
                                          \/ k = Len(pending') /\ pending'[k] = acc
        BY <4>2, <4>4
      <4>6. \A k \in DOMAIN pending : ~(pending[k].dollars < Threshold)
        BY <3>2 DEF BarsInv
      <4>7. \A k \in DOMAIN pending' : pending'[k].dollars < Threshold => k = Len(pending')
        BY <4>5, <4>6
      <4>8. \A k \in DOMAIN pending' : Whole(pending'[k]) /\ Tight(pending'[k])
        BY <4>2, <4>3, <4>5 DEF BarsInv
      <4> QED
        BY <2>2, <3>1, <4>7, <4>8 DEF BarsInv
    <3> QED
      BY <3>3, <3>4
  <2> QED
    BY <1>3, <2>3, <2>4, <2>5, <2>6, <2>7
    DEF Next, RunStep, Start, FetchNothing, CloseBar, MarkFinal, Abort, vars, memory, file
<1>4. UNCHANGED market \/ Trade \/ FetchPage
  BY DEF Next, RunStep, Start, FetchNothing, FetchPage, AppendBars, MarkCheckpoint,
         CloseBar, MarkFinal, Abort, vars
<1> QED
  BY <1>1, <1>2, <1>3, <1>4

LEMMA BarsAlways == Spec => [](TypesInv /\ BarsInv)
<1>1. Init => TypesInv /\ BarsInv
  BY TypesInit, BarsInit
<1>2. TypesInv /\ BarsInv /\ [Next]_vars => (TypesInv /\ BarsInv)'
  BY TypesStep, BarsStep
<1> QED
  BY <1>1, <1>2, PTL DEF Spec

\* A bar in the table is the open, high, low, close, volume, dollars and ticks of
\* exactly the trades it was made of, whatever pages, flushes, interruptions and
\* resumptions came in between (bars.py:156-167, 189-214).
THEOREM StoredBarsAreFaithful == Spec => []BarsAreFaithful
<1>1. BarsInv => BarsAreFaithful
  BY DEF BarsInv, BarsAreFaithful, Whole
<1> QED
  BY <1>1, BarsAlways, PTL

\* No bar has a trade more than it takes to reach the threshold, and only the last
\* bar of a run ends below it (bars.py:119-122, 169, 414-416).
THEOREM BarsEnd == Spec => BarsEndAtThreshold
<1>1. ASSUME TypesInv, BarsInv, [Next]_vars, UNCHANGED stored
      PROVE  DOMAIN stored' \ DOMAIN stored = {}
  BY <1>1
<1>2. ASSUME TypesInv, BarsInv, [Next]_vars, ~UNCHANGED stored
      PROVE  AppendBars
  BY <1>2 DEF Next, RunStep, Start, FetchNothing, FetchPage, MarkCheckpoint,
         CloseBar, MarkFinal, Abort, Trade, Down, vars, memory, file
<1>3. ASSUME TypesInv, BarsInv, AppendBars, NEW k \in DOMAIN stored' \ DOMAIN stored
      PROVE  /\ stored'[k].dollars - Worth(stored'[k].ids[Len(stored'[k].ids)]) < Threshold
             /\ stored'[k].dollars < Threshold => final /\ k = Len(stored')
  <2>1. stored' = stored \o pending /\ stored \in Seq(Bars) /\ pending \in Seq(Bars)
    BY <1>3 DEF AppendBars, TypesInv, TypeOK
  <2>2. /\ k - Len(stored) \in DOMAIN pending /\ stored'[k] = pending[k - Len(stored)]
        /\ Len(stored') = Len(stored) + Len(pending) /\ k \in Int /\ Len(stored) \in Nat
    BY <1>3, <2>1
  <2>3. k - Len(stored) = Len(pending) => k = Len(stored')
    BY <2>1, <2>2
  <2> QED
    BY <1>3, <2>2, <2>3 DEF BarsInv, Tight
<1>4. TypesInv /\ BarsInv /\ [Next]_vars =>
      [\A k \in DOMAIN stored' \ DOMAIN stored :
         LET bar == stored'[k]
         IN  /\ bar.dollars - Worth(bar.ids[Len(bar.ids)]) < Threshold
             /\ bar.dollars < Threshold => final /\ k = Len(stored')]_vars
  BY <1>1, <1>2, <1>3
<1> QED
  BY <1>4, BarsAlways, PTL DEF Spec, BarsEndAtThreshold

-----------------------------------------------------------------------------
(* What has been read, and how far.                                        *)

IdSet(bar) == {bar.ids[n] : n \in DOMAIN bar.ids}
IdsIn(bars) == UNION {IdSet(bars[k]) : k \in DOMAIN bars}
\* The trades that are in a bar, written or not, or in the accumulator.
Got == Covered \union IdsIn(pending) \union IdSet(acc)
\* The last millisecond that a fetch of this run, or of the next, will not cover.
Reach == IF pc = "down" THEN checkpoint ELSE lastTs
InPast(ts) == ts = 0 \/ \E i \in DOMAIN market : ts <= market[i].ts

\* A page starts where the last one ended; a flush is written before it is
\* marked; nothing is marked that was not read; and what was read since the last
\* mark is still held.
PositionInv ==
  /\ pc = "fetching" => (cursor = NoTs /\ lastTs = 0) \/ cursor = lastTs + 1
  /\ pc = "marking" => IdsIn(pending) \subseteq Covered
  /\ overrides = 0 =>
       /\ InPast(lastTs) /\ InPast(checkpoint)
       /\ pc # "down" => checkpoint <= lastTs
       /\ pc # "down" /\ pending = <<>> /\ acc = Empty => checkpoint = lastTs

LEMMA NoIds == IdsIn(<<>>) = {} /\ IdSet(Empty) = {}
BY DEF IdsIn, IdSet, Empty

LEMMA CoveredIds == Covered = IdsIn(stored) /\ Covered' = IdsIn(stored')
BY DEF Covered, IdsIn, IdSet

LEMMA IdsOfJoined ==
  ASSUME NEW s \in Seq(Bars), NEW t \in Seq(Bars)
  PROVE  IdsIn(s \o t) = IdsIn(s) \union IdsIn(t)
<1> DEFINE all == s \o t
<1>1. /\ \A k \in DOMAIN s : k \in DOMAIN all /\ all[k] = s[k]
      /\ \A k \in DOMAIN t : k + Len(s) \in DOMAIN all /\ all[k + Len(s)] = t[k]
      /\ \A k \in DOMAIN all : \/ k \in DOMAIN s /\ all[k] = s[k]
                               \/ k - Len(s) \in DOMAIN t /\ all[k] = t[k - Len(s)]
  OBVIOUS
<1> HIDE DEF all
<1> QED
  BY <1>1 DEF IdsIn, all

LEMMA IdsOfAppended ==
  ASSUME NEW s \in Seq(Bars), NEW b \in Bars
  PROVE  IdsIn(Append(s, b)) = IdsIn(s) \union IdSet(b) /\ Append(s, b) # <<>>
<1> DEFINE all == Append(s, b)
<1>1. /\ \A k \in DOMAIN s : k \in DOMAIN all /\ all[k] = s[k]
      /\ Len(s) + 1 \in DOMAIN all /\ all[Len(s) + 1] = b /\ all # <<>>
      /\ \A k \in DOMAIN all : (k \in DOMAIN s /\ all[k] = s[k]) \/ all[k] = b
  OBVIOUS
<1> HIDE DEF all
<1> QED
  BY <1>1 DEF IdsIn, all

LEMMA IdsOfAdded ==
  ASSUME market \in Seq(Trades), NEW a \in Bars, NEW i \in DOMAIN market
  PROVE  IdSet(Add(a, i)) = IdSet(a) \union {i} /\ Add(a, i) # Empty
<1> DEFINE ids == Append(a.ids, i)
<1>1. a.ids \in Seq(Nat \ {0}) /\ i \in Nat \ {0}
  BY DEF Bars
<1>2. /\ \A n \in DOMAIN a.ids : n \in DOMAIN ids /\ ids[n] = a.ids[n]
      /\ Len(a.ids) + 1 \in DOMAIN ids /\ ids[Len(a.ids) + 1] = i /\ ids # <<>>
      /\ \A n \in DOMAIN ids : (n \in DOMAIN a.ids /\ ids[n] = a.ids[n]) \/ ids[n] = i
  BY <1>1
<1>3. Add(a, i).ids = ids
  BY AddedIsBar
<1> HIDE DEF ids
<1> QED
  BY <1>2, <1>3 DEF IdSet, Empty

\* A trade that is ingested is in the accumulator or in a pending bar, and
\* nothing leaves them.
LEMMA IngestIds ==
  ASSUME market \in Seq(Trades), NEW k \in DOMAIN market, NEW s \in States
  PROVE  LET r == Ingest(k, s)
         IN  /\ IdsIn(r.bars) \union IdSet(r.acc)
                  = IdsIn(s.bars) \union IdSet(s.acc) \union {k}
             /\ r.bars # <<>> \/ r.acc # Empty
<1> DEFINE b == Add(s.acc, k)
<1>1. s.acc \in Bars /\ s.bars \in Seq(Bars)
  BY DEF States
<1>2. b \in Bars /\ IdSet(b) = IdSet(s.acc) \union {k} /\ b # Empty
  BY <1>1, AddedIsBar, IdsOfAdded
<1> HIDE DEF b
<1>3. CASE Crosses(b)
  <2>1. Ingest(k, s) = [acc |-> Empty, bars |-> Append(s.bars, b)]
    BY <1>3 DEF Ingest, b, Reset, Collect
  <2>2. IdsIn(Append(s.bars, b)) = IdsIn(s.bars) \union IdSet(b) /\ Append(s.bars, b) # <<>>
    BY <1>1, <1>2, IdsOfAppended
  <2> QED
    BY <1>2, <2>1, <2>2, NoIds
<1>4. CASE ~Crosses(b)
  <2>1. Ingest(k, s) = [acc |-> b, bars |-> s.bars]
    BY <1>4 DEF Ingest, b
  <2> QED
    BY <1>2, <2>1
<1> QED
  BY <1>3, <1>4

\* A page adds exactly its own trades to what is held.
LEMMA PageIds ==
  ASSUME market \in Seq(Trades), acc \in Bars, pending \in Seq(Bars),
         NEW i \in Nat \ {0}, NEW j \in Nat, i <= j, i..j \subseteq DOMAIN market
  PROVE  LET r == Ingested(i, j)
         IN  /\ IdsIn(r.bars) \union IdSet(r.acc) = IdsIn(pending) \union IdSet(acc) \union i..j
             /\ r.bars # <<>> \/ r.acc # Empty
<1> DEFINE held == IdsIn(pending) \union IdSet(acc)
           G == [k \in Nat |-> {s \in States :
                                  /\ IdsIn(s.bars) \union IdSet(s.acc) = held \union i..k
                                  /\ k >= i => s.bars # <<>> \/ s.acc # Empty}]
<1>1. i - 1 \in Nat /\ ~(i - 1 >= i) /\ i..i - 1 = {} /\ j >= i
  OBVIOUS
<1>2. [acc |-> acc, bars |-> pending] \in G[i - 1]
  BY <1>1 DEF States
<1>3. ASSUME NEW k \in i..j, NEW s \in States, s \in G[k - 1]
      PROVE  Ingest(k, s) \in G[k]
  <2>1. k \in Nat /\ k - 1 \in Nat /\ k \in DOMAIN market /\ i..k = (i..k - 1) \union {k}
    OBVIOUS
  <2>2. IdsIn(s.bars) \union IdSet(s.acc) = held \union i..k - 1
    BY <1>3, <2>1
  <2> DEFINE r == Ingest(k, s)
  <2>3. /\ IdsIn(r.bars) \union IdSet(r.acc) = IdsIn(s.bars) \union IdSet(s.acc) \union {k}
        /\ r.bars # <<>> \/ r.acc # Empty
        /\ r \in States
    BY <2>1, IngestIds, IngestType
  <2> QED
    BY <2>1, <2>2, <2>3
<1> HIDE DEF G
<1>4. Ingested(i, j) \in G[j]
  BY <1>2, <1>3, IngestedKeeps
<1> QED
  BY <1>1, <1>4 DEF G

\* FetchPage reads the trades i..j, the first ones behind lastTs.
LEMMA PageRead ==
  ASSUME TypesInv, PositionInv, FetchPage
  PROVE  \E i \in Nat \ {0}, j \in Nat :
           /\ i <= j /\ i..j \subseteq DOMAIN market /\ j \in DOMAIN market
           /\ \A k \in DOMAIN market : k >= i <=> market[k].ts > lastTs
           /\ acc' = Ingested(i, j).acc /\ pending' = Ingested(i, j).bars
           /\ IdsIn(pending') \union IdSet(acc') = IdsIn(pending) \union IdSet(acc) \union i..j
           /\ pending' # <<>> \/ acc' # Empty
           /\ lastTs' = market[j].ts
           /\ UNCHANGED <<market, final, file, aborts, overrides>>
           /\ pc' \in {"appending", "closing", "fetching"}
           /\ pc' = "fetching" => cursor' = lastTs' + 1
           /\ pc' = "appending" => pending' # <<>>
<1>1. PICK i \in Nat \ {0}, j \in Nat :
           /\ i <= j /\ i..j \subseteq DOMAIN market /\ j \in DOMAIN market
           /\ \A k \in DOMAIN market : k >= i <=> (cursor = NoTs \/ market[k].ts >= cursor)
           /\ acc' = Ingested(i, j).acc /\ pending' = Ingested(i, j).bars
           /\ lastTs' = market[j].ts
           /\ UNCHANGED <<market, final, file, aborts, overrides>>
           /\ pc' \in {"appending", "closing", "fetching"}
           /\ pc' = "fetching" => cursor' = lastTs' + 1
           /\ pc' = "appending" => FlushDue(pending')
  BY PageFetched DEF TypesInv, TypeOK, NextCursor
<1>2. \A k \in DOMAIN market : k >= i <=> market[k].ts > lastTs
  <2>1. (cursor = NoTs /\ lastTs = 0) \/ cursor = lastTs + 1
    BY DEF PositionInv, FetchPage
  <2>2. /\ \A k \in DOMAIN market : market[k].ts \in Nat \ {0}
        /\ lastTs \in Nat
    BY TradeFacts DEF TypesInv, TypeOK
  <2> QED
    BY <1>1, <2>1, <2>2 DEF NoTs
<1>3. LET r == Ingested(i, j)
      IN  /\ IdsIn(r.bars) \union IdSet(r.acc) = IdsIn(pending) \union IdSet(acc) \union i..j
          /\ r.bars # <<>> \/ r.acc # Empty
  BY <1>1, PageIds DEF TypesInv, TypeOK
<1>4. /\ IdsIn(pending') \union IdSet(acc') = IdsIn(pending) \union IdSet(acc) \union i..j
      /\ pending' # <<>> \/ acc' # Empty
  BY <1>1, <1>3
<1>5. FlushDue(pending') => pending' # <<>>
  BY BarsAssumption DEF FlushDue
<1> QED
  BY <1>1, <1>2, <1>4, <1>5

\* What CloseBar does when the run goes on to its last flush.
LEMMA BarClosed ==
  ASSUME TypesInv, BarsInv, CloseBar, ~Down
  PROVE  /\ pc' = "appending" /\ pending' # <<>> /\ acc' = Empty /\ final'
         /\ IdsIn(pending') = IdsIn(pending) \union IdSet(acc)
         /\ pending' = (IF acc = Empty THEN pending ELSE Append(pending, acc))
         /\ UNCHANGED <<market, cursor, lastTs, lastPage, stored, checkpoint, aborts, overrides>>
<1> DEFINE all == IF acc.ticks = 0 THEN pending ELSE Collect(pending, acc)
<1>1. /\ all # <<>> /\ pc' = "appending" /\ final' = TRUE /\ pending' = all /\ acc' = Empty
      /\ UNCHANGED <<market, cursor, lastTs, lastPage, stored, checkpoint, aborts, overrides>>
  BY DEF CloseBar, Reset, file
<1>2. acc.ticks = 0 <=> acc = Empty
  BY DEF BarsInv, Whole, Faithful, Empty
<1>3. IdsIn(all) = IdsIn(pending) \union IdSet(acc)
  BY <1>2, NoIds, IdsOfAppended DEF TypesInv, TypeOK, Collect
<1> QED
  BY <1>1, <1>2, <1>3 DEF Collect

\* When CloseBar ends the run instead, nothing was held.
LEMMA NothingToClose ==
  ASSUME TypesInv, BarsInv, CloseBar, Down
  PROVE  pending = <<>> /\ acc = Empty /\ UNCHANGED <<market, file, aborts, overrides>>
<1>1. pending = <<>> /\ acc.ticks = 0
  <2> DEFINE all == IF acc.ticks = 0 THEN pending ELSE Collect(pending, acc)
  <2>1. all = <<>> \/ pc' = "appending"
    BY DEF CloseBar
  <2>2. all = <<>>
    BY <2>1 DEF Down
  <2>3. Append(pending, acc) # <<>>
    BY IdsOfAppended DEF TypesInv, TypeOK
  <2> QED
    BY <2>2, <2>3 DEF Collect
<1>2. acc = Empty
  BY <1>1 DEF BarsInv, Whole, Faithful
<1> QED
  BY <1>1, <1>2 DEF CloseBar

LEMMA StillPast ==
  ASSUME DOMAIN market \subseteq DOMAIN market', \A i \in DOMAIN market : market'[i] = market[i],
         NEW ts, InPast(ts)
  PROVE  InPast(ts)'
BY DEF InPast

LEMMA PositionStep ==
  ASSUME TypesInv, TypesInv', BarsInv, PositionInv, [Next]_vars
  PROVE  PositionInv'
<1> USE DEF memory, file
<1>1. CASE FetchPage
  <2>1. PICK i \in Nat \ {0}, j \in Nat :
           /\ i <= j /\ i..j \subseteq DOMAIN market /\ j \in DOMAIN market
           /\ \A k \in DOMAIN market : k >= i <=> market[k].ts > lastTs
           /\ pending' # <<>> \/ acc' # Empty
           /\ lastTs' = market[j].ts
           /\ UNCHANGED <<market, final, file, aborts, overrides>>
           /\ pc' \in {"appending", "closing", "fetching"}
           /\ pc' = "fetching" => cursor' = lastTs' + 1
    BY <1>1, PageRead
  <2>2. lastTs' > lastTs /\ lastTs' \in Nat /\ lastTs \in Nat /\ checkpoint \in Nat
    BY <2>1, TradeFacts DEF TypesInv, TypeOK
  <2>3. pc = "fetching"
    BY <1>1 DEF FetchPage
  <2>4. overrides = 0 => InPast(lastTs)' /\ InPast(checkpoint)'
    BY <2>1, <2>2 DEF PositionInv, InPast
  <2> QED
    BY <2>1, <2>2, <2>3, <2>4 DEF PositionInv, Empty
<1>2. CASE Trade
  <2>1. /\ DOMAIN market \subseteq DOMAIN market' /\ \A i \in DOMAIN market : market'[i] = market[i]
        /\ UNCHANGED <<pc, cursor, lastTs, acc, pending, stored, checkpoint, overrides>>
    BY <1>2, TradeAppends DEF TypesInv, TypeOK
  <2>2. InPast(lastTs) => InPast(lastTs)'
    BY <2>1 DEF InPast
  <2>3. InPast(checkpoint) => InPast(checkpoint)'
    BY <2>1 DEF InPast
  <2>4. Covered' = Covered /\ IdsIn(pending)' = IdsIn(pending)
    BY <2>1 DEF Covered, IdsIn, IdSet
  <2> QED
    BY <2>1, <2>2, <2>3, <2>4 DEF PositionInv, Empty
<1>3. CASE Start
  <2>1. /\ (cursor' = NoTs /\ lastTs' = 0) \/ cursor' = lastTs' + 1
        /\ overrides' = 0 => overrides = 0 /\ lastTs' = checkpoint
        /\ pc' = "fetching" /\ UNCHANGED <<market, checkpoint, stored, pending>>
    BY <1>3, Started DEF TypesInv, TypeOK, Start
  <2>2. overrides' = 0 => InPast(lastTs)' /\ InPast(checkpoint)'
    BY <2>1 DEF PositionInv, InPast
  <2>3. checkpoint \in Nat /\ checkpoint <= checkpoint
    BY DEF TypesInv, TypeOK
  <2> QED
    BY <2>1, <2>2, <2>3 DEF PositionInv
<1>4. CASE FetchNothing
  BY <1>4 DEF FetchNothing, PositionInv, InPast, Empty
<1>5. CASE AppendBars
  <2>1. /\ stored' = stored \o pending /\ pc' = "marking"
        /\ UNCHANGED <<market, cursor, lastTs, acc, pending, lastPage, final, checkpoint, overrides>>
    BY <1>5 DEF AppendBars
  <2>2. Covered' = Covered \union IdsIn(pending)
    BY <2>1, CoveredIds, IdsOfJoined DEF TypesInv, TypeOK
  <2>3. IdsIn(pending)' = IdsIn(pending)
    BY <2>1 DEF IdsIn, IdSet
  <2> QED
    BY <2>1, <2>2, <2>3, <1>5 DEF PositionInv, InPast, AppendBars, Empty
<1>6. CASE MarkCheckpoint
  <2>1. pc' = "closing" \/ (pc' = "fetching" /\ cursor' = lastTs + 1)
    BY <1>6 DEF MarkCheckpoint, TurnPage, NextCursor
  <2>2. checkpoint' = lastTs /\ pending' = <<>> /\ UNCHANGED <<market, lastTs, overrides>>
    BY <1>6 DEF MarkCheckpoint
  <2> QED
    BY <2>1, <2>2, <1>6 DEF PositionInv, InPast, MarkCheckpoint, TypesInv, TypeOK
<1>7. CASE CloseBar
  <2>1. CASE Down
    BY <1>7, <2>1, NothingToClose DEF Down, PositionInv, InPast
  <2>2. CASE ~Down
    <3>1. /\ pc' = "appending" /\ pending' # <<>>
          /\ UNCHANGED <<market, lastTs, checkpoint, overrides>>
      BY <1>7, <2>2, BarClosed
    <3>2. pc = "closing"
      BY <1>7 DEF CloseBar
    <3> QED
      BY <3>1, <3>2 DEF PositionInv, InPast
  <2> QED
    BY <2>1, <2>2
<1>8. CASE MarkFinal
  BY <1>8 DEF MarkFinal, Down, PositionInv, InPast
<1>9. CASE Abort
  BY <1>9 DEF Abort, Down, PositionInv, InPast
<1>10. CASE UNCHANGED vars
  <2>1. UNCHANGED <<market, pc, cursor, lastTs, acc, pending, stored, checkpoint, overrides>>
    BY <1>10 DEF vars
  <2>2. Covered' = Covered /\ IdsIn(pending)' = IdsIn(pending)
    BY <2>1 DEF Covered, IdsIn, IdSet
  <2> QED
    BY <2>1, <2>2 DEF PositionInv, InPast, Empty
<1> QED
  BY <1>1, <1>2, <1>3, <1>4, <1>5, <1>6, <1>7, <1>8, <1>9, <1>10 DEF Next, RunStep

LEMMA PositionInit ==
  ASSUME Init
  PROVE  PositionInv
BY DEF Init, PositionInv, InPast, NoTs

LEMMA PositionAlways == Spec => [](TypesInv /\ BarsInv /\ PositionInv)
<1>1. Init => TypesInv /\ BarsInv /\ PositionInv
  BY TypesInit, BarsInit, PositionInit
<1>2. TypesInv /\ BarsInv /\ PositionInv /\ [Next]_vars => (TypesInv /\ BarsInv /\ PositionInv)'
  BY TypesStep, BarsStep, PositionStep
<1> QED
  BY <1>1, <1>2, PTL DEF Spec

-----------------------------------------------------------------------------
(* What is skipped.                                                        *)

TiesInv ==
  Undisturbed =>
    \A i \in DOMAIN market :
      market[i].ts <= Reach => i \in Got \/ \E j \in Got : j < i /\ market[j].ts = market[i].ts

LEMMA GotInMarket ==
  ASSUME BarsInv
  PROVE  Got \subseteq DOMAIN market
<1>1. \A bar : Whole(bar) => IdSet(bar) \subseteq DOMAIN market
  BY DEF Whole, IdSet
<1>2. IdSet(acc) \subseteq DOMAIN market
  BY <1>1, NoIds DEF BarsInv
<1> QED
  BY <1>1, <1>2, CoveredIds DEF BarsInv, Got, IdsIn

\* Outside FetchPage and Trade, what was got stays got, and no more counts as read.
LEMMA NothingDropped ==
  ASSUME TypesInv, BarsInv, PositionInv, [Next]_vars, ~FetchPage, ~Trade, Undisturbed'
  PROVE  /\ UNCHANGED market /\ Undisturbed /\ Got \subseteq Got'
         /\ Reach' <= Reach
         /\ (pc' = "down" \/ Reach' = Reach)
<1> USE DEF memory, file
<1>1. checkpoint \in Nat /\ lastTs \in Nat /\ aborts \in Nat /\ overrides \in Nat
  BY BarsAssumption DEF TypesInv, TypeOK
<1>2. Got = IdsIn(stored) \union IdsIn(pending) \union IdSet(acc)
  BY CoveredIds DEF Got
<1>3. Got' = IdsIn(stored') \union IdsIn(pending') \union IdSet(acc')
  BY CoveredIds DEF Got, IdsIn, IdSet
<1>4. CASE Start
  <2>1. /\ overrides' = 0 => overrides = 0 /\ lastTs' = checkpoint
        /\ pc' = "fetching" /\ pc = "down"
        /\ UNCHANGED <<market, checkpoint, stored, pending, acc, aborts>>
    BY <1>4, Started DEF TypesInv, TypeOK, Start
  <2> QED
    BY <1>1, <1>2, <1>3, <2>1 DEF Reach, Undisturbed
<1>5. CASE FetchNothing
  BY <1>1, <1>2, <1>3, <1>5 DEF FetchNothing, Reach, Undisturbed
<1>6. CASE AppendBars
  <2>1. /\ stored' = stored \o pending /\ pc' = "marking" /\ pc = "appending"
        /\ UNCHANGED <<market, lastTs, acc, pending, aborts, overrides>>
    BY <1>6 DEF AppendBars
  <2>2. IdsIn(stored') = IdsIn(stored) \union IdsIn(pending)
    BY <2>1, IdsOfJoined DEF TypesInv, TypeOK
  <2> QED
    BY <1>1, <1>2, <1>3, <2>1, <2>2 DEF Reach, Undisturbed
<1>7. CASE MarkCheckpoint
  <2>1. /\ pending' = <<>> /\ pc = "marking" /\ pc' \in {"closing", "fetching"}
        /\ UNCHANGED <<market, lastTs, acc, stored, aborts, overrides>>
    BY <1>7 DEF MarkCheckpoint, TurnPage
  <2>2. IdsIn(pending) \subseteq IdsIn(stored)
    BY <2>1, CoveredIds DEF PositionInv
  <2> QED
    BY <1>1, <1>2, <1>3, <2>1, <2>2 DEF Reach, Undisturbed
<1>8. CASE CloseBar
  <2>1. pc = "closing"
    BY <1>8 DEF CloseBar
  <2>2. CASE Down
    <3>1. /\ pending = <<>> /\ acc = Empty
          /\ UNCHANGED <<market, stored, checkpoint, aborts, overrides>>
      BY <1>8, <2>2, NothingToClose
    <3> QED
      BY <1>1, <1>2, <1>3, <2>1, <2>2, <3>1, NoIds DEF Reach, Undisturbed, Down, PositionInv
  <2>3. CASE ~Down
    BY <1>1, <1>2, <1>3, <1>8, <2>1, <2>3, BarClosed DEF Reach, Undisturbed
  <2> QED
    BY <2>2, <2>3
<1>9. CASE MarkFinal
  <2>1. /\ checkpoint' = lastTs /\ pc = "marking" /\ final /\ Down
        /\ UNCHANGED <<market, stored, aborts, overrides>>
    BY <1>9 DEF MarkFinal
  <2>2. IdsIn(pending) \subseteq IdsIn(stored) /\ acc = Empty
    BY <2>1, CoveredIds DEF PositionInv, TypesInv, MemoryClean
  <2> QED
    BY <1>1, <1>2, <1>3, <2>1, <2>2, NoIds DEF Reach, Undisturbed, Down
<1>10. CASE Abort
  BY <1>1, <1>10 DEF Abort, Undisturbed
<1>11. CASE UNCHANGED vars
  <2>1. UNCHANGED <<market, pc, lastTs, acc, pending, stored, checkpoint, aborts, overrides>>
    BY <1>11 DEF vars
  <2> QED
    BY <1>1, <1>2, <1>3, <2>1 DEF Reach, Undisturbed
<1> QED
  BY <1>4, <1>5, <1>6, <1>7, <1>8, <1>9, <1>10, <1>11 DEF Next, RunStep

LEMMA TiesStep ==
  ASSUME TypesInv, BarsInv, PositionInv, TiesInv, [Next]_vars
  PROVE  TiesInv'
<1> SUFFICES ASSUME Undisturbed'
             PROVE  TiesInv'
  BY DEF TiesInv
<1> USE DEF memory, file
<1>1. \A i \in DOMAIN market : market[i].ts \in Nat
  BY TradeFacts DEF TypesInv, TypeOK
<1>2. Got \subseteq DOMAIN market
  BY GotInMarket
<1>3. lastTs \in Nat /\ checkpoint \in Nat /\ Reach \in Nat
  BY DEF TypesInv, TypeOK, Reach
<1>4. CASE FetchPage
  <2>1. PICK i \in Nat \ {0}, j \in Nat :
           /\ i <= j /\ i..j \subseteq DOMAIN market /\ j \in DOMAIN market
           /\ \A k \in DOMAIN market : k >= i <=> market[k].ts > lastTs
           /\ IdsIn(pending') \union IdSet(acc') = IdsIn(pending) \union IdSet(acc) \union i..j
           /\ lastTs' = market[j].ts
           /\ UNCHANGED <<market, final, file, aborts, overrides>>
           /\ pc' \in {"appending", "closing", "fetching"}
    BY <1>4, PageRead
  <2>2. Got' = Got \union i..j
    <3>1. IdsIn(pending)' = IdsIn(pending') /\ IdSet(acc)' = IdSet(acc') /\ Covered' = Covered
      BY <2>1 DEF IdsIn, IdSet, Covered
    <3> QED
      BY <2>1, <3>1 DEF Got
  <2>3. pc = "fetching" /\ Reach = lastTs /\ Reach' = market[j].ts /\ Undisturbed
    BY <1>4, <2>1 DEF FetchPage, Reach, Undisturbed
  <2>4. ASSUME NEW m \in DOMAIN market, market[m].ts <= market[j].ts
        PROVE  m \in Got' \/ \E k \in Got' : k < m /\ market[k].ts = market[m].ts
    <3>1. m \in Nat
      BY TradeFacts DEF TypesInv, TypeOK
    <3>2. CASE market[m].ts <= lastTs
      BY <2>2, <2>3, <2>4, <3>2 DEF TiesInv
    <3>3. CASE market[m].ts > lastTs /\ m <= j
      <4>1. m >= i
        BY <2>1, <3>3
      <4> QED
        BY <2>2, <3>1, <3>3, <4>1
    <3>4. CASE m > j
      <4>1. market[j].ts <= market[m].ts
        BY <2>1, <3>1, <3>4 DEF TypesInv, MarketSorted
      <4>2. market[j].ts = market[m].ts /\ j \in i..j
        BY <1>1, <2>1, <2>4, <4>1
      <4> QED
        BY <2>2, <3>1, <3>4, <4>2
    <3> QED
      BY <1>1, <1>3, <2>1, <3>1, <3>2, <3>3, <3>4
  <2> QED
    BY <2>1, <2>3, <2>4 DEF TiesInv
<1>5. CASE Trade
  <2>1. /\ market' \in Seq(Trades) /\ MarketSorted'
        /\ Len(market') = Len(market) + 1 /\ DOMAIN market \subseteq DOMAIN market'
        /\ \A i \in DOMAIN market : market'[i] = market[i]
        /\ UNCHANGED <<pc, lastTs, acc, pending, stored, checkpoint, aborts, overrides>>
    BY <1>5, TradeAppends DEF TypesInv, TypeOK
  <2>2. Got' = Got /\ Reach' = Reach /\ Undisturbed
    BY <2>1 DEF Got, Covered, IdsIn, IdSet, Reach, Undisturbed
  <2>3. InPast(Reach)
    BY <2>2 DEF PositionInv, Reach, Undisturbed
  <2>4. /\ DOMAIN market' = 1..Len(market') /\ DOMAIN market = 1..Len(market)
        /\ Len(market) \in Nat
    BY <2>1 DEF TypesInv, TypeOK
  <2>5. \A i \in DOMAIN market' : market'[i].ts \in Nat \ {0}
    <3>1. \A i \in DOMAIN market' : market'[i] \in Trades
      BY <2>1
    <3> QED
      BY <3>1 DEF Trades
  <2>6. ASSUME NEW m \in DOMAIN market', market'[m].ts <= Reach
        PROVE  m \in Got \/ \E k \in Got : k < m /\ market'[k].ts = market'[m].ts
    <3>1. CASE m \in DOMAIN market
      BY <1>2, <2>1, <2>2, <2>6, <3>1 DEF TiesInv
    <3>2. CASE m \notin DOMAIN market
      <4>1. m = Len(market) + 1
        BY <2>1, <2>4, <3>2
      <4>2. PICK i \in DOMAIN market : Reach <= market[i].ts
        BY <1>3, <2>3, <2>5, <2>6 DEF InPast
      <4>3. i < m /\ i \in DOMAIN market'
        BY <2>1, <2>4, <4>1
      <4>4. market'[i].ts <= market'[m].ts
        BY <2>1, <2>4, <4>3 DEF MarketSorted
      <4>5. market[i].ts = Reach /\ market'[m].ts = market'[i].ts /\ market'[i].ts = market[i].ts
        BY <1>1, <1>3, <2>1, <2>5, <2>6, <4>2, <4>3, <4>4
      <4>6. i \in Got \/ \E k \in Got : k < i /\ market[k].ts = market[i].ts
        BY <1>3, <2>2, <4>5 DEF TiesInv
      <4> QED
        BY <1>2, <2>1, <2>4, <4>3, <4>5, <4>6
    <3> QED
      BY <3>1, <3>2
  <2> QED
    BY <2>2, <2>6 DEF TiesInv
<1>6. CASE ~FetchPage /\ ~Trade
  <2>1. /\ UNCHANGED market /\ Undisturbed /\ Got \subseteq Got'
        /\ Reach' <= Reach
    BY <1>6, NothingDropped
  <2>2. Reach' \in Nat
    <3>1. TypesInv'
      BY TypesStep
    <3> QED
      BY <3>1 DEF TypesInv, TypeOK, Reach
  <2>3. \A i \in DOMAIN market : market[i].ts <= Reach' => market[i].ts <= Reach
    BY <1>1, <1>3, <2>1, <2>2
  <2> QED
    BY <2>1, <2>3 DEF TiesInv
<1> QED
  BY <1>4, <1>5, <1>6

\* In runs that are not disturbed, between runs, only a trade that shares its
\* millisecond with an earlier one can be behind the checkpoint and in no bar
\* (bars.py:372, 410).
THEOREM SkippedTradesAreTies == Spec => []OnlyTiesSkipped
<1>1. Init => TiesInv
  BY DEF Init, TiesInv
<1>2. TypesInv /\ BarsInv /\ PositionInv /\ TiesInv /\ [Next]_vars => TiesInv'
  BY TiesStep
<1>3. TypesInv /\ BarsInv /\ TiesInv => OnlyTiesSkipped
  <2>1. SUFFICES ASSUME TypesInv, BarsInv, TiesInv, Undisturbed, pc = "down",
                        NEW i \in Behind \ Covered
                 PROVE  \E j \in Covered : j < i /\ market[j].ts = market[i].ts
    BY DEF OnlyTiesSkipped
  <2>2. Got = Covered /\ Reach = checkpoint
    BY <2>1, NoIds DEF Got, Reach, TypesInv, MemoryClean
  <2> QED
    BY <2>1, <2>2 DEF TiesInv, Behind
<1> QED
  BY <1>1, <1>2, <1>3, PositionAlways, PTL DEF Spec

-----------------------------------------------------------------------------
(* What an interrupted run can lose.                                       *)

\* The bar sums up an interval of the market that ends at z.
Run(bar, z) ==
  /\ bar.ids[1] \in 1..z /\ IdSet(bar) = bar.ids[1]..z
  /\ bar.dollars = Dollars(bar.ids[1]..z)

\* What was read since the last mark is held; the accumulator holds the newest
\* trades; and when bars are pending, a trade that a mark will put behind the
\* checkpoint comes before those in the accumulator.
HeldInv ==
  overrides = 0 /\ DistinctTimes =>
    /\ pc # "down" => \A i \in DOMAIN market :
                         checkpoint < market[i].ts /\ market[i].ts <= lastTs
                           => i \in IdsIn(pending) \union IdSet(acc)
    /\ acc # Empty => \E z \in DOMAIN market : market[z].ts = lastTs /\ Run(acc, z)
    /\ pending # <<>> /\ ~final =>
         \E i \in DOMAIN market : checkpoint < market[i].ts /\ market[i].ts <= lastTs
    /\ pending # <<>> /\ acc # Empty =>
         acc.ids[1] > 1 /\ checkpoint < market[acc.ids[1] - 1].ts

\* A flush has something to write.
FlushInv == pc \in {"appending", "marking"} => pending # <<>>

LEMMA FlushStep ==
  ASSUME TypesInv, BarsInv, PositionInv, FlushInv, [Next]_vars
  PROVE  FlushInv'
<1> USE DEF memory, file
<1>1. CASE FetchPage
  <2>1. pc' \in {"appending", "closing", "fetching"} /\ (pc' = "appending" => pending' # <<>>)
    BY <1>1, PageRead
  <2> QED
    BY <2>1 DEF FlushInv
<1>2. CASE CloseBar
  BY <1>2, BarClosed DEF FlushInv, Down
<1>3. CASE ~FetchPage /\ ~CloseBar
  BY <1>3 DEF FlushInv, Next, RunStep, Start, FetchNothing, AppendBars, MarkCheckpoint, TurnPage,
              MarkFinal, Abort, Trade, Down, vars
<1> QED
  BY <1>1, <1>2, <1>3

\* What one more trade adds to an interval's dollars.
LEMMA DollarsOfRange ==
  ASSUME market \in Seq(Trades), NEW a \in DOMAIN market, NEW z \in DOMAIN market, a <= z
  PROVE  /\ Dollars(z..z) = Worth(z)
         /\ a < z => Dollars(a..z) = Dollars(a..z - 1) + Worth(z)
<1> DEFINE worth == [i \in DOMAIN market |-> Worth(i)]
<1>1. \A i \in DOMAIN market : worth[i] \in Int /\ worth[i] = Worth(i)
  BY WorthIsNat
<1>2. a \in Nat /\ z \in Nat /\ DOMAIN market = 1..Len(market) /\ Len(market) \in Nat
  BY TradeFacts
<1> HIDE DEF worth
<1>3. SumFunctionOnSet(worth, {} \union {z}) = SumFunctionOnSet(worth, {}) + worth[z]
  <2>1. IsFiniteSet({}) /\ z \notin {} /\ \A x \in {} \union {z} : worth[x] \in Int
    BY <1>1, FS_EmptySet
  <2> QED
    BY <2>1, SumAddsElement
<1>4. SumFunctionOnSet(worth, {z}) = worth[z]
  <2>1. {} \union {z} = {z} /\ worth[z] \in Int /\ SumFunctionOnSet(worth, {}) = 0
    BY <1>1, SumOfNone
  <2>2. SumFunctionOnSet(worth, {z}) = SumFunctionOnSet(worth, {}) + worth[z]
    BY <1>3, <2>1, Zenon
  <2> QED
    BY <2>1, <2>2
<1>5. ASSUME a < z
      PROVE  SumFunctionOnSet(worth, a..z) = SumFunctionOnSet(worth, a..z - 1) + worth[z]
  <2> DEFINE S == a..z - 1
  <2>1. IsFiniteSet(S)
    BY <1>2, FS_Interval
  <2>2. z \notin S /\ S \union {z} = a..z /\ \A x \in S \union {z} : worth[x] \in Int
    <3>1. S \union {z} = a..z /\ z \notin S
      BY <1>2, <1>5
    <3>2. a..z \subseteq DOMAIN market
      BY <1>2
    <3> QED
      BY <1>1, <3>1, <3>2
  <2> HIDE DEF S
  <2>3. SumFunctionOnSet(worth, S \union {z}) = SumFunctionOnSet(worth, S) + worth[z]
    BY <2>1, <2>2, SumAddsElement
  <2> QED
    BY <2>2, <2>3, Zenon DEF S
<1>6. z..z = {z}
  BY <1>2
<1>7. Dollars(z..z) = SumFunctionOnSet(worth, {z})
  BY <1>6, Zenon DEF Dollars, worth
<1>8. Dollars(a..z) = SumFunctionOnSet(worth, a..z)
      /\ Dollars(a..z - 1) = SumFunctionOnSet(worth, a..z - 1)
  BY Zenon DEF Dollars, worth
<1> QED
  BY <1>1, <1>4, <1>5, <1>7, <1>8

\* A part of an interval is worth no more than the interval.
LEMMA DollarsGrow ==
  ASSUME market \in Seq(Trades), NEW S \in SUBSET DOMAIN market, NEW T \in SUBSET S
  PROVE  Dollars(T) <= Dollars(S) /\ Dollars(S) \in Nat /\ Dollars(T) \in Nat
<1> DEFINE worth == [i \in DOMAIN market |-> Worth(i)]
<1>1. \A i \in DOMAIN market : worth[i] \in Nat
  BY WorthIsNat
<1>2. IsFiniteSet(DOMAIN market)
  BY TradeFacts, FS_Interval
<1>3. IsFiniteSet(S) /\ IsFiniteSet(T)
  BY <1>2, FS_Subset
<1> HIDE DEF worth
<1>4. \A x \in S : worth[x] \in Nat
  BY <1>1
<1>5. /\ SumFunctionOnSet(worth, T) <= SumFunctionOnSet(worth, S)
      /\ SumFunctionOnSet(worth, S) \in Nat
  BY <1>3, <1>4, SumGrows
<1>6. T \in SUBSET T /\ \A x \in T : worth[x] \in Nat
  BY <1>4
<1>7. SumFunctionOnSet(worth, T) \in Nat
  BY <1>3, <1>6, SumGrows
<1> QED
  BY <1>5, <1>7 DEF Dollars, worth

\* An accumulator that holds the newest trades up to k - 1 holds those up to k
\* once trade k is added.
LEMMA RunGrows ==
  ASSUME market \in Seq(Trades), NEW k \in DOMAIN market, NEW a \in Bars,
         (a = Empty) \/ (k - 1 \in DOMAIN market /\ Whole(a) /\ Run(a, k - 1))
  PROVE  /\ Run(Add(a, k), k)
         /\ a = Empty => Add(a, k).ids[1] = k
         /\ a # Empty => Add(a, k).ids[1] = a.ids[1]
<1> DEFINE b == Add(a, k)
<1>1. /\ b.ids = Append(a.ids, k) /\ b.dollars = a.dollars + Worth(k)
      /\ IdSet(b) = IdSet(a) \union {k}
  BY AddedIsBar, IdsOfAdded DEF Add, Worth
<1>2. k \in Nat \ {0} /\ a.ids \in Seq(Nat \ {0}) /\ k \in 1..k
  BY TradeFacts DEF Bars
<1>3. CASE a = Empty
  <2>1. b.ids[1] = k /\ IdSet(b) = {k}
    BY <1>1, <1>2, <1>3, NoIds DEF Empty
  <2>2. b.dollars = Worth(k)
    BY <1>1, <1>3, WorthIsNat DEF Empty
  <2>3. Dollars(k..k) = Worth(k) /\ k..k = {k}
    BY <1>2, DollarsOfRange
  <2> HIDE DEF b
  <2> QED
    BY <1>2, <1>3, <2>1, <2>2, <2>3 DEF Run, b
<1>4. CASE a # Empty
  <2>1. k - 1 \in DOMAIN market /\ Whole(a) /\ Run(a, k - 1)
    BY <1>4
  <2>2. b.ids[1] = a.ids[1]
    <3>1. Len(a.ids) > 0
      BY <2>1 DEF Whole, Faithful
    <3> QED
      BY <1>1, <1>2, <3>1
  <2> DEFINE s == a.ids[1]
  <2>3. s \in 1..k - 1 /\ IdSet(a) = s..k - 1 /\ a.dollars = Dollars(s..k - 1)
    BY <2>1 DEF Run
  <2> HIDE DEF s
  <2>4. s \in DOMAIN market /\ s < k /\ s <= k /\ s \in 1..k /\ (s..k - 1) \union {k} = s..k
    BY <1>2, <2>3, TradeFacts
  <2>5. Dollars(s..k) = Dollars(s..k - 1) + Worth(k)
    BY <2>4, DollarsOfRange
  <2>6. b.ids[1] = s
    BY <2>2 DEF s
  <2> HIDE DEF b
  <2>7. IdSet(b) = s..k /\ b.dollars = Dollars(s..k)
    BY <1>1, <2>3, <2>4, <2>5 DEF b
  <2> QED
    BY <1>4, <2>2, <2>4, <2>6, <2>7 DEF Run, b
<1> QED
  BY <1>3, <1>4

\* With distinct times a later trade is newer.
LEMMA LaterIsNewer ==
  ASSUME market \in Seq(Trades), MarketSorted, DistinctTimes,
         NEW i \in DOMAIN market, NEW j \in DOMAIN market
  PROVE  i < j <=> market[i].ts < market[j].ts
<1>1. i \in Nat /\ j \in Nat /\ market[i].ts \in Nat /\ market[j].ts \in Nat
  BY TradeFacts
<1>2. (i <= j => market[i].ts <= market[j].ts) /\ (j <= i => market[j].ts <= market[i].ts)
  BY DEF MarketSorted
<1>3. i # j => market[i].ts # market[j].ts
  BY DEF DistinctTimes
<1> QED
  BY <1>1, <1>2, <1>3

\* What a page leaves in memory, in terms of the checkpoint of before: the newest
\* trades in the accumulator, and a trade ahead of them that is not yet marked if
\* there are bars.
LEMMA PageHeld ==
  ASSUME TypesInv, BarsInv, PositionInv, HeldInv, overrides = 0, DistinctTimes, ~final,
         pc # "down",
         NEW i \in Nat \ {0}, NEW j \in Nat, i <= j, i..j \subseteq DOMAIN market,
         \A k \in DOMAIN market : k >= i <=> market[k].ts > lastTs
  PROVE  LET r == Ingested(i, j)
         IN  /\ r.acc # Empty => Run(r.acc, j)
             /\ r.bars # <<>> => checkpoint < market[j].ts
             /\ r.bars # <<>> /\ r.acc # Empty =>
                  r.acc.ids[1] > 1 /\ checkpoint < market[r.acc.ids[1] - 1].ts
<1> USE DEF TypesInv, TypeOK
<1> DEFINE G == [k \in Nat |-> {s \in States :
                   /\ Sound(s)
                   /\ s.acc # Empty => k \in DOMAIN market /\ Run(s.acc, k)
                   /\ s.bars # <<>> => k \in DOMAIN market /\ checkpoint < market[k].ts
                   /\ s.bars # <<>> /\ s.acc # Empty =>
                        s.acc.ids[1] > 1 /\ checkpoint < market[s.acc.ids[1] - 1].ts}]
<1>1. /\ Len(market) \in Nat /\ DOMAIN market = 1..Len(market)
      /\ \A k \in DOMAIN market : market[k].ts \in Nat
      /\ lastTs \in Nat /\ checkpoint \in Nat /\ checkpoint <= lastTs
  BY TradeFacts DEF PositionInv
<1>2. i \in i..j /\ i - 1 \in Nat /\ j \in Nat
  OBVIOUS
<1>3. ASSUME NEW m \in DOMAIN market, market[m].ts <= lastTs
      PROVE  i - 1 \in DOMAIN market /\ m <= i - 1 /\ market[m].ts <= market[i - 1].ts
             /\ market[i - 1].ts <= lastTs
  <2>1. ~(m >= i) /\ m \in Nat /\ i \in DOMAIN market
    BY <1>1, <1>2, <1>3
  <2>2. i - 1 \in DOMAIN market /\ m <= i - 1 /\ ~(i - 1 >= i)
    BY <1>1, <2>1
  <2>3. market[m].ts <= market[i - 1].ts
    BY <2>2 DEF MarketSorted
  <2>4. ~(market[i - 1].ts > lastTs)
    BY <2>2
  <2> QED
    BY <1>1, <2>2, <2>3, <2>4
<1>4. [acc |-> acc, bars |-> pending] \in G[i - 1]
  <2>1. Sound([acc |-> acc, bars |-> pending])
    BY DEF Sound, BarsInv
  <2>2. ASSUME acc # Empty
        PROVE  i - 1 \in DOMAIN market /\ Run(acc, i - 1)
    <3>1. PICK z \in DOMAIN market : market[z].ts = lastTs /\ Run(acc, z)
      BY <2>2 DEF HeldInv
    <3>2. i - 1 \in DOMAIN market /\ z <= i - 1 /\ market[z].ts <= market[i - 1].ts
          /\ market[i - 1].ts <= lastTs
      BY <1>1, <1>3, <3>1
    <3>3. market[z].ts = market[i - 1].ts
      BY <1>1, <3>1, <3>2
    <3>4. z = i - 1
      BY <3>2, <3>3 DEF DistinctTimes
    <3> QED
      BY <3>1, <3>2, <3>4
  <2>3. ASSUME pending # <<>>
        PROVE  i - 1 \in DOMAIN market /\ checkpoint < market[i - 1].ts
    <3>1. PICK m \in DOMAIN market : checkpoint < market[m].ts /\ market[m].ts <= lastTs
      BY <2>3 DEF HeldInv
    <3>2. i - 1 \in DOMAIN market /\ market[m].ts <= market[i - 1].ts
      BY <1>3, <3>1
    <3> QED
      BY <1>1, <3>1, <3>2
  <2>4. pending # <<>> /\ acc # Empty =>
          acc.ids[1] > 1 /\ checkpoint < market[acc.ids[1] - 1].ts
    BY DEF HeldInv
  <2>5. [acc |-> acc, bars |-> pending] \in States
    BY DEF States
  <2> QED
    BY <1>2, <2>1, <2>2, <2>3, <2>4, <2>5
<1>5. ASSUME NEW k \in i..j, NEW s \in States, s \in G[k - 1]
      PROVE  Ingest(k, s) \in G[k]
  <2>1. k \in Nat /\ k - 1 \in Nat /\ k \in DOMAIN market /\ k \in i..j /\ k >= i
    OBVIOUS
  <2>2. checkpoint < market[k].ts
    <3>1. market[k].ts > lastTs
      BY <2>1
    <3> QED
      BY <1>1, <2>1, <3>1
  <2>3. /\ Sound(s)
        /\ s.acc # Empty => k - 1 \in DOMAIN market /\ Run(s.acc, k - 1)
        /\ s.bars # <<>> => k - 1 \in DOMAIN market /\ checkpoint < market[k - 1].ts
        /\ s.bars # <<>> /\ s.acc # Empty =>
             s.acc.ids[1] > 1 /\ checkpoint < market[s.acc.ids[1] - 1].ts
    BY <1>5, <2>1
  <2>4. s.acc \in Bars /\ Ingest(k, s) \in States /\ Sound(Ingest(k, s))
    BY <2>1, <2>3, IngestType, IngestSound DEF States
  <2> DEFINE b == Add(s.acc, k)
  <2>5. /\ Run(b, k)
        /\ s.acc = Empty => b.ids[1] = k
        /\ s.acc # Empty => b.ids[1] = s.acc.ids[1]
    <3>1. s.acc = Empty \/ Whole(s.acc)
      BY <2>3 DEF Sound
    <3>2. (s.acc = Empty) \/ (k - 1 \in DOMAIN market /\ Whole(s.acc) /\ Run(s.acc, k - 1))
      BY <2>3, <3>1
    <3> QED
      BY <2>1, <2>4, <3>2, RunGrows
  <2>6. ASSUME s.bars # <<>>
        PROVE  b.ids[1] > 1 /\ checkpoint < market[b.ids[1] - 1].ts
    <3>1. CASE s.acc = Empty
      <4>1. k - 1 \in DOMAIN market /\ checkpoint < market[k - 1].ts /\ b.ids[1] = k /\ k > 1
        BY <1>1, <2>1, <2>3, <2>5, <2>6, <3>1
      <4> QED
        BY <4>1
    <3>2. CASE s.acc # Empty
      BY <2>3, <2>5, <2>6, <3>2
    <3> QED
      BY <3>1, <3>2
  <2> HIDE DEF b
  <2>7. CASE Crosses(b)
    <3>1. Ingest(k, s) = [acc |-> Empty, bars |-> Append(s.bars, b)]
      BY <2>7 DEF Ingest, b, Reset, Collect
    <3> QED
      BY <2>1, <2>2, <2>4, <3>1
  <2>8. CASE ~Crosses(b)
    <3>1. Ingest(k, s) = [acc |-> b, bars |-> s.bars]
      BY <2>8 DEF Ingest, b
    <3> QED
      BY <2>1, <2>2, <2>4, <2>5, <2>6, <3>1
  <2> QED
    BY <2>7, <2>8
<1> HIDE DEF G
<1>6. Ingested(i, j) \in G[j]
  BY <1>4, <1>5, IngestedKeeps
<1> QED
  BY <1>2, <1>6 DEF G

\* What else a trade leaves alone, when no two trades share a millisecond: it is
\* newer than all that was read.
LEMMA TradeIsNew ==
  ASSUME TypesInv, BarsInv, PositionInv, Trade, overrides = 0, DistinctTimes'
  PROVE  /\ DistinctTimes /\ DOMAIN market \subseteq DOMAIN market'
         /\ \A i \in DOMAIN market : market'[i] = market[i]
         /\ \A i \in DOMAIN market' : i \notin DOMAIN market =>
               i = Len(market) + 1 /\ market'[i].ts > lastTs /\ market'[i].ts > checkpoint
         /\ UNCHANGED <<pc, memory, file, aborts, overrides>>
         /\ \A S \in SUBSET DOMAIN market : Dollars(S)' = Dollars(S)
<1> USE DEF TypesInv, TypeOK
<1>1. /\ market' \in Seq(Trades) /\ MarketSorted'
      /\ Len(market') = Len(market) + 1 /\ DOMAIN market \subseteq DOMAIN market'
      /\ \A i \in DOMAIN market : market'[i] = market[i]
      /\ UNCHANGED <<pc, memory, file, aborts, overrides>>
  BY TradeAppends
<1>2. DistinctTimes
  BY <1>1 DEF DistinctTimes
<1>3. /\ Len(market) \in Nat /\ DOMAIN market = 1..Len(market)
      /\ DOMAIN market' = 1..Len(market) + 1
      /\ \A i \in DOMAIN market : market[i].ts \in Nat
  BY <1>1, TradeFacts
<1>4. \A i \in DOMAIN market' : market'[i].ts \in Nat \ {0}
  <2>1. \A i \in DOMAIN market' : market'[i] \in Trades
    BY <1>1
  <2> QED
    BY <2>1 DEF Trades
<1>5. ASSUME NEW i \in DOMAIN market', i \notin DOMAIN market
      PROVE  i = Len(market) + 1 /\ market'[i].ts > lastTs /\ market'[i].ts > checkpoint
  <2>1. i = Len(market) + 1
    BY <1>3, <1>5
  <2>2. \A m \in DOMAIN market : market[m].ts < market'[i].ts
    <3>1. TAKE m \in DOMAIN market
    <3>2. m < i /\ m \in DOMAIN market'
      BY <1>3, <2>1
    <3>3. market'[m].ts <= market'[i].ts
      BY <1>1, <3>2 DEF MarketSorted
    <3>4. market'[m].ts # market'[i].ts
      BY <1>3, <2>1, <3>2 DEF DistinctTimes
    <3> QED
      BY <1>1, <1>3, <1>4, <3>2, <3>3, <3>4
  <2>3. InPast(lastTs) /\ InPast(checkpoint)
    BY DEF PositionInv
  <2> QED
    BY <1>3, <1>4, <2>1, <2>2, <2>3 DEF InPast
<1>6. ASSUME NEW S \in SUBSET DOMAIN market
      PROVE  Dollars(S)' = Dollars(S)
  <2> DEFINE old == [i \in DOMAIN market |-> Worth(i)]
             new == [i \in DOMAIN market' |-> Worth(i)']
  <2>1. IsFiniteSet(S)
    <3>1. IsFiniteSet(DOMAIN market)
      BY <1>3, FS_Interval
    <3> QED
      BY <3>1, FS_Subset
  <2>2. \A x \in S : old[x] \in Int /\ new[x] = old[x]
    <3>1. \A x \in DOMAIN market : Worth(x)' = Worth(x) /\ Worth(x) \in Nat
      BY <1>1, MarketGrows, WorthIsNat
    <3> QED
      BY <1>1, <3>1
  <2> HIDE DEF old, new
  <2>3. SumFunctionOnSet(new, S) = SumFunctionOnSet(old, S)
    BY <2>1, <2>2, SumsEqual
  <2> QED
    BY <2>3 DEF old, new, Dollars
<1> QED
  BY <1>1, <1>2, <1>5, <1>6

LEMMA HeldStep ==
  ASSUME TypesInv, TypesInv', BarsInv, PositionInv, HeldInv, [Next]_vars
  PROVE  HeldInv'
<1> SUFFICES ASSUME overrides' = 0, DistinctTimes'
             PROVE  HeldInv'
  BY DEF HeldInv
<1> USE DEF memory, file
<1>1. /\ Len(market) \in Nat /\ DOMAIN market = 1..Len(market)
      /\ \A k \in DOMAIN market : market[k].ts \in Nat
      /\ lastTs \in Nat /\ checkpoint \in Nat /\ overrides \in Nat
  BY TradeFacts, BarsAssumption DEF TypesInv, TypeOK
<1>2. CASE FetchPage
  <2>1. PICK i \in Nat \ {0}, j \in Nat :
           /\ i <= j /\ i..j \subseteq DOMAIN market /\ j \in DOMAIN market
           /\ \A k \in DOMAIN market : k >= i <=> market[k].ts > lastTs
           /\ acc' = Ingested(i, j).acc /\ pending' = Ingested(i, j).bars
           /\ IdsIn(pending') \union IdSet(acc') = IdsIn(pending) \union IdSet(acc) \union i..j
           /\ lastTs' = market[j].ts
           /\ UNCHANGED <<market, final, file, aborts, overrides>>
    BY <1>2, PageRead
  <2>2. pc # "down" /\ ~final /\ overrides = 0 /\ DistinctTimes
    BY <1>2, <2>1 DEF FetchPage, TypesInv, MemoryClean, DistinctTimes
  <2>3. LET r == Ingested(i, j)
        IN  /\ r.acc # Empty => Run(r.acc, j)
            /\ r.bars # <<>> => checkpoint < market[j].ts
            /\ r.bars # <<>> /\ r.acc # Empty =>
                 r.acc.ids[1] > 1 /\ checkpoint < market[r.acc.ids[1] - 1].ts
    BY <2>1, <2>2, PageHeld
  <2>4. /\ acc' # Empty => Run(acc', j)
        /\ pending' # <<>> => checkpoint < market[j].ts
        /\ pending' # <<>> /\ acc' # Empty =>
             acc'.ids[1] > 1 /\ checkpoint < market[acc'.ids[1] - 1].ts
    BY <2>1, <2>3
  <2>5. Run(acc', j) => Run(acc, j)'
    BY <2>1 DEF Run, IdSet, Dollars, Worth
  <2>6. ASSUME NEW m \in DOMAIN market, checkpoint < market[m].ts, market[m].ts <= market[j].ts
        PROVE  m \in IdsIn(pending') \union IdSet(acc')
    <3>1. CASE market[m].ts <= lastTs
      BY <2>1, <2>2, <2>6, <3>1 DEF HeldInv
    <3>2. CASE market[m].ts > lastTs
      <4>1. m >= i /\ ~(j < m)
        <5>1. j < m <=> market[j].ts < market[m].ts
          BY <2>1, <2>2, LaterIsNewer DEF TypesInv, TypeOK
        <5> QED
          BY <1>1, <2>1, <2>6, <3>2, <5>1
      <4>2. m \in i..j
        BY <1>1, <2>1, <4>1
      <4> QED
        BY <2>1, <4>2
    <3> QED
      BY <1>1, <3>1, <3>2
  <2>7. IdsIn(pending)' = IdsIn(pending') /\ IdSet(acc)' = IdSet(acc')
    BY DEF IdsIn, IdSet
  <2>8. market[j].ts <= market[j].ts
    BY <1>1, <2>1
  <2> QED
    BY <2>1, <2>2, <2>4, <2>5, <2>6, <2>7, <2>8 DEF HeldInv, Empty
<1>3. CASE Trade
  <2>1. overrides = 0
    BY <1>3 DEF Trade
  <2>2. /\ DistinctTimes /\ DOMAIN market \subseteq DOMAIN market'
        /\ \A i \in DOMAIN market : market'[i] = market[i]
        /\ \A i \in DOMAIN market' : i \notin DOMAIN market =>
              i = Len(market) + 1 /\ market'[i].ts > lastTs /\ market'[i].ts > checkpoint
        /\ UNCHANGED <<pc, lastTs, acc, pending, final, stored, checkpoint, overrides>>
        /\ \A S \in SUBSET DOMAIN market : Dollars(S)' = Dollars(S)
    BY <1>3, <2>1, TradeIsNew
  <2>3. \A i \in DOMAIN market' : market'[i].ts \in Nat
    <3>1. \A i \in DOMAIN market' : market'[i] \in Trades
      BY DEF TypesInv, TypeOK
    <3> QED
      BY <3>1 DEF Trades
  <2>4. IdsIn(pending)' = IdsIn(pending) /\ IdSet(acc)' = IdSet(acc)
    BY <2>2 DEF IdsIn, IdSet
  <2>5. \A i \in DOMAIN market' : market'[i].ts <= lastTs => i \in DOMAIN market
    BY <1>1, <2>2, <2>3
  <2>6. \A z \in DOMAIN market : Run(acc, z) => Run(acc, z)'
    <3>1. SUFFICES ASSUME NEW z \in DOMAIN market, Run(acc, z)
                   PROVE  Run(acc, z)'
      OBVIOUS
    <3>2. acc.ids[1]..z \in SUBSET DOMAIN market
      BY <1>1, <3>1 DEF Run
    <3>3. Dollars(acc.ids[1]..z)' = Dollars(acc.ids[1]..z)
      BY <2>2, <3>2
    <3> QED
      BY <2>2, <2>4, <3>1, <3>3 DEF Run
  <2>7. acc # Empty /\ pending # <<>> =>
          acc.ids[1] - 1 \in DOMAIN market
    <3>1. ASSUME acc # Empty, pending # <<>>
          PROVE  acc.ids[1] - 1 \in DOMAIN market
      <4>1. PICK z \in DOMAIN market : Run(acc, z)
        BY <2>1, <2>2, <3>1 DEF HeldInv
      <4>2. acc.ids[1] > 1
        BY <2>1, <2>2, <3>1 DEF HeldInv
      <4> QED
        BY <1>1, <4>1, <4>2 DEF Run
    <3> QED
      BY <3>1
  <2> QED
    BY <2>1, <2>2, <2>4, <2>5, <2>6, <2>7 DEF HeldInv, Empty
<1>4. CASE Start
  <2>1. /\ lastTs' = checkpoint /\ pc' = "fetching" /\ overrides = 0
        /\ UNCHANGED <<market, checkpoint, pending, acc, final>>
    BY <1>1, <1>4, Started DEF TypesInv, TypeOK, Start
  <2>2. pending = <<>> /\ acc = Empty
    BY <1>4 DEF Start, TypesInv, MemoryClean
  <2> QED
    BY <1>1, <2>1, <2>2 DEF HeldInv, Empty
<1>5. CASE FetchNothing \/ AppendBars \/ UNCHANGED vars
  <2>1. /\ UNCHANGED <<market, lastTs, checkpoint, pending, acc, final, overrides>>
        /\ pc' # "down" => pc # "down"
    BY <1>5 DEF FetchNothing, AppendBars, vars
  <2>2. DistinctTimes /\ overrides = 0
    BY <2>1 DEF DistinctTimes
  <2>3. IdsIn(pending)' = IdsIn(pending) /\ IdSet(acc)' = IdSet(acc)
        /\ \A z : Run(acc, z)' <=> Run(acc, z)
    BY <2>1 DEF IdsIn, IdSet, Run, Dollars, Worth
  <2> QED
    BY <2>1, <2>2, <2>3 DEF HeldInv, Empty
<1>6. CASE MarkCheckpoint
  <2>1. /\ checkpoint' = lastTs /\ pending' = <<>>
        /\ UNCHANGED <<market, lastTs, acc, final, overrides>>
    BY <1>6 DEF MarkCheckpoint
  <2>2. DistinctTimes /\ overrides = 0
    BY <2>1 DEF DistinctTimes
  <2>3. \A z : Run(acc, z)' <=> Run(acc, z)
    BY <2>1 DEF IdSet, Run, Dollars, Worth
  <2>4. \A i \in DOMAIN market : ~(lastTs < market[i].ts /\ market[i].ts <= lastTs)
    BY <1>1
  <2> QED
    BY <2>1, <2>2, <2>3, <2>4 DEF HeldInv, Empty
<1>7. CASE CloseBar /\ ~Down
  <2>1. /\ acc' = Empty /\ final'
        /\ IdsIn(pending') = IdsIn(pending) \union IdSet(acc)
        /\ UNCHANGED <<market, lastTs, checkpoint, overrides>>
    BY <1>7, BarClosed
  <2>2. pc # "down" /\ DistinctTimes /\ overrides = 0
    BY <1>7, <2>1 DEF CloseBar, DistinctTimes
  <2>3. IdsIn(pending)' = IdsIn(pending')
    BY DEF IdsIn, IdSet
  <2>4. \A i \in DOMAIN market : checkpoint < market[i].ts /\ market[i].ts <= lastTs
                                   => i \in IdsIn(pending)'
    BY <2>1, <2>2, <2>3 DEF HeldInv
  <2> QED
    BY <2>1, <2>4 DEF HeldInv, Empty
<1>8. CASE Down
  BY <1>8 DEF Down, HeldInv, Empty
<1> QED
  BY <1>2, <1>3, <1>4, <1>5, <1>6, <1>7, <1>8 DEF Next, RunStep, MarkFinal, Abort

Lost == Behind \ Covered

\* An interval that a mark leaves behind, in no bar, was lost before or is part of
\* what the accumulator holds.
LEMMA MarkLoses ==
  ASSUME TypesInv, BarsInv, PositionInv, HeldInv, FlushInv, overrides = 0, DistinctTimes,
         pc = "marking", NEW i \in DOMAIN market, NEW j \in DOMAIN market, i <= j,
         \A m \in i..j : m \in DOMAIN market /\ market[m].ts <= lastTs /\ m \notin Covered
  PROVE  i..j \subseteq Lost \/ Dollars(i..j) < Threshold
<1> USE DEF TypesInv, TypeOK
<1>1. /\ Len(market) \in Nat /\ DOMAIN market = 1..Len(market)
      /\ \A k \in DOMAIN market : market[k].ts \in Nat
      /\ lastTs \in Nat /\ checkpoint \in Nat
  BY TradeFacts
<1>2. IdsIn(pending) \subseteq Covered /\ pending # <<>>
  BY DEF PositionInv, FlushInv
<1>3. \A m \in DOMAIN market :
         checkpoint < market[m].ts /\ market[m].ts <= lastTs /\ m \notin Covered => m \in IdSet(acc)
  BY <1>2 DEF HeldInv
<1>4. CASE \A m \in i..j : m \notin IdSet(acc)
  <2>1. \A m \in i..j : ~(checkpoint < market[m].ts)
    BY <1>3, <1>4
  <2>2. \A m \in i..j : market[m].ts <= checkpoint
    BY <1>1, <2>1
  <2> QED
    BY <2>2 DEF Lost, Behind
<1>5. CASE \E m \in i..j : m \in IdSet(acc)
  <2>1. PICK x \in i..j : x \in IdSet(acc)
    BY <1>5
  <2>2. acc # Empty
    BY <2>1, NoIds
  <2>3. PICK z \in DOMAIN market : market[z].ts = lastTs /\ Run(acc, z)
    BY <2>2 DEF HeldInv
  <2> DEFINE a == acc.ids[1]
  <2>4. a > 1 /\ checkpoint < market[a - 1].ts
    BY <1>2, <2>2 DEF HeldInv
  <2>5. a \in 1..z /\ IdSet(acc) = a..z /\ acc.dollars = Dollars(a..z)
    BY <2>3 DEF Run
  <2> HIDE DEF a
  <2>6. a - 1 \in DOMAIN market /\ a \in DOMAIN market /\ a - 1 <= z /\ a - 1 \notin IdSet(acc)
    BY <1>1, <2>4, <2>5
  <2>7. market[a - 1].ts <= lastTs
    BY <2>3, <2>6 DEF MarketSorted
  <2>8. a - 1 \in Covered
    BY <1>3, <2>4, <2>6, <2>7
  <2>9. i >= a
    <3>1. a - 1 \notin i..j
      BY <2>8
    <3> QED
      BY <1>1, <2>1, <2>5, <2>6, <3>1
  <2>10. j <= z
    <3>1. j \in i..j
      BY <1>1
    <3>2. market[j].ts <= lastTs
      BY <3>1
    <3>3. z < j <=> market[z].ts < market[j].ts
      BY LaterIsNewer
    <3> QED
      BY <1>1, <2>3, <3>2, <3>3
  <2>11. i..j \in SUBSET (a..z) /\ a..z \in SUBSET DOMAIN market
    BY <1>1, <2>5, <2>9, <2>10
  <2>12. Dollars(i..j) <= Dollars(a..z) /\ Dollars(i..j) \in Nat /\ Dollars(a..z) \in Nat
    BY <2>11, DollarsGrow
  <2>13. acc.dollars < Threshold
    BY DEF BarsInv
  <2> QED
    BY <2>5, <2>12, <2>13, BarsAssumption
<1> QED
  BY <1>4, <1>5

LEMMA LossStep ==
  ASSUME TypesInv, TypesInv', BarsInv, PositionInv, HeldInv, FlushInv, LossIsBelowOneBar,
         [Next]_vars
  PROVE  LossIsBelowOneBar'
<1> SUFFICES ASSUME overrides' = 0, DistinctTimes',
                    NEW i \in Lost', NEW j \in Lost', i <= j, i..j \subseteq Lost'
             PROVE  Dollars(i..j)' < Threshold
  BY DEF LossIsBelowOneBar, Lost
<1> USE DEF memory, file
<1>1. /\ Len(market) \in Nat /\ DOMAIN market = 1..Len(market)
      /\ \A k \in DOMAIN market : market[k].ts \in Nat
      /\ lastTs \in Nat /\ checkpoint \in Nat /\ overrides \in Nat
  BY TradeFacts, BarsAssumption DEF TypesInv, TypeOK
<1>2. ASSUME overrides = 0, DistinctTimes, i..j \subseteq Lost
      PROVE  Dollars(i..j) < Threshold
  <2>1. i \in i..j /\ j \in i..j
    <3>1. i \in Int /\ j \in Int
      BY DEF Lost, Behind, TypesInv, TypeOK
    <3> QED
      BY <3>1
  <2> QED
    BY <1>2, <2>1 DEF LossIsBelowOneBar, Lost
<1>3. CASE Trade
  <2>1. overrides = 0
    BY <1>3 DEF Trade
  <2>2. /\ DistinctTimes /\ DOMAIN market \subseteq DOMAIN market'
        /\ \A k \in DOMAIN market : market'[k] = market[k]
        /\ \A k \in DOMAIN market' : k \notin DOMAIN market =>
              k = Len(market) + 1 /\ market'[k].ts > lastTs /\ market'[k].ts > checkpoint
        /\ UNCHANGED <<pc, lastTs, acc, pending, final, stored, checkpoint, overrides>>
        /\ \A S \in SUBSET DOMAIN market : Dollars(S)' = Dollars(S)
    BY <1>3, <2>1, TradeIsNew
  <2>3. \A k \in DOMAIN market' : market'[k].ts \in Nat
    <3>1. \A k \in DOMAIN market' : market'[k] \in Trades
      BY DEF TypesInv, TypeOK
    <3> QED
      BY <3>1 DEF Trades
  <2>4. Lost' = Lost
    <3>1. Behind' = Behind
      BY <1>1, <2>2, <2>3 DEF Behind
    <3>2. Covered' = Covered
      BY <2>2 DEF Covered
    <3> QED
      BY <3>1, <3>2 DEF Lost
  <2>5. i..j \in SUBSET DOMAIN market
    BY <2>4 DEF Lost, Behind
  <2>6. Dollars(i..j)' = Dollars(i..j)
    BY <2>2, <2>5
  <2> QED
    BY <1>2, <2>1, <2>2, <2>4, <2>6
<1>4. CASE UNCHANGED market
  <2>1. DistinctTimes
    BY <1>4 DEF DistinctTimes
  <2>2. Dollars(i..j)' = Dollars(i..j)
    BY <1>4 DEF Dollars, Worth
  <2>3. CASE overrides = 0 /\ Lost' \subseteq Lost
    BY <1>2, <2>1, <2>2, <2>3
  <2>4. CASE UNCHANGED <<stored, checkpoint>>
    <3>1. overrides = 0
      <4>1. CASE Start
        BY <4>1, Started DEF TypesInv, TypeOK
      <4>2. CASE ~Start
        BY <4>2 DEF Next, RunStep, FetchNothing, FetchPage, AppendBars,
             MarkCheckpoint, CloseBar, MarkFinal, Abort, Trade, vars
      <4> QED
        BY <4>1, <4>2
    <3>2. Lost' = Lost
      BY <1>4, <2>4 DEF Lost, Behind, Covered
    <3> QED
      BY <2>3, <3>1, <3>2
  <2>5. CASE AppendBars
    <3>1. stored' = stored \o pending /\ UNCHANGED <<checkpoint, overrides>>
      BY <2>5 DEF AppendBars
    <3>2. Covered \subseteq Covered'
      BY <3>1, CoveredIds, IdsOfJoined DEF TypesInv, TypeOK
    <3>3. Lost' \subseteq Lost
      BY <1>4, <3>1, <3>2 DEF Lost, Behind
    <3> QED
      BY <2>3, <3>1, <3>3
  <2>6. CASE MarkCheckpoint \/ MarkFinal
    <3>1. checkpoint' = lastTs /\ pc = "marking" /\ UNCHANGED <<stored, overrides>>
      BY <2>6 DEF MarkCheckpoint, MarkFinal
    <3>2. \A m \in i..j : m \in DOMAIN market /\ market[m].ts <= lastTs /\ m \notin Covered
      <4>1. Covered' = Covered
        BY <3>1 DEF Covered
      <4> QED
        BY <1>4, <3>1, <4>1 DEF Lost, Behind
    <3>3. i \in DOMAIN market /\ j \in DOMAIN market
      BY <1>4 DEF Lost, Behind
    <3>4. i..j \subseteq Lost \/ Dollars(i..j) < Threshold
      BY <2>1, <3>1, <3>2, <3>3, MarkLoses
    <3> QED
      BY <1>2, <2>1, <2>2, <3>1, <3>4
  <2> QED
    BY <2>4, <2>5, <2>6 DEF Next, RunStep, Start, FetchNothing, FetchPage, CloseBar, Abort,
       Trade, Down, vars
<1> QED
  BY <1>3, <1>4 DEF Next, RunStep, Start, FetchNothing, FetchPage, AppendBars, MarkCheckpoint,
     CloseBar, MarkFinal, Abort, vars

\* However often runs are interrupted, no stretch of trades that lie behind the
\* checkpoint and in no bar is worth as much as one bar (bars.py:399, 403).
THEOREM LossStaysBelowOneBar == Spec => []LossIsBelowOneBar
<1> DEFINE Inv == TypesInv /\ BarsInv /\ PositionInv /\ HeldInv /\ FlushInv /\ LossIsBelowOneBar
<1>1. Init => Inv
  <2>1. Init => HeldInv /\ FlushInv /\ LossIsBelowOneBar
    BY DEF Init, HeldInv, FlushInv, LossIsBelowOneBar, Behind
  <2> QED
    BY <2>1, TypesInit, BarsInit, PositionInit
<1>2. Inv /\ [Next]_vars => Inv'
  BY TypesStep, BarsStep, PositionStep, HeldStep, FlushStep, LossStep
<1>3. Inv => LossIsBelowOneBar
  OBVIOUS
<1> QED
  BY <1>1, <1>2, <1>3, PTL DEF Spec

-----------------------------------------------------------------------------
(* Runs that are not disturbed.                                            *)

Upto(m) == [i \in 1..m |-> i]
InBars == IdsOf(stored) \o (IF pc = "marking" THEN <<>> ELSE IdsOf(pending)) \o acc.ids

CompleteInv ==
  Undisturbed /\ DistinctTimes =>
    \E m \in 0..Len(market) :
      InBars = Upto(m) /\ \A i \in DOMAIN market : i <= m <=> market[i].ts <= Reach

\* u[k] has the trades of the first k bars.
Lists(u, n, bars) ==
  /\ u[0] = <<>> /\ \A k \in 0..n : u[k] \in Seq(Nat \ {0})
  /\ \A k \in 1..n : u[k] = u[k - 1] \o bars[k].ids

LEMMA IdsAreList ==
  ASSUME NEW bars \in Seq(Bars), NEW k \in 1..Len(bars)
  PROVE  bars[k].ids \in Seq(Nat \ {0})
<1>1. bars[k] \in Bars
  OBVIOUS
<1> QED
  BY <1>1 DEF Bars

LEMMA ListExists ==
  ASSUME NEW bars \in Seq(Bars)
  PROVE  \E u : Lists(u, Len(bars), bars) /\ IdsOf(bars) = u[Len(bars)]
<1> DEFINE n == Len(bars)
           V == Seq(Nat \ {0})
           none == <<>>
           Step == [k \in 1..n |-> [v \in V |-> v \o bars[k].ids]]
           body(f) == [k \in 0..n |-> IF k = 0 THEN none ELSE f[k - 1] \o bars[k].ids]
           upTo == CHOOSE f : f = body(f)
<1>1. n \in Nat /\ none \in V /\ 1 \in Nat \ {0} /\ 1 <= n + 1
  OBVIOUS
<1>2. \A k \in 1..n : \A v \in V : v \o bars[k].ids \in V
  BY IdsAreList
<1>3. Step \in StepsFrom(1, n, V)
  BY <1>2 DEF StepsFrom
<1>4. \A k \in 1..n : \A v \in V : Step[k][v] = v \o bars[k].ids
  OBVIOUS
<1>5. IdsOf(bars) = upTo[n]
  BY DEF IdsOf
<1>6. PICK h : Follows(h, 1, n, V, none, Step)
  <2> HIDE DEF V, none, Step, n
  <2> QED
    BY <1>1, <1>3, RecursionFrom
<1> HIDE DEF Step, n, V, none
<1>7. /\ h \in [0..n -> V] /\ h[0] = none
      /\ \A k \in 1..n : h[k] = Step[k][h[k - 1]]
  BY <1>6 DEF Follows
<1>8. \A k \in 1..n : k - 1 \in 0..n /\ k # 0 /\ k \in 0..n
  BY <1>1
<1>9. \A k \in 1..n : h[k] = h[k - 1] \o bars[k].ids
  BY <1>4, <1>7, <1>8
<1>10. \A k \in 0..n : k = 0 \/ k \in 1..n
  BY <1>1
<1>11. h = body(h)
  <2>1. \A k \in 0..n : h[k] = IF k = 0 THEN none ELSE h[k - 1] \o bars[k].ids
    BY <1>7, <1>8, <1>9, <1>10
  <2> QED
    BY <1>7, <2>1
<1>12. upTo = body(upTo)
  BY <1>11, Zenon
<1> HIDE DEF upTo
<1>13. 0 \in 0..n /\ upTo[0] = none
  BY <1>1, <1>12
<1>14. \A k \in 1..n : upTo[k] = upTo[k - 1] \o bars[k].ids
  BY <1>8, <1>12
<1> DEFINE G == {k \in 0..n : upTo[k] \in V}
<1>15. 0 \in G
  BY <1>1, <1>13
<1>16. ASSUME NEW k \in 1..n, k - 1 \in G
       PROVE  k \in G
  BY <1>2, <1>8, <1>14, <1>16
<1> HIDE DEF G
<1>17. \A k \in 0..n : k \in G
  BY <1>1, <1>15, <1>16, Induction
<1> QED
  BY <1>5, <1>13, <1>14, <1>17 DEF G, n, V, none, Lists

\* Two lists that start with the same bars start with the same trades.
LEMMA SamePrefix ==
  ASSUME NEW n \in Nat, NEW p, NEW q, NEW u, NEW w, Lists(u, n, p), Lists(w, n, q),
         \A k \in 1..n : p[k] = q[k]
  PROVE  u[n] = w[n]
<1> DEFINE G == {k \in 0..n : u[k] = w[k]}
<1>1. 0 \in G
  BY DEF Lists
<1>2. ASSUME NEW k \in 1..n, k - 1 \in G
      PROVE  k \in G
  <2>1. k \in 0..n /\ u[k - 1] = w[k - 1]
    BY <1>2
  <2> QED
    BY <2>1 DEF Lists
<1> HIDE DEF G
<1>3. n \in G
  <2>1. \A k \in 0..n : k \in G
    BY <1>1, <1>2, Induction
  <2> QED
    BY <2>1
<1> QED
  BY <1>3 DEF G

LEMMA ListPrefix ==
  ASSUME NEW n \in Nat, NEW bars, NEW u, Lists(u, n + 1, bars)
  PROVE  Lists(u, n, bars) /\ u[n + 1] = u[n] \o bars[n + 1].ids /\ u[n] \in Seq(Nat \ {0})
<1>1. /\ \A k \in 0..n : k \in 0..n + 1
      /\ \A k \in 1..n : k \in 1..n + 1
      /\ n + 1 \in 1..n + 1 /\ n + 1 - 1 = n /\ n \in 0..n
  OBVIOUS
<1>2. u[n + 1] = u[n] \o bars[n + 1].ids
  <2>1. \A k \in 1..n + 1 : u[k] = u[k - 1] \o bars[k].ids
    BY DEF Lists
  <2>2. PICK m : m = n + 1
    OBVIOUS
  <2>3. m \in 1..n + 1 /\ m - 1 = n
    BY <2>2
  <2>4. u[m] = u[m - 1] \o bars[m].ids
    BY <2>1, <2>3
  <2> QED
    BY <2>2, <2>3, <2>4, Zenon
<1> QED
  BY <1>1, <1>2 DEF Lists

LEMMA IdsOfAppend ==
  ASSUME NEW bars \in Seq(Bars), NEW b \in Bars
  PROVE  IdsOf(Append(bars, b)) = IdsOf(bars) \o b.ids /\ IdsOf(bars) \in Seq(Nat \ {0})
<1> DEFINE all == Append(bars, b)
           n == Len(bars)
<1>1. /\ all \in Seq(Bars) /\ n \in Nat /\ Len(all) = n + 1 /\ all[n + 1] = b
      /\ \A k \in 1..n : all[k] = bars[k]
  OBVIOUS
<1>2. PICK u : Lists(u, n, bars) /\ IdsOf(bars) = u[n]
  BY ListExists
<1> HIDE DEF all
<1>3. PICK w : Lists(w, n + 1, all) /\ IdsOf(all) = w[n + 1]
  BY <1>1, ListExists, Zenon
<1> HIDE DEF n
<1>4. Lists(w, n, all) /\ w[n + 1] = w[n] \o b.ids /\ w[n] \in Seq(Nat \ {0})
  BY <1>1, <1>3, ListPrefix
<1>5. w[n] = u[n]
  BY <1>1, <1>2, <1>4, SamePrefix
<1>6. IdsOf(all) = IdsOf(bars) \o b.ids /\ IdsOf(bars) \in Seq(Nat \ {0})
  BY <1>2, <1>3, <1>4, <1>5, Zenon
<1> QED
  BY <1>6 DEF all

LEMMA IdsOfNone == IdsOf(<<>>) = <<>>
<1> DEFINE none == <<>>
<1>1. none \in Seq(Bars) /\ Len(none) = 0
  OBVIOUS
<1> HIDE DEF none
<1>2. PICK u : Lists(u, Len(none), none) /\ IdsOf(none) = u[Len(none)]
  BY <1>1, ListExists
<1>3. IdsOf(none) = u[0] /\ u[0] = <<>>
  BY <1>1, <1>2 DEF Lists
<1> QED
  BY <1>3 DEF none

Ids == Seq(Nat \ {0})

LEMMA JoinAssociates == \A x, y, z \in Ids : (x \o y) \o z = x \o (y \o z)
BY ConcatAssociative DEF Ids

\* The trades of one list of bars and another are those of the two together.
LEMMA IdsOfConcat ==
  ASSUME NEW s \in Seq(Bars), NEW t \in Seq(Bars)
  PROVE  IdsOf(s \o t) = IdsOf(s) \o IdsOf(t)
<1> DEFINE n == Len(t)
           first(k) == SubSeq(t, 1, k)
           G == {k \in 0..n : IdsOf(s \o first(k)) = IdsOf(s) \o IdsOf(first(k))}
<1>1. /\ n \in Nat /\ \A k \in 1..n : t[k] \in Bars
      /\ \A k \in 0..n : first(k) \in Seq(Bars)
      /\ first(0) = <<>> /\ first(n) = t
  OBVIOUS
<1>2. \A r \in Seq(Bars) : IdsOf(r) \in Seq(Nat \ {0})
  BY IdsOfAppend, EmptyIsBar
<1>3. IdsOf(s \o first(0)) = IdsOf(s) \o IdsOf(first(0))
  <2>1. s \o <<>> = s
    OBVIOUS
  <2>2. IdsOf(s) \o <<>> = IdsOf(s)
    BY <1>2
  <2> QED
    BY <1>1, <2>1, <2>2, IdsOfNone, Zenon
<1>4. ASSUME NEW k \in 1..n, IdsOf(s \o first(k - 1)) = IdsOf(s) \o IdsOf(first(k - 1))
      PROVE  IdsOf(s \o first(k)) = IdsOf(s) \o IdsOf(first(k))
  <2> DEFINE r == first(k - 1)
             b == t[k]
  <2>1. first(k) = Append(r, b) /\ r \in Seq(Bars) /\ b \in Bars
    BY <1>1
  <2>2. IdsOf(s \o r) = IdsOf(s) \o IdsOf(r)
    BY <1>4
  <2> HIDE DEF r, first, b
  <2>3. s \o Append(r, b) = Append(s \o r, b) /\ s \o r \in Seq(Bars)
    BY <2>1
  <2>4. IdsOf(Append(s \o r, b)) = IdsOf(s \o r) \o b.ids
    BY <2>1, <2>3, IdsOfAppend
  <2>5. IdsOf(Append(r, b)) = IdsOf(r) \o b.ids
    BY <2>1, IdsOfAppend
  <2>6. IdsOf(s) \in Seq(Nat \ {0}) /\ IdsOf(r) \in Seq(Nat \ {0}) /\ b.ids \in Seq(Nat \ {0})
    BY <1>2, <2>1 DEF Bars
  <2>7. (IdsOf(s) \o IdsOf(r)) \o b.ids = IdsOf(s) \o (IdsOf(r) \o b.ids)
    <3>1. IdsOf(s) \in Ids /\ IdsOf(r) \in Ids /\ b.ids \in Ids
      BY <2>6 DEF Ids
    <3> QED
      BY <3>1, JoinAssociates, Zenon
  <2> QED
    BY <2>1, <2>2, <2>3, <2>4, <2>5, <2>7, Zenon
<1>5. 0 \in G /\ \A k \in 1..n : k - 1 \in G => k \in G
  <2>1. 0 \in G
    BY <1>1, <1>3
  <2>2. ASSUME NEW k \in 1..n, k - 1 \in G
        PROVE  k \in G
    <3>1. IdsOf(s \o first(k - 1)) = IdsOf(s) \o IdsOf(first(k - 1))
      BY <2>2
    <3>2. IdsOf(s \o first(k)) = IdsOf(s) \o IdsOf(first(k))
      BY <1>4, <3>1, Zenon
    <3>3. k \in 0..n
      BY <1>1
    <3> QED
      BY <3>2, <3>3
  <2> QED
    BY <2>1, <2>2
<1> HIDE DEF G, n
<1>6. n \in G
  <2>1. \A k \in 0..n : k \in G
    BY <1>1, <1>5, Induction
  <2> QED
    BY <1>1, <2>1
<1>7. IdsOf(s \o first(n)) = IdsOf(s) \o IdsOf(first(n))
  BY <1>6 DEF G
<1> QED
  BY <1>1, <1>7, Zenon

LEMMA UptoGrows ==
  ASSUME NEW m \in Nat
  PROVE  /\ Upto(m) \in Ids /\ Len(Upto(m)) = m
         /\ Append(Upto(m), m + 1) = Upto(m + 1)
BY DEF Upto, Ids

LEMMA JoinType ==
  /\ <<>> \in Ids
  /\ \A x \in Ids : x \o <<>> = x
  /\ \A x, y \in Ids : x \o y \in Ids
BY DEF Ids

LEMMA JoinOne ==
  \A x, z \in Ids : \A k \in Nat \ {0} : x \o Append(z, k) = Append(x \o z, k)
BY DEF Ids

LEMMA BarIds ==
  /\ \A bars \in Seq(Bars) : IdsOf(bars) \in Ids
  /\ \A b \in Bars : b.ids \in Ids
<1>1. \A bars \in Seq(Bars) : IdsOf(bars) \in Ids
  <2>1. \A bars \in Seq(Bars) : \A b \in Bars : IdsOf(bars) \in Seq(Nat \ {0})
    BY IdsOfAppend
  <2> QED
    BY <2>1, EmptyIsBar DEF Ids
<1>2. \A b \in Bars : b.ids \in Ids
  BY DEF Bars, Ids
<1> QED
  BY <1>1, <1>2

\* A trade that is ingested follows those that were.
LEMMA IngestExtends ==
  ASSUME market \in Seq(Trades), NEW k \in DOMAIN market, NEW s \in States, NEW pre \in Ids,
         (pre \o IdsOf(s.bars)) \o s.acc.ids = Upto(k - 1)
  PROVE  (pre \o IdsOf(Ingest(k, s).bars)) \o Ingest(k, s).acc.ids = Upto(k)
<1> DEFINE b == Add(s.acc, k)
           x == pre \o IdsOf(s.bars)
<1>1. s.acc \in Bars /\ s.bars \in Seq(Bars) /\ k \in Nat \ {0} /\ k - 1 \in Nat
  BY DEF States
<1>2. b \in Bars /\ b.ids = Append(s.acc.ids, k)
  BY <1>1, AddedIsBar
<1>3. s.acc.ids \in Ids /\ b.ids \in Ids /\ IdsOf(s.bars) \in Ids /\ <<>> \in Ids
  BY <1>1, <1>2, BarIds, JoinType
<1> HIDE DEF b
<1>4. x \in Ids /\ x \o b.ids = Append(x \o s.acc.ids, k)
  <2>1. x \in Ids
    BY <1>3, JoinType
  <2> HIDE DEF x
  <2>2. \A z \in Ids : \A n \in Nat \ {0} : x \o Append(z, n) = Append(x \o z, n)
    BY <2>1, JoinOne
  <2> QED
    BY <1>1, <1>2, <1>3, <2>1, <2>2, Zenon
<1>5. x \o b.ids = Upto(k)
  <2>1. k - 1 + 1 = k
    BY <1>1
  <2>2. Append(Upto(k - 1), k - 1 + 1) = Upto(k - 1 + 1)
    BY <1>1, UptoGrows
  <2>3. x \o s.acc.ids = Upto(k - 1)
    OBVIOUS
  <2> QED
    BY <1>4, <2>1, <2>2, <2>3, Zenon
<1>6. CASE Crosses(b)
  <2>1. Ingest(k, s).acc.ids = <<>> /\ Ingest(k, s).bars = Append(s.bars, b)
    BY <1>6 DEF Ingest, b, Reset, Collect, Empty
  <2>2. IdsOf(Append(s.bars, b)) = IdsOf(s.bars) \o b.ids
    BY <1>1, <1>2, IdsOfAppend
  <2>3. (pre \o (IdsOf(s.bars) \o b.ids)) \o <<>> = x \o b.ids
    <3>1. pre \o (IdsOf(s.bars) \o b.ids) = x \o b.ids
      BY <1>3, JoinAssociates
    <3>2. x \o b.ids \in Ids
      BY <1>3, <1>4, JoinType
    <3>3. (x \o b.ids) \o <<>> = x \o b.ids
      BY <3>2, JoinType
    <3> QED
      BY <3>1, <3>3, Zenon
  <2> QED
    BY <1>5, <2>1, <2>2, <2>3, Zenon
<1>7. CASE ~Crosses(b)
  <2>1. Ingest(k, s).acc.ids = b.ids /\ Ingest(k, s).bars = s.bars
    BY <1>7 DEF Ingest, b
  <2> QED
    BY <1>5, <2>1, Zenon
<1> QED
  BY <1>6, <1>7

\* A page that starts behind all that was ingested continues the list.
LEMMA PageExtends ==
  ASSUME market \in Seq(Trades), acc \in Bars, pending \in Seq(Bars), NEW pre \in Ids,
         NEW i \in Nat \ {0}, NEW j \in Nat, i <= j, i..j \subseteq DOMAIN market,
         (pre \o IdsOf(pending)) \o acc.ids = Upto(i - 1)
  PROVE  (pre \o IdsOf(Ingested(i, j).bars)) \o Ingested(i, j).acc.ids = Upto(j)
<1> DEFINE G == [k \in Nat |->
                   {s \in States : (pre \o IdsOf(s.bars)) \o s.acc.ids = Upto(k)}]
           s0 == [acc |-> acc, bars |-> pending]
<1>1. i - 1 \in Nat /\ j \in Nat /\ \A k \in i..j : k \in DOMAIN market /\ k \in Nat /\ k - 1 \in Nat
  OBVIOUS
<1>2. s0 \in G[i - 1]
  <2>1. s0 \in States /\ s0.acc = acc /\ s0.bars = pending
    BY DEF States
  <2> HIDE DEF s0
  <2>2. (pre \o IdsOf(s0.bars)) \o s0.acc.ids = Upto(i - 1)
    BY <2>1, Zenon
  <2> QED
    BY <1>1, <2>1, <2>2
<1>3. ASSUME NEW k \in i..j, NEW s \in States, s \in G[k - 1]
      PROVE  Ingest(k, s) \in G[k]
  <2>1. (pre \o IdsOf(s.bars)) \o s.acc.ids = Upto(k - 1)
    BY <1>1, <1>3
  <2>2. Ingest(k, s) \in States
    BY <1>1, IngestType
  <2>3. (pre \o IdsOf(Ingest(k, s).bars)) \o Ingest(k, s).acc.ids = Upto(k)
    BY <1>1, <2>1, IngestExtends
  <2> QED
    BY <1>1, <2>2, <2>3
<1> HIDE DEF G
<1>4. Ingested(i, j) \in G[j]
  BY <1>2, <1>3, IngestedKeeps
<1> QED
  BY <1>1, <1>4 DEF G

\* The lists InBars is made of.
LEMMA BarLists ==
  ASSUME TypesInv
  PROVE  /\ IdsOf(stored) \in Ids /\ IdsOf(pending) \in Ids /\ acc.ids \in Ids
         /\ IdsOf(stored) \o <<>> = IdsOf(stored)
         /\ (IdsOf(stored) \o IdsOf(pending)) \in Ids
         /\ (IdsOf(stored) \o IdsOf(pending)) \o <<>> = IdsOf(stored) \o IdsOf(pending)
         /\ IdsOf(stored) \o (IdsOf(pending) \o acc.ids)
              = (IdsOf(stored) \o IdsOf(pending)) \o acc.ids
<1>1. IdsOf(stored) \in Ids /\ IdsOf(pending) \in Ids /\ acc.ids \in Ids
  BY BarIds DEF TypesInv, TypeOK
<1>2. IdsOf(stored) \o IdsOf(pending) \in Ids
  BY <1>1, JoinType
<1>3. (IdsOf(stored) \o IdsOf(pending)) \o acc.ids = IdsOf(stored) \o (IdsOf(pending) \o acc.ids)
  BY <1>1, JoinAssociates
<1> QED
  BY <1>1, <1>2, <1>3, JoinType

\* Outside FetchPage and Trade no trade enters a bar, leaves one or changes places.
LEMMA BarsKeepOrder ==
  ASSUME TypesInv, BarsInv, PositionInv, [Next]_vars, ~FetchPage, ~Trade, Undisturbed'
  PROVE  InBars' = InBars /\ Reach' = Reach
<1> USE DEF memory, file
<1> DEFINE s == IdsOf(stored)
           p == IdsOf(pending)
<1>1. /\ s \o <<>> = s /\ (s \o p) \o <<>> = s \o p /\ s \o (p \o acc.ids) = (s \o p) \o acc.ids
  BY BarLists
<1>2. Undisturbed /\ UNCHANGED market /\ (pc' = "down" \/ Reach' = Reach)
  BY NothingDropped
<1>3. InBars = (s \o (IF pc = "marking" THEN <<>> ELSE p)) \o acc.ids
  BY DEF InBars
<1>4. InBars' = (IdsOf(stored') \o (IF pc' = "marking" THEN <<>> ELSE IdsOf(pending'))) \o acc'.ids
  BY DEF InBars, IdsOf
<1>5. CASE Start
  <2>1. /\ pc = "down" /\ pc' = "fetching" /\ UNCHANGED <<stored, pending, acc>>
    BY <1>5 DEF Start
  <2> QED
    BY <1>2, <1>3, <1>4, <2>1
<1>6. CASE FetchNothing
  <2>1. /\ pc = "fetching" /\ pc' = "closing" /\ UNCHANGED <<stored, pending, acc>>
    BY <1>6 DEF FetchNothing
  <2> QED
    BY <1>2, <1>3, <1>4, <2>1
<1>7. CASE AppendBars
  <2>1. /\ stored' = stored \o pending /\ pc' = "marking" /\ pc = "appending"
        /\ UNCHANGED <<acc, pending>>
    BY <1>7 DEF AppendBars
  <2>2. IdsOf(stored') = s \o p
    BY <2>1, IdsOfConcat DEF TypesInv, TypeOK
  <2>3. InBars' = ((s \o p) \o <<>>) \o acc.ids
    BY <1>4, <2>1, <2>2
  <2>4. InBars' = InBars
    BY <1>1, <1>3, <2>1, <2>3
  <2> QED
    BY <1>2, <2>1, <2>4
<1>8. CASE MarkCheckpoint
  <2>1. /\ pending' = <<>> /\ pc = "marking" /\ pc' \in {"closing", "fetching"}
        /\ UNCHANGED <<acc, stored>>
    BY <1>8 DEF MarkCheckpoint, TurnPage
  <2>2. InBars' = (s \o <<>>) \o acc.ids
    BY <1>4, <2>1, IdsOfNone
  <2> QED
    BY <1>2, <1>3, <2>1, <2>2
<1>9. CASE CloseBar
  <2>1. pc = "closing"
    BY <1>9 DEF CloseBar
  <2>2. CASE Down
    <3>1. /\ pending = <<>> /\ acc = Empty /\ UNCHANGED <<stored, checkpoint, overrides>>
      BY <1>9, <2>2, NothingToClose
    <3>2. pc' = "down" /\ pending' = <<>> /\ acc' = Empty
      BY <2>2 DEF Down
    <3>3. Reach = lastTs /\ Reach' = checkpoint' /\ checkpoint = lastTs
      BY <1>2, <2>1, <3>1, <3>2 DEF Reach, PositionInv, Undisturbed
    <3> QED
      BY <1>3, <1>4, <2>1, <3>1, <3>2, <3>3
  <2>3. CASE ~Down
    <3>1. /\ pc' = "appending" /\ acc' = Empty /\ UNCHANGED stored
          /\ pending' = (IF acc = Empty THEN pending ELSE Append(pending, acc))
      BY <1>9, <2>3, BarClosed
    <3>2. IdsOf(Append(pending, acc)) = p \o acc.ids
      BY IdsOfAppend DEF TypesInv, TypeOK
    <3>3. Empty.ids = <<>>
      BY DEF Empty
    <3>4. InBars' = (s \o IdsOf(pending')) \o <<>>
      BY <1>4, <3>1, <3>3
    <3>5. CASE acc = Empty
      BY <1>2, <1>3, <2>1, <3>1, <3>3, <3>4, <3>5
    <3>6. CASE acc # Empty
      <4>1. IdsOf(pending') = p \o acc.ids
        BY <3>1, <3>2, <3>6
      <4>2. InBars = s \o (p \o acc.ids) /\ InBars' = (s \o (p \o acc.ids)) \o <<>>
        BY <1>1, <1>3, <2>1, <3>4, <4>1
      <4>3. s \o (p \o acc.ids) \in Ids
        BY BarLists, JoinType
      <4>4. (s \o (p \o acc.ids)) \o <<>> = s \o (p \o acc.ids)
        BY <4>3, JoinType
      <4> QED
        BY <1>2, <3>1, <4>2, <4>4
    <3> QED
      BY <3>5, <3>6
  <2> QED
    BY <2>2, <2>3
<1>10. CASE MarkFinal
  <2>1. /\ checkpoint' = lastTs /\ pc = "marking" /\ final /\ Down /\ UNCHANGED stored
    BY <1>10 DEF MarkFinal
  <2>2. acc = Empty /\ acc' = Empty /\ pending' = <<>> /\ pc' = "down"
    BY <2>1 DEF TypesInv, MemoryClean, Down
  <2>3. InBars' = (s \o <<>>) \o acc.ids
    BY <1>4, <2>1, <2>2, IdsOfNone
  <2>4. Reach' = Reach
    BY <2>1, <2>2 DEF Reach
  <2> QED
    BY <1>3, <2>1, <2>3, <2>4
<1>11. CASE Abort
  <2>1. aborts' = aborts + 1 /\ aborts \in Nat
    BY <1>11, BarsAssumption DEF Abort, TypesInv, TypeOK
  <2> QED
    BY <2>1 DEF Undisturbed
<1>12. CASE UNCHANGED vars
  <2>1. UNCHANGED <<pc, lastTs, acc, pending, stored, checkpoint>>
    BY <1>12 DEF vars
  <2> QED
    BY <1>3, <1>4, <2>1 DEF Reach
<1> QED
  BY <1>5, <1>6, <1>7, <1>8, <1>9, <1>10, <1>11, <1>12 DEF Next, RunStep

LEMMA CompleteStep ==
  ASSUME TypesInv, BarsInv, PositionInv, CompleteInv, [Next]_vars
  PROVE  CompleteInv'
<1> SUFFICES ASSUME Undisturbed', DistinctTimes'
             PROVE  (\E m \in 0..Len(market) :
                      InBars = Upto(m) /\ \A i \in DOMAIN market : i <= m <=> market[i].ts <= Reach)'
  BY DEF CompleteInv
<1> USE DEF memory, file
<1>0. /\ market \in Seq(Trades) /\ Len(market) \in Nat /\ DOMAIN market = 1..Len(market)
      /\ \A i \in DOMAIN market : market[i].ts \in Nat
  BY TradeFacts DEF TypesInv, TypeOK
<1>1. CASE FetchPage
  <2>1. PICK i \in Nat \ {0}, j \in Nat :
           /\ i <= j /\ i..j \subseteq DOMAIN market /\ j \in DOMAIN market
           /\ \A k \in DOMAIN market : k >= i <=> market[k].ts > lastTs
           /\ acc' = Ingested(i, j).acc /\ pending' = Ingested(i, j).bars
           /\ lastTs' = market[j].ts
           /\ UNCHANGED <<market, stored, aborts, overrides>>
           /\ pc' \in {"appending", "closing", "fetching"}
    BY <1>1, PageRead
  <2>2. Undisturbed /\ DistinctTimes /\ pc = "fetching"
    BY <1>1, <2>1 DEF Undisturbed, DistinctTimes, FetchPage
  <2>3. PICK m \in 0..Len(market) :
          InBars = Upto(m) /\ \A k \in DOMAIN market : k <= m <=> market[k].ts <= Reach
    BY <2>2 DEF CompleteInv
  <2>4. m = i - 1
    <3>1. Reach = lastTs /\ lastTs \in Nat
      BY <2>2 DEF Reach, TypesInv, TypeOK
    <3>2. \A k \in DOMAIN market : k <= m <=> k < i
      BY <1>0, <2>1, <2>3, <3>1
    <3>3. m \in Nat /\ m <= Len(market) /\ i \in Nat \ {0}
      BY <1>0, <2>1, <2>3
    <3>4. i \in DOMAIN market
      <4>1. i \in i..j
        BY <2>1
      <4> QED
        BY <2>1, <4>1
    <3>5. m < i
      BY <3>2, <3>3, <3>4
    <3>6. m + 1 = i
      <4>1. SUFFICES ASSUME m + 1 < i
                     PROVE  FALSE
        BY <3>3, <3>5
      <4>2. m + 1 \in DOMAIN market
        BY <1>0, <3>3, <3>4, <4>1
      <4> QED
        BY <3>2, <3>3, <4>1, <4>2
    <3> QED
      BY <3>3, <3>6
  <2>5. (IdsOf(stored) \o IdsOf(pending)) \o acc.ids = Upto(i - 1)
    BY <2>2, <2>3, <2>4 DEF InBars
  <2>6. (IdsOf(stored) \o IdsOf(Ingested(i, j).bars)) \o Ingested(i, j).acc.ids = Upto(j)
    BY <2>1, <2>5, BarLists, PageExtends DEF TypesInv, TypeOK
  <2>7. InBars' = Upto(j)
    <3>1. InBars' = (IdsOf(stored') \o IdsOf(pending')) \o acc'.ids
      <4>1. pc' # "marking"
        BY <2>1
      <4>2. InBars' = (IdsOf(stored') \o (IF pc' = "marking" THEN <<>> ELSE IdsOf(pending')))
                        \o acc'.ids
        BY DEF InBars, IdsOf
      <4> QED
        BY <4>1, <4>2
    <3> QED
      BY <2>1, <2>6, <3>1, Zenon
  <2>8. Reach' = market[j].ts
    BY <2>1 DEF Reach
  <2>9. ASSUME NEW k \in DOMAIN market
        PROVE  k <= j <=> market[k].ts <= market[j].ts
    <3>1. j < k <=> market[j].ts < market[k].ts
      BY <1>0, <2>1, <2>2, LaterIsNewer DEF TypesInv
    <3> QED
      BY <1>0, <2>1, <3>1
  <2>10. j \in 0..Len(market)
    BY <1>0, <2>1
  <2>11. Upto(j)' = Upto(j)
    BY DEF Upto
  <2> QED
    BY <2>1, <2>7, <2>8, <2>9, <2>10, <2>11
<1>2. CASE Trade
  <2>1. overrides = 0 /\ Undisturbed
    BY <1>2 DEF Trade, Undisturbed
  <2>2. /\ DistinctTimes /\ DOMAIN market \subseteq DOMAIN market'
        /\ \A i \in DOMAIN market : market'[i] = market[i]
        /\ \A i \in DOMAIN market' : i \notin DOMAIN market =>
               i = Len(market) + 1 /\ market'[i].ts > lastTs /\ market'[i].ts > checkpoint
        /\ UNCHANGED <<pc, memory, file, aborts, overrides>>
    BY <1>2, <2>1, TradeIsNew
  <2>3. PICK m \in 0..Len(market) :
          InBars = Upto(m) /\ \A k \in DOMAIN market : k <= m <=> market[k].ts <= Reach
    BY <2>1, <2>2 DEF CompleteInv
  <2>4. InBars' = InBars /\ Reach' = Reach
    BY <2>2 DEF InBars, IdsOf, Reach
  <2>5. market' \in Seq(Trades) /\ Len(market') = Len(market) + 1
    BY <1>2, TradeAppends DEF TypesInv, TypeOK
  <2>6. m \in 0..Len(market')
    BY <1>0, <2>5
  <2>7. ASSUME NEW k \in DOMAIN market'
        PROVE  k <= m <=> market'[k].ts <= Reach
    <3>1. CASE k \in DOMAIN market
      BY <2>2, <2>3, <3>1
    <3>2. CASE k \notin DOMAIN market
      <4>1. k = Len(market) + 1 /\ market'[k].ts > Reach
        BY <2>2, <3>2 DEF Reach
      <4>2. market'[k].ts \in Nat /\ Reach \in Nat
        <5>1. market'[k] \in Trades
          BY <2>5
        <5> QED
          BY <5>1 DEF Trades, Reach, TypesInv, TypeOK
      <4> QED
        BY <1>0, <4>1, <4>2
    <3> QED
      BY <3>1, <3>2
  <2>8. Upto(m)' = Upto(m)
    BY DEF Upto
  <2> QED
    BY <2>3, <2>4, <2>6, <2>7, <2>8
<1>3. CASE ~FetchPage /\ ~Trade
  <2>1. Undisturbed /\ UNCHANGED market /\ InBars' = InBars /\ Reach' = Reach
    BY <1>3, NothingDropped, BarsKeepOrder
  <2>2. DistinctTimes
    BY <2>1 DEF DistinctTimes
  <2>3. PICK m \in 0..Len(market) :
          InBars = Upto(m) /\ \A k \in DOMAIN market : k <= m <=> market[k].ts <= Reach
    BY <2>1, <2>2 DEF CompleteInv
  <2>4. Upto(m)' = Upto(m)
    BY DEF Upto
  <2> QED
    BY <2>1, <2>3, <2>4
<1> QED
  BY <1>1, <1>2, <1>3

LEMMA CompleteNow ==
  ASSUME TypesInv, CompleteInv
  PROVE  CompleteAndOnce
<1> SUFFICES ASSUME Undisturbed, DistinctTimes
             PROVE  /\ InBars = [i \in 1..Len(InBars) |-> i]
                    /\ pc = "down" => Len(InBars) = Cardinality(Behind)
  BY DEF CompleteAndOnce, InBars
<1>1. PICK m \in 0..Len(market) :
        InBars = Upto(m) /\ \A k \in DOMAIN market : k <= m <=> market[k].ts <= Reach
  BY DEF CompleteInv
<1>2. Len(market) \in Nat /\ DOMAIN market = 1..Len(market) /\ m \in Nat
  BY <1>1, TradeFacts DEF TypesInv, TypeOK
<1>3. Len(InBars) = m /\ InBars = [i \in 1..m |-> i]
  BY <1>1, <1>2, UptoGrows DEF Upto
<1>4. ASSUME pc = "down"
      PROVE  Cardinality(Behind) = m
  <2>1. \A k \in DOMAIN market : k \in Behind <=> k <= m
    BY <1>1, <1>4 DEF Behind, Reach
  <2>2. Behind \subseteq DOMAIN market
    BY DEF Behind
  <2>3. Behind = 1..m
    <3>1. \A k \in Behind : k \in 1..m
      BY <1>2, <2>1, <2>2
    <3>2. \A k \in 1..m : k \in DOMAIN market
      BY <1>1, <1>2
    <3>3. \A k \in 1..m : k \in Behind
      BY <1>2, <2>1, <3>2
    <3> QED
      BY <3>1, <3>3
  <2>4. Cardinality(1..m) = m
    BY <1>2, FS_Interval
  <2> QED
    BY <2>3, <2>4
<1> QED
  BY <1>3, <1>4

\* Runs that are not interrupted and start where the file says cut the history into
\* bars that leave no trade out, repeat none and keep the exchange's order, and
\* between runs the checkpoint is the last of them (bars.py:364-421), as long as no
\* two trades share a millisecond.
THEOREM BarsCompleteAndOnce == Spec => []CompleteAndOnce
<1> DEFINE Inv == TypesInv /\ BarsInv /\ PositionInv /\ CompleteInv
<1>1. Init => Inv
  <2>1. Init => CompleteInv
    <3> SUFFICES ASSUME Init
                 PROVE  CompleteInv
      OBVIOUS
    <3>1. stored = <<>> /\ pending = <<>> /\ acc.ids = <<>> /\ pc = "down" /\ market = <<>>
      BY DEF Init, Empty
    <3>2. InBars = (<<>> \o <<>>) \o <<>>
      BY <3>1, IdsOfNone DEF InBars
    <3>3. InBars = Upto(0) /\ 0 \in 0..Len(market) /\ DOMAIN market = {}
      BY <3>1, <3>2 DEF Upto
    <3> QED
      BY <3>3 DEF CompleteInv
  <2> QED
    BY <2>1, TypesInit, BarsInit, PositionInit
<1>2. Inv /\ [Next]_vars => Inv'
  BY TypesStep, BarsStep, PositionStep, CompleteStep
<1>3. Inv => CompleteAndOnce
  BY CompleteNow
<1> QED
  BY <1>1, <1>2, <1>3, PTL DEF Spec

-----------------------------------------------------------------------------
(* A run comes to the end of the history: the safety half of RunCatchesUp. *)

\* The boundary of the finding about NothingLost: it takes an interruption to lose a
\* trade. Runs that are never interrupted leave nothing behind the checkpoint that is
\* in no bar.
THEOREM NothingLostUninterrupted == Spec => [](aborts = 0 => NothingLost)
<1>1. BarsInv /\ TypesInv /\ OnlyTiesSkipped => (aborts = 0 => NothingLost)
  <2> SUFFICES ASSUME BarsInv, TypesInv, OnlyTiesSkipped, aborts = 0, overrides = 0, DistinctTimes,
                      pc = "down", NEW i \in Behind \ Covered
               PROVE  FALSE
    BY DEF NothingLost
  <2>1. PICK j \in Covered : j < i /\ market[j].ts = market[i].ts
    BY DEF OnlyTiesSkipped, Undisturbed
  <2>2. j \in DOMAIN market /\ i \in DOMAIN market /\ i \in Nat /\ j \in Nat
    BY GotInMarket, TradeFacts DEF Got, Behind, TypesInv, TypeOK
  <2>3. i # j
    BY <2>1, <2>2
  <2> QED
    BY <2>1, <2>2, <2>3 DEF DistinctTimes
<1> QED
  BY <1>1, SkippedTradesAreTies, PositionAlways, PTL

\* The trades that the run has yet to read.
Unread == {i \in DOMAIN market : market[i].ts > lastTs}

StageLeft ==
  CASE pc = "down" -> 0
    [] pc = "marking" /\ final -> 1
    [] pc = "appending" /\ final -> 2
    [] pc = "closing" -> 3
    [] pc = "fetching" -> 4
    [] pc = "marking" /\ ~final -> 5
    [] pc = "appending" /\ ~final -> 6

\* How many more steps a run can take at most: it may fetch, append and mark once for
\* every trade it has yet to read, until it has seen the last page.
StepsLeft ==
  StageLeft + (IF pc \in {"down", "closing"} \/ final THEN 0 ELSE 3 * Cardinality(Unread))

\* Every step of a run brings it nearer to its end, and a trade that is made meanwhile
\* prolongs it by three steps at most.
RunWindsDown ==
  [][ /\ StepsLeft \in Nat
      /\ RunStep => StepsLeft' < StepsLeft
      /\ Trade => StepsLeft' <= StepsLeft + 3 ]_vars

LEMMA UnreadIsFinite ==
  ASSUME TypesInv
  PROVE  IsFiniteSet(Unread) /\ Cardinality(Unread) \in Nat
<1> DEFINE n == Len(market)
<1>1. n \in Nat /\ Unread \in SUBSET (1..n)
  BY TradeFacts DEF Unread, TypesInv, TypeOK
<1> HIDE DEF n
<1>2. IsFiniteSet(1..n)
  BY <1>1, FS_Interval
<1> QED
  BY <1>1, <1>2, FS_Subset, FS_CardinalityType

\* What is left at each stage.
LEMMA StepsLeftIs ==
  ASSUME TypesInv
  PROVE  /\ pc = "down" => StepsLeft = 0
         /\ pc = "marking" /\ final => StepsLeft = 1
         /\ pc = "appending" /\ final => StepsLeft = 2
         /\ pc = "closing" => StepsLeft = 3
         /\ pc = "fetching" => StepsLeft = 4 + 3 * Cardinality(Unread) /\ ~final
         /\ pc = "marking" /\ ~final => StepsLeft = 5 + 3 * Cardinality(Unread)
         /\ pc = "appending" /\ ~final => StepsLeft = 6 + 3 * Cardinality(Unread)
<1>1. final \in BOOLEAN /\ (final => pc \in {"appending", "marking"})
  BY DEF TypesInv, TypeOK, MemoryClean
<1> DEFINE c == 3 * Cardinality(Unread)
<1>2. Cardinality(Unread) \in Nat
  BY UnreadIsFinite
<1>3. c \in Nat
  BY <1>2
<1>4. StepsLeft = StageLeft + (IF pc \in {"down", "closing"} \/ final THEN 0 ELSE c)
  BY DEF StepsLeft
<1> HIDE DEF c
<1>5. pc = "down" => StepsLeft = 0
  BY <1>1, <1>4 DEF StageLeft
<1>6. pc = "closing" => StepsLeft = 3
  BY <1>1, <1>4 DEF StageLeft
<1>7. pc = "fetching" => StepsLeft = 4 + c /\ ~final
  BY <1>1, <1>3, <1>4 DEF StageLeft
<1>8. pc = "marking" /\ final => StepsLeft = 1
  BY <1>4 DEF StageLeft
<1>9. pc = "appending" /\ final => StepsLeft = 2
  BY <1>4 DEF StageLeft
<1>10. pc = "marking" /\ ~final => StepsLeft = 5 + c
  BY <1>3, <1>4 DEF StageLeft
<1>11. pc = "appending" /\ ~final => StepsLeft = 6 + c
  BY <1>3, <1>4 DEF StageLeft
<1> QED
  BY <1>5, <1>6, <1>7, <1>8, <1>9, <1>10, <1>11 DEF c

LEMMA StepsLeftIsNat ==
  ASSUME TypesInv
  PROVE  StepsLeft \in Nat
<1> DEFINE c == Cardinality(Unread)
<1>1. pc \in {"down", "fetching", "appending", "marking", "closing"} /\ final \in BOOLEAN
  BY DEF TypesInv, TypeOK
<1>2. c \in Nat
  BY UnreadIsFinite
<1>3. /\ pc = "down" => StepsLeft = 0
      /\ pc = "marking" /\ final => StepsLeft = 1
      /\ pc = "appending" /\ final => StepsLeft = 2
      /\ pc = "closing" => StepsLeft = 3
      /\ pc = "fetching" => StepsLeft = 4 + 3 * c
      /\ pc = "marking" /\ ~final => StepsLeft = 5 + 3 * c
      /\ pc = "appending" /\ ~final => StepsLeft = 6 + 3 * c
  BY StepsLeftIs
<1> HIDE DEF c
<1>4. 4 + 3 * c \in Nat /\ 5 + 3 * c \in Nat /\ 6 + 3 * c \in Nat
  BY <1>2
<1>5. CASE pc \in {"down", "closing", "fetching"}
  BY <1>3, <1>4, <1>5
<1>6. CASE pc \in {"appending", "marking"} /\ final
  BY <1>3, <1>6
<1>7. CASE pc \in {"appending", "marking"} /\ ~final
  BY <1>3, <1>4, <1>7
<1> QED
  BY <1>1, <1>5, <1>6, <1>7

\* A page that is fetched is read.
LEMMA PageShortens ==
  ASSUME TypesInv, PositionInv, FetchPage
  PROVE  Cardinality(Unread') < Cardinality(Unread)
<1>1. PICK i \in Nat \ {0}, j \in Nat :
         /\ i <= j /\ j \in DOMAIN market
         /\ \A k \in DOMAIN market : k >= i <=> market[k].ts > lastTs
         /\ lastTs' = market[j].ts /\ UNCHANGED market
  BY PageRead
<1>2. /\ \A k \in DOMAIN market : market[k].ts \in Nat
      /\ lastTs \in Nat
  BY TradeFacts DEF TypesInv, TypeOK
<1>3. j \in Unread /\ Unread' \in SUBSET (Unread \ {j})
  BY <1>1, <1>2 DEF Unread
<1>4. /\ IsFiniteSet(Unread) /\ Cardinality(Unread) \in Nat
      /\ IsFiniteSet(Unread \ {j}) /\ Cardinality(Unread \ {j}) = Cardinality(Unread) - 1
  BY <1>3, UnreadIsFinite, FS_RemoveElement
<1>5. Cardinality(Unread') <= Cardinality(Unread \ {j}) /\ Cardinality(Unread') \in Nat
  BY <1>3, <1>4, FS_Subset, FS_CardinalityType
<1> QED
  BY <1>4, <1>5

\* However pages, flushes, ties and overrides come, a run takes at most three steps for
\* each trade it has yet to read and four more (bars.py:378-421).
THEOREM RunsWindDown == Spec => RunWindsDown
<1> USE DEF memory, file
<1>1. ASSUME TypesInv, TypesInv', PositionInv, [Next]_vars
      PROVE  RunStep => StepsLeft' < StepsLeft
  <2> DEFINE c == Cardinality(Unread)
  <2>1. /\ c \in Nat /\ c' \in Nat /\ StepsLeft \in Nat /\ StepsLeft' \in Nat
        /\ final \in BOOLEAN /\ final' \in BOOLEAN
    <3>1. (IsFiniteSet(Unread) /\ Cardinality(Unread) \in Nat)'
      BY <1>1, UnreadIsFinite, PTL
    <3>2. (StepsLeft \in Nat)'
      BY <1>1, StepsLeftIsNat, PTL
    <3> QED
      BY <1>1, <3>1, <3>2, UnreadIsFinite, StepsLeftIsNat DEF TypesInv, TypeOK
  <2>2. /\ pc' = "down" => StepsLeft' = 0
        /\ pc' = "marking" /\ final' => StepsLeft' = 1
        /\ pc' = "appending" /\ final' => StepsLeft' = 2
        /\ pc' = "closing" => StepsLeft' = 3
        /\ pc' = "fetching" => StepsLeft' = 4 + 3 * c'
        /\ pc' = "marking" /\ ~final' => StepsLeft' = 5 + 3 * c'
        /\ pc' = "appending" /\ ~final' => StepsLeft' = 6 + 3 * c'
    <3>1. (/\ pc = "down" => StepsLeft = 0
           /\ pc = "marking" /\ final => StepsLeft = 1
           /\ pc = "appending" /\ final => StepsLeft = 2
           /\ pc = "closing" => StepsLeft = 3
           /\ pc = "fetching" => StepsLeft = 4 + 3 * Cardinality(Unread) /\ ~final
           /\ pc = "marking" /\ ~final => StepsLeft = 5 + 3 * Cardinality(Unread)
           /\ pc = "appending" /\ ~final => StepsLeft = 6 + 3 * Cardinality(Unread))'
      BY <1>1, StepsLeftIs, PTL
    <3> QED
      BY <3>1
  <2>3. /\ pc = "marking" /\ final => StepsLeft = 1
        /\ pc = "appending" /\ final => StepsLeft = 2
        /\ pc = "closing" => StepsLeft = 3
        /\ pc = "fetching" => StepsLeft = 4 + 3 * c /\ ~final
        /\ pc = "marking" /\ ~final => StepsLeft = 5 + 3 * c
        /\ pc = "appending" /\ ~final => StepsLeft = 6 + 3 * c
    BY <1>1, StepsLeftIs
  <2>4. UNCHANGED <<market, lastTs>> => c' = c
    BY DEF Unread
  <2>5. CASE FetchPage
    <3>1. pc = "fetching" /\ pc' \in {"appending", "closing", "fetching"} /\ final' = final
      <4>1. pc' \in {"appending", "closing", "fetching"} /\ final' = final
        BY <1>1, <2>5, PageRead
      <4> QED
        BY <2>5, <4>1 DEF FetchPage
    <3>2. c' < c
      BY <1>1, <2>5, PageShortens
    <3> HIDE DEF c
    <3>3. ~final' /\ StepsLeft = 4 + 3 * c
      BY <2>3, <3>1
    <3>4. \A x, y \in Nat : x < y => 3 < 4 + 3 * y /\ 4 + 3 * x < 4 + 3 * y /\ 6 + 3 * x < 4 + 3 * y
      OBVIOUS
    <3>5. 3 < 4 + 3 * c /\ 4 + 3 * c' < 4 + 3 * c /\ 6 + 3 * c' < 4 + 3 * c
      BY <2>1, <3>2, <3>4
    <3>6. StepsLeft' \in {3, 4 + 3 * c', 6 + 3 * c'}
      BY <2>2, <3>1, <3>3
    <3> QED
      BY <3>3, <3>5, <3>6
  <2>6. CASE FetchNothing
    <3>1. pc = "fetching" /\ pc' = "closing"
      BY <2>6 DEF FetchNothing
    <3> HIDE DEF c
    <3> QED
      BY <2>1, <2>2, <2>3, <3>1
  <2>7. CASE AppendBars
    <3>1. pc = "appending" /\ pc' = "marking" /\ final' = final /\ c' = c
      BY <2>4, <2>7 DEF AppendBars
    <3> HIDE DEF c
    <3> QED
      BY <2>1, <2>2, <2>3, <3>1
  <2>8. CASE MarkCheckpoint
    <3>1. pc = "marking" /\ ~final /\ pc' \in {"fetching", "closing"} /\ c' = c
      BY <2>4, <2>8 DEF MarkCheckpoint, TurnPage
    <3> HIDE DEF c
    <3> QED
      BY <2>1, <2>2, <2>3, <3>1
  <2>9. CASE CloseBar
    <3>1. pc = "closing" /\ (pc' = "down" \/ (pc' = "appending" /\ final'))
      BY <2>9 DEF CloseBar, Down
    <3> HIDE DEF c
    <3> QED
      BY <2>1, <2>2, <2>3, <3>1
  <2>10. CASE MarkFinal
    <3>1. pc = "marking" /\ final /\ pc' = "down"
      BY <2>10 DEF MarkFinal, Down
    <3> HIDE DEF c
    <3> QED
      BY <2>1, <2>2, <2>3, <3>1
  <2> QED
    BY <2>5, <2>6, <2>7, <2>8, <2>9, <2>10 DEF RunStep
<1>2. ASSUME TypesInv, TypesInv', Trade
      PROVE  StepsLeft' <= StepsLeft + 3
  <2> DEFINE new == Len(market) + 1
  <2>1. /\ \A i \in DOMAIN market : market'[i] = market[i]
        /\ DOMAIN market' = 1..new /\ DOMAIN market = 1..Len(market) /\ Len(market) \in Nat
        /\ UNCHANGED <<pc, lastTs, final>>
    <3>1. /\ Len(market') = new /\ market' \in Seq(Trades)
          /\ \A i \in DOMAIN market : market'[i] = market[i]
          /\ UNCHANGED <<pc, memory>>
      BY <1>2, TradeAppends DEF TypesInv, TypeOK
    <3>2. market \in Seq(Trades)
      BY <1>2 DEF TypesInv, TypeOK
    <3> QED
      BY <3>1, <3>2
  <2>2. Unread' \in SUBSET (Unread \union {new})
    <3>1. \A i \in 1..new : i \in 1..Len(market) \/ i = new
      BY <2>1
    <3> QED
      BY <2>1, <3>1 DEF Unread
  <2>3. new \notin Unread
    BY <2>1 DEF Unread
  <2> HIDE DEF new
  <2>4. /\ IsFiniteSet(Unread) /\ Cardinality(Unread) \in Nat
        /\ IsFiniteSet(Unread \union {new}) /\ Cardinality(Unread \union {new}) = Cardinality(Unread) + 1
    BY <1>2, <2>3, UnreadIsFinite, FS_AddElement
  <2>5. Cardinality(Unread') <= Cardinality(Unread) + 1 /\ Cardinality(Unread') \in Nat
    BY <2>2, <2>4, FS_Subset, FS_CardinalityType
  <2>6. StageLeft' = StageLeft
    BY <2>1 DEF StageLeft
  <2>7. StepsLeft' = StageLeft + (IF pc \in {"down", "closing"} \/ final THEN 0 ELSE 3 * Cardinality(Unread'))
    BY <2>1, <2>6 DEF StepsLeft
  <2>8. StageLeft \in Int
    <3>1. pc \in {"down", "fetching", "appending", "marking", "closing"} /\ final \in BOOLEAN
          /\ (final => pc \in {"appending", "marking"})
      BY <1>2 DEF TypesInv, TypeOK, MemoryClean
    <3> QED
      BY <3>1 DEF StageLeft
  <2> HIDE DEF StageLeft
  <2> QED
    BY <2>4, <2>5, <2>7, <2>8 DEF StepsLeft
<1>3. TypesInv /\ TypesInv' /\ PositionInv /\ [Next]_vars
        => [ /\ StepsLeft \in Nat
             /\ RunStep => StepsLeft' < StepsLeft
             /\ Trade => StepsLeft' <= StepsLeft + 3 ]_vars
  BY <1>1, <1>2, StepsLeftIsNat
<1> QED
  BY <1>3, PositionAlways, PTL DEF Spec, RunWindsDown

\* A run leaves its loop only when it has read all the trades there are, and a run that
\* is not given a start of its own ends with all it has read behind the checkpoint.
ReadsToTheEnd ==
  [][ /\ FetchNothing \/ (FetchPage /\ lastPage') => \A i \in DOMAIN market : market[i].ts <= lastTs'
      /\ RunStep /\ pc' = "closing" => FetchNothing \/ (FetchPage /\ lastPage') \/ lastPage
      /\ RunStep /\ pc' = "down" /\ overrides = 0 => checkpoint' = lastTs ]_vars

\* A short page is the last one: what is due and not on it would have had room.
LEMMA ShortPageIsLast ==
  ASSUME TypesInv, FetchPage, lastPage'
  PROVE  \A k \in DOMAIN market : market[k].ts <= lastTs'
<1>0. market \in Seq(Trades) /\ cursor \in Nat /\ MarketSorted
  BY DEF TypesInv, TypeOK
<1>1. PICK i \in Nat \ {0}, j \in Nat :
           /\ i <= j /\ i..j \subseteq DOMAIN market /\ Page = i..j
           /\ i = CHOOSE a \in Page : \A b \in Page : a <= b
           /\ j = CHOOSE a \in Page : \A b \in Page : a >= b
           /\ \A k \in DOMAIN market : k >= i <=> (cursor = NoTs \/ market[k].ts >= cursor)
  BY <1>0, PageShape DEF FetchPage
<1> DEFINE newest == CHOOSE a \in Page : \A b \in Page : a >= b
<1>2. newest = j
  BY <1>1, Zenon
<1>3. lastTs' = market[newest].ts /\ lastPage' = Short(Page)
  BY Zenon DEF FetchPage
<1> HIDE DEF newest
<1>4. lastTs' = market[j].ts /\ Cardinality(Page) < PageSize
  BY <1>2, <1>3 DEF Short
<1>5. Len(market) \in Nat /\ DOMAIN market = 1..Len(market)
      /\ \A k \in DOMAIN market : market[k].ts \in Nat
  BY <1>0, TradeFacts
<1>6. j \in DOMAIN market /\ j \in i..j
  BY <1>1
<1>7. ASSUME NEW k \in DOMAIN market, k > j
      PROVE  FALSE
  <2> DEFINE next == j + 1
             due == {m \in DOMAIN market : cursor = NoTs \/ market[m].ts >= cursor}
             before == {m \in due : m < next}
  <2>1. next \in DOMAIN market /\ next >= i /\ next \notin i..j
    BY <1>1, <1>5, <1>6, <1>7
  <2>2. next \in due /\ next \notin Page
    BY <1>1, <2>1
  <2>3. before = i..j
    <3>1. \A m \in DOMAIN market : m \in Int /\ (m \in due <=> m >= i)
      <4> TAKE m \in DOMAIN market
      <4>1. m \in Int
        BY <1>5
      <4>2. m \in due <=> (cursor = NoTs \/ market[m].ts >= cursor)
        BY Zenon
      <4>3. (cursor = NoTs \/ market[m].ts >= cursor) <=> m >= i
        BY <1>1
      <4> HIDE DEF due
      <4> QED
        BY <4>1, <4>2, <4>3
    <3>2. \A m : m \in due => m \in DOMAIN market
      OBVIOUS
    <3> HIDE DEF due
    <3>3. \A m : m \in before <=> m \in due /\ m < j + 1
      OBVIOUS
    <3> HIDE DEF before
    <3>4. \A m \in before : m \in i..j
      <4> TAKE m \in before
      <4>1. m \in DOMAIN market /\ m \in due /\ m < j + 1
        BY <3>2, <3>3
      <4>2. m \in Int /\ m >= i /\ j \in Nat
        BY <1>1, <3>1, <4>1
      <4> QED
        BY <1>1, <4>1, <4>2
    <3>5. \A m \in i..j : m \in before
      <4> TAKE m \in i..j
      <4>1. m \in DOMAIN market
        BY <1>1
      <4>2. m \in Int /\ i \in Int /\ j \in Int /\ i <= m /\ m <= j
        BY <1>1
      <4>3. m >= i /\ m < j + 1
        BY <4>2
      <4> QED
        BY <3>1, <3>3, <4>1, <4>3
    <3> QED
      BY <3>4, <3>5
  <2>4. Page = {m \in due : Cardinality({l \in due : l < m}) < PageSize}
    BY DEF Page
  <2>5. ~(Cardinality(before) < PageSize)
    BY <2>2, <2>4
  <2> HIDE DEF before, due, next
  <2> QED
    BY <1>1, <1>4, <2>3, <2>5
<1>8. \A k \in DOMAIN market : k <= j
  <2> SUFFICES ASSUME NEW k \in DOMAIN market
               PROVE  k <= j
    OBVIOUS
  <2>1. k \in Int /\ j \in Int /\ ~(k > j)
    BY <1>1, <1>5, <1>7
  <2> QED
    BY <2>1
<1> QED
  BY <1>0, <1>4, <1>6, <1>8 DEF MarketSorted

\* An empty page: nothing is due.
LEMMA EmptyPageIsLast ==
  ASSUME TypesInv, PositionInv, FetchNothing
  PROVE  \A k \in DOMAIN market : market[k].ts <= lastTs'
<1> DEFINE n == Len(market)
           due == {m \in DOMAIN market : cursor = NoTs \/ market[m].ts >= cursor}
<1>1. n \in Nat /\ DOMAIN market = 1..n /\ \A k \in DOMAIN market : market[k].ts \in Nat \ {0}
      /\ lastTs \in Nat
  BY TradeFacts DEF TypesInv, TypeOK
<1>2. lastTs' = lastTs /\ Page = {} /\ ((cursor = NoTs /\ lastTs = 0) \/ cursor = lastTs + 1)
  BY DEF FetchNothing, PositionInv, memory
<1>3. due = {}
  <2> SUFFICES ASSUME due # {}
               PROVE  FALSE
    OBVIOUS
  <2>1. due \in SUBSET (1..n)
    BY <1>1
  <2>2. PICK i \in due : \A m \in due : i <= m
    <3> HIDE DEF due, n
    <3> QED
      BY <1>1, <2>1, LeastExists
  <2>3. {m \in due : m < i} = {}
    <3>1. \A m \in due : m \in Int /\ i <= m
      BY <1>1, <2>2
    <3>2. i \in Int
      BY <3>1
    <3>3. \A m \in due : ~(m < i)
      <4> HIDE DEF due
      <4> QED
        BY <3>1, <3>2
    <3> HIDE DEF due
    <3> QED
      BY <3>3
  <2>4. Cardinality({m \in due : m < i}) = 0
    BY <2>3, FS_EmptySet, Zenon
  <2>5. Page = {k \in due : Cardinality({m \in due : m < k}) < PageSize}
    BY DEF Page
  <2> HIDE DEF due
  <2> QED
    BY <1>2, <2>2, <2>4, <2>5, BarsAssumption
<1>4. ASSUME NEW k \in DOMAIN market
      PROVE  market[k].ts <= lastTs
  <2>1. k \notin due
    BY <1>3
  <2> QED
    BY <1>1, <1>2, <2>1 DEF NoTs
<1> QED
  BY <1>2, <1>4

\* However the history grows, a run stops reading only at its end, and what it has read
\* is then checkpointed (bars.py:382-421).
THEOREM RunsReadToTheEnd == Spec => ReadsToTheEnd
<1> USE DEF memory, file
<1>1. ASSUME TypesInv, PositionInv, FetchNothing \/ (FetchPage /\ lastPage')
      PROVE  \A i \in DOMAIN market : market[i].ts <= lastTs'
  BY <1>1, ShortPageIsLast, EmptyPageIsLast
<1>2. ASSUME TypesInv, RunStep, pc' = "closing"
      PROVE  FetchNothing \/ (FetchPage /\ lastPage') \/ lastPage
  <2>1. CASE FetchPage
    <3> DEFINE newest == CHOOSE a \in Page : \A b \in Page : a >= b
               first == CHOOSE a \in Page : \A b \in Page : a <= b
               result == Ingested(first, newest)
    <3>1. /\ lastPage' = Short(Page)
          /\ IF FlushDue(result.bars) THEN pc' = "appending" /\ UNCHANGED cursor
             ELSE TurnPage(Short(Page), market[newest].ts)
      BY <2>1, Zenon DEF FetchPage
    <3> HIDE DEF newest, first, result
    <3> QED
      BY <1>2, <2>1, <3>1 DEF TurnPage
  <2>2. CASE ~FetchPage
    BY <1>2, <2>2 DEF RunStep, AppendBars, MarkCheckpoint, TurnPage, CloseBar, MarkFinal, Down
  <2> QED
    BY <2>1, <2>2
<1>3. ASSUME TypesInv, BarsInv, PositionInv, RunStep, pc' = "down", overrides = 0
      PROVE  checkpoint' = lastTs
  <2>1. CASE CloseBar
    <3>1. pc = "closing" /\ Down
      BY <1>3, <2>1 DEF CloseBar
    <3>2. pending = <<>> /\ acc = Empty /\ UNCHANGED file
      BY <1>3, <2>1, <3>1, NothingToClose
    <3> QED
      BY <1>3, <3>1, <3>2 DEF PositionInv
  <2>2. CASE MarkFinal
    BY <2>2 DEF MarkFinal
  <2>3. CASE FetchPage
    BY <1>3, <2>3, PageRead
  <2>4. CASE ~CloseBar /\ ~MarkFinal /\ ~FetchPage
    BY <1>3, <2>4 DEF RunStep, FetchNothing, AppendBars, MarkCheckpoint, TurnPage
  <2> QED
    BY <2>1, <2>2, <2>3, <2>4
<1>4. TypesInv /\ BarsInv /\ PositionInv /\ [Next]_vars
        => [ /\ FetchNothing \/ (FetchPage /\ lastPage')
                  => \A i \in DOMAIN market : market[i].ts <= lastTs'
             /\ RunStep /\ pc' = "closing" => FetchNothing \/ (FetchPage /\ lastPage') \/ lastPage
             /\ RunStep /\ pc' = "down" /\ overrides = 0 => checkpoint' = lastTs ]_vars
  BY <1>1, <1>2, <1>3
<1> QED
  BY <1>4, PositionAlways, PTL DEF Spec, ReadsToTheEnd

=============================================================================
