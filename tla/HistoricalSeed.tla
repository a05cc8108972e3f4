--------------------------- MODULE HistoricalSeed ---------------------------
(***************************************************************************)
(* data/historical.py and KrakenClient.fetch_historical_candles of         *)
(* data/kraken.py: one run of the seeding program walks through a list of  *)
(* phases (a market and a timeframe each), pages through the exchange's    *)
(* candles and inserts what it got in one transaction.  A phase that       *)
(* raises leaves the others alone; the program may be killed at any time   *)
(* and run again whenever the operator likes.                              *)
(*                                                                         *)
(* Time is counted in the candles of the shortest timeframe.  Prices are   *)
(* left out: what matters of a candle is when it opens and whether it was  *)
(* closed when the exchange reported it.                                   *)
(***************************************************************************)
EXTENDS Integers, Sequences

CONSTANTS Markets,       \* SUPPORTED_SYMBOLS, in order
          Span,          \* how long a candle of each timeframe lasts
          Deep, Recent,  \* the lookbacks: `months`, and the 7 days of the 15m phase
          PageLimit,     \* limit=500
          Kept,          \* how many candles of a timeframe the exchange can still serve
          FirstTick, LastTick  \* bounds on the clock

Timeframes == {"15m", "1h"}

ASSUME SeedAssumption ==
  /\ Markets \in Seq(STRING)
  /\ Span \in [Timeframes -> Nat \ {0}]
  /\ Deep \in Nat \ {0} /\ Recent \in Nat \ {0}
  /\ PageLimit \in Nat /\ PageLimit > 1 /\ Kept \in Nat
  /\ FirstTick \in Nat /\ LastTick \in Nat

VARIABLES
  clock,      \* the exchange's and the program's clock
  table,      \* the candles table
  phases,     \* what the run has yet to do; the head is under way
  seedStage,  \* "idle", "next", "paging" or "storing"
  until,      \* of the phase under way
  cursor,     \* current_since
  got,        \* all_candles
  served      \* history: the requests answered and stored

seedVars == <<clock, table, phases, seedStage, until, cursor, got, served>>

Phase(market, tf, back) == [market |-> market, tf |-> tf, back |-> back]

-----------------------------------------------------------------------------
\* External: the exchange serves the last Kept candles of a timeframe ("~720
\* candles max", historical.py:27), of which the newest may still be open.
Oldest(tf) == ((clock \div Span[tf]) - Kept + 1) * Span[tf]
Later(a, b) == IF a > b THEN a ELSE b

\* fetch_ohlcv: those that open at `from` or later, the first PageLimit of them.
Page(tf, from) ==
  LET asked == ((from + Span[tf] - 1) \div Span[tf]) * Span[tf]
      first == Later(Later(0, asked), Oldest(tf))
      there == IF first > clock THEN 0 ELSE (clock - first) \div Span[tf] + 1
      open(i) == first + (i - 1) * Span[tf]
  IN  [i \in 1..(IF there < PageLimit THEN there ELSE PageLimit) |->
        [at |-> open(i), closed |-> open(i) + Span[tf] <= clock]]

SeedInit ==
  /\ clock = FirstTick /\ table = {} /\ phases = <<>> /\ seedStage = "idle"
  /\ until = 0 /\ cursor = 0 /\ got = <<>> /\ served = {}

\* seed_database: fetch_and_store_all_deep takes each market through a phase of
\* deep 1h history and one of recent 15m candles; with --timeframe,
\* fetch_and_store_all takes each through one deep phase.
DeepPlan == [i \in 1..2 * Len(Markets) |->
  IF i % 2 = 1 THEN Phase(Markets[(i + 1) \div 2], "1h", Deep)
               ELSE Phase(Markets[i \div 2], "15m", Recent)]
SinglePlan(tf) == [i \in 1..Len(Markets) |-> Phase(Markets[i], tf, Deep)]

SeedDatabase ==
  /\ seedStage = "idle"
  /\ seedStage' = "next"
  /\ phases' \in {DeepPlan} \cup {SinglePlan(tf) : tf \in Timeframes}
  /\ UNCHANGED <<clock, table, until, cursor, got, served>>

\* fetch_and_store, fetch_and_store_recent: the range ends now.
BeginPhase ==
  /\ seedStage = "next" /\ phases # <<>>
  /\ until' = clock /\ cursor' = clock - Head(phases).back
  /\ got' = <<>> /\ seedStage' = "paging"
  /\ UNCHANGED <<clock, table, phases, served>>

\* A page ascends: what opens by `end` is its first part.
UpTo(page, end) == [i \in {k \in DOMAIN page : page[k].at <= end} |-> page[i]]

ShortOrFull(batch) == Len(batch) <= PageLimit
LastPage(batch) == Len(batch) < PageLimit

\* One turn of the loop of fetch_historical_candles. Pages overlap by a candle.
FetchPage ==
  /\ seedStage = "paging" /\ cursor < until
  /\ LET batch == UpTo(Page(Head(phases).tf, cursor), until)
     IN  /\ got' = got \o batch
         /\ IF LastPage(batch)
            THEN seedStage' = "storing" /\ cursor' = cursor
            ELSE seedStage' = seedStage /\ cursor' = batch[Len(batch)].at
  /\ UNCHANGED <<clock, table, phases, until, served>>

PagesDone ==
  /\ seedStage = "paging" /\ cursor >= until
  /\ seedStage' = "storing"
  /\ UNCHANGED <<clock, table, phases, until, cursor, got, served>>

\* What is stored of the pages: the first report of each candle.
Reports == {got[i] : i \in {k \in DOMAIN got : \A j \in 1..k-1 : got[j].at # got[k].at}}

Row(phase, c) == [market |-> phase.market, tf |-> phase.tf, at |-> c.at, closed |-> c.closed]
SameCandle(r, s) == r.market = s.market /\ r.tf = s.tf /\ r.at = s.at

InsertEither(rows) == table \cup rows
\* INSERT ... ON CONFLICT DO NOTHING.
Insert(rows) == table \cup {r \in rows : \A old \in table : ~SameCandle(old, r)}

\* What a phase worked with is gone when it is over.
PhaseOver == until' = 0 /\ cursor' = 0 /\ got' = <<>>

\* _store_candles, in one transaction; with no candles there is nothing to do.
StoreCandles ==
  /\ seedStage = "storing"
  /\ table' = Insert({Row(Head(phases), c) : c \in Reports})
  /\ served' = served \cup {[market |-> Head(phases).market, tf |-> Head(phases).tf,
                             from |-> Later(until - Head(phases).back, Oldest(Head(phases).tf)),
                             to |-> until]}
  /\ phases' = Tail(phases) /\ seedStage' = "next" /\ PhaseOver
  /\ UNCHANGED clock

PhaseRetried ==
  /\ \/ seedStage = "paging" /\ cursor < until
     \/ seedStage = "storing" /\ got # <<>>
  /\ seedStage' = "next" /\ PhaseOver
  /\ UNCHANGED <<clock, table, phases, served>>

\* The exchange or the database raises: the session rolls back, the error is
\* logged, and the next phase has its turn.
PhaseFails ==
  /\ \/ seedStage = "paging" /\ cursor < until
     \/ seedStage = "storing" /\ got # <<>>
  /\ phases' = Tail(phases) /\ seedStage' = "next" /\ PhaseOver
  /\ UNCHANGED <<clock, table, served>>

SeedFinishes ==
  /\ seedStage = "next" /\ phases = <<>>
  /\ seedStage' = "idle"
  /\ UNCHANGED <<clock, table, phases, until, cursor, got, served>>

\* The program is killed; an open transaction is rolled back.
SeedKilled ==
  /\ seedStage # "idle"
  /\ seedStage' = "idle" /\ phases' = <<>> /\ PhaseOver
  /\ UNCHANGED <<clock, table, served>>

TimePasses ==
  /\ clock < LastTick
  /\ clock' = clock + 1
  /\ UNCHANGED <<table, phases, seedStage, until, cursor, got, served>>

SeedStep == BeginPhase \/ FetchPage \/ PagesDone \/ StoreCandles \/ PhaseFails \/ SeedFinishes
SeedNext == SeedDatabase \/ SeedStep \/ SeedKilled \/ TimePasses

SeedSpec == SeedInit /\ [][SeedNext]_seedVars /\ WF_seedVars(SeedStep)

-----------------------------------------------------------------------------
(* Properties.                                                             *)

Candles == [at : Nat, closed : BOOLEAN]
SeedTypeOK ==
  /\ clock \in Nat /\ until \in Nat /\ cursor \in Int
  /\ seedStage \in {"idle", "next", "paging", "storing"}
  /\ phases \in Seq([market : STRING, tf : Timeframes, back : Nat])
  /\ (seedStage \in {"paging", "storing"} => phases # <<>>)
  /\ got \in Seq(Candles)
  /\ table \subseteq [market : STRING, tf : Timeframes, at : Nat, closed : BOOLEAN]
  /\ served \subseteq [market : STRING, tf : Timeframes, from : Int, to : Nat]

\* "All candles in the range" (kraken.py:200): whatever pages, failures and
\* earlier runs came before, a phase that succeeded has every candle of its
\* range in the table.
NoGap ==
  \A s \in served : \A t \in 0..LastTick :
    /\ s.from <= t /\ t <= s.to /\ t % Span[s.tf] = 0
    => \E r \in table : r.market = s.market /\ r.tf = s.tf /\ r.at = t

\* One row per candle, and a row that shows a candle before it closed, which
\* DO NOTHING never corrects (historical.py:218), is the candle in progress when
\* some phase that succeeded began: at most one per run, market and timeframe.
OnlyTheTipIsStale ==
  /\ \A r, s \in table : SameCandle(r, s) => r = s
  /\ \A r \in table : r.closed \/
       \E s \in served : /\ s.market = r.market /\ s.tf = r.tf
                         /\ r.at <= s.to /\ s.to < r.at + Span[r.tf]

\* The paging loop ends although its pages overlap (kraken.py:213-230), and a phase
\* that fails is not tried again, so every run ends while candles keep being added.
SeedingEnds == (seedStage # "idle") ~> (seedStage = "idle")

=============================================================================
