----------------------------- MODULE DollarBars -----------------------------
(***************************************************************************)
(* data/bars.py: build_dollar_bars pages through the exchange's trades,    *)
(* gathers them into bars of Threshold dollars, and appends the bars to an *)
(* HDF5 table whose attribute last_trade_ts says where a later run resumes.*)
(*                                                                         *)
(* One run at a time. A run can end at any moment: the process dies, or    *)
(* fetch_trades raises, which build_dollar_bars does not catch. What it    *)
(* had in memory is lost then; the table and its attribute remain, and the *)
(* two are written one after the other. The exchange is external: it lists *)
(* trades oldest first, never changes them, and answers fetch_trades with  *)
(* the first PageSize trades from `since` on.                              *)
(*                                                                         *)
(* A trade is named by its position in the market. The accumulator and the *)
(* bars carry, besides the code's fields, the trades they were made of     *)
(* (ids), which only the properties read.                                  *)
(***************************************************************************)
EXTENDS Integers, Sequences, FiniteSets, Functions

CONSTANTS Prices, Amounts,   \* of trades
          Gaps,              \* milliseconds between neighbouring trades
          Inf,               \* Decimal("Inf"): above every price
          Threshold,         \* dollars per bar
          PageSize,          \* page_size
          Interval,          \* checkpoint_interval, in bars
          Overrides,         \* values of since_ms a caller may pass
          MaxTrades, MaxAborts, MaxOverrides   \* bounds

ASSUME BarsAssumption ==
  /\ Prices \subseteq Nat \ {0} /\ Amounts \subseteq Nat \ {0}
  /\ Gaps \subseteq Nat
  /\ Inf \in Nat /\ \A p \in Prices : p < Inf
  /\ Threshold \in Nat \ {0}
  /\ PageSize \in Nat \ {0} /\ Interval \in Nat \ {0}
  /\ Overrides \subseteq Nat \ {0}
  /\ MaxTrades \in Nat /\ MaxAborts \in Nat /\ MaxOverrides \in Nat

NoTs == 0     \* None, for a cursor or a checkpoint: real timestamps are positive

VARIABLES
  market,      \* the exchange's trades
  (* build_dollar_bars, in memory. *)
  pc,          \* down, fetching, appending (bars.py:306), marking (307), closing
  cursor,
  lastTs,      \* last_trade_ts
  acc,         \* the accumulator
  pending,     \* pending_bars
  lastPage,    \* was the page just read the last one?
  final,       \* is this the flush at the end of the run?
  (* The HDF5 file. *)
  stored,      \* the bars table
  checkpoint,  \* its attribute last_trade_ts
  (* History. *)
  aborts, overrides

memory == <<cursor, lastTs, acc, pending, lastPage, final>>
file == <<stored, checkpoint>>
vars == <<market, pc, memory, file, aborts, overrides>>

-----------------------------------------------------------------------------
(* DollarBarAccumulator.                                                   *)

Greater(a, b) == IF a >= b THEN a ELSE b
Lesser(a, b) == IF a <= b THEN a ELSE b

Empty == [start |-> NoTs, last |-> 0, open |-> 0, high |-> 0, low |-> Inf, close |-> 0,
          volume |-> 0, dollars |-> 0, ticks |-> 0, ids |-> <<>>]

ResetKeepingHigh(a) == [Empty EXCEPT !.high = a.high]
\* _reset.
Reset(a) == Empty

\* The fields ingest updates with trade i.
Add(a, i) ==
  LET t == market[i]
      first == a.start = NoTs
  IN  [start   |-> IF first THEN t.ts ELSE a.start,
       last    |-> t.ts,
       open    |-> IF first THEN t.price ELSE a.open,
       high    |-> Greater(a.high, t.price),
       low     |-> Lesser(a.low, t.price),
       close   |-> t.price,
       volume  |-> a.volume + t.amount,
       dollars |-> a.dollars + t.price * t.amount,
       ticks   |-> a.ticks + 1,
       ids     |-> Append(a.ids, i)]

CrossesStrictly(a) == a.dollars > Threshold
\* Is the bar complete?
Crosses(a) == a.dollars >= Threshold

KeepLatest(bars, bar) == <<bar>>
\* pending_bars.append: _emit packages the accumulator as it is.
Collect(bars, bar) == Append(bars, bar)

\* ingest(trade k), which hands a bar over when it is complete.
Ingest(k, before) ==
  LET added == Add(before.acc, k)
  IN  IF Crosses(added)
      THEN [acc |-> Reset(added), bars |-> Collect(before.bars, added)]
      ELSE [acc |-> added, bars |-> before.bars]

\* The accumulator and the pending bars once trades i..j are ingested.
Ingested(i, j) ==
  LET after[k \in i - 1 .. j] ==
        IF k < i THEN [acc |-> acc, bars |-> pending] ELSE Ingest(k, after[k - 1])
  IN  after[j]

-----------------------------------------------------------------------------
(* build_dollar_bars.                                                      *)

BeyondNext(ts) == ts + 2
AtSame(ts) == ts
\* Both after a page and on resumption the cursor is one millisecond on.
NextCursor(ts) == ts + 1

\* What fetch_trades(since=cursor) would return now, as positions in the market.
Page ==
  LET due == {i \in DOMAIN market : cursor = NoTs \/ market[i].ts >= cursor}
  IN  {i \in due : Cardinality({j \in due : j < i}) < PageSize}

\* No run: the locals of build_dollar_bars are gone.
Down ==
  /\ pc' = "down"
  /\ cursor' = NoTs /\ lastTs' = 0 /\ acc' = Empty /\ pending' = <<>>
  /\ lastPage' = FALSE /\ final' = FALSE

\* A run begins at since_ms if the caller gives one, or behind the checkpoint, or
\* at the beginning of the history.
Start ==
  /\ pc = "down"
  /\ \/ /\ cursor' = IF checkpoint = NoTs THEN NoTs ELSE NextCursor(checkpoint)
        /\ UNCHANGED overrides
     \/ /\ overrides < MaxOverrides
        /\ cursor' \in Overrides
        /\ overrides' = overrides + 1
  /\ lastTs' = IF cursor' = NoTs THEN 0 ELSE cursor' - 1
  /\ pc' = "fetching"
  /\ UNCHANGED <<market, acc, pending, lastPage, final, file, aborts>>

\* fetch_trades returns an empty list.
FetchNothing ==
  /\ pc = "fetching"
  /\ Page = {}
  /\ pc' = "closing"
  /\ UNCHANGED <<market, memory, file, aborts, overrides>>

ShortOrFull(page) == Cardinality(page) <= PageSize
\* A page with fewer trades than asked for is the last one.
Short(page) == Cardinality(page) < PageSize

FlushDueLate(bars) == Len(bars) > Interval
FlushDue(bars) == Len(bars) >= Interval

\* The end of the loop's body: a short page leaves the loop.
TurnPage(last, ts) ==
  IF last
  THEN pc' = "closing" /\ UNCHANGED cursor
  ELSE pc' = "fetching" /\ cursor' = NextCursor(ts)

\* A page is ingested, trade by trade, and flushed if that makes enough bars.
FetchPage ==
  /\ pc = "fetching"
  /\ Page # {}
  /\ LET first == CHOOSE i \in Page : \A j \in Page : i <= j
         newest == CHOOSE i \in Page : \A j \in Page : i >= j
         result == Ingested(first, newest)
     IN  /\ acc' = result.acc
         /\ pending' = result.bars
         /\ lastTs' = market[newest].ts
         /\ lastPage' = Short(Page)
         /\ IF FlushDue(result.bars)
            THEN pc' = "appending" /\ UNCHANGED cursor
            ELSE TurnPage(Short(Page), market[newest].ts)
  /\ UNCHANGED <<market, final, file, aborts, overrides>>

\* The first half of _flush_bars: the bars are appended to the table.
AppendBars ==
  /\ pc = "appending"
  /\ stored' = stored \o pending
  /\ pc' = "marking"
  /\ UNCHANGED <<market, memory, checkpoint, aborts, overrides>>

\* Its second half, in the loop: the attribute is set and the run goes on.
MarkCheckpoint ==
  /\ pc = "marking" /\ ~final
  /\ checkpoint' = lastTs
  /\ pending' = <<>>
  /\ TurnPage(lastPage, lastTs)
  /\ UNCHANGED <<market, lastTs, acc, lastPage, final, stored, aborts, overrides>>

\* After the loop: the trailing partial bar joins the pending ones. With nothing
\* pending the run is over.
CloseBar ==
  /\ pc = "closing"
  /\ LET all == IF acc.ticks = 0 THEN pending ELSE Collect(pending, acc)
     IN  IF all = <<>>
         THEN Down
         ELSE /\ pc' = "appending" /\ final' = TRUE
              /\ pending' = all /\ acc' = Reset(acc)
              /\ UNCHANGED <<cursor, lastTs, lastPage>>
  /\ UNCHANGED <<market, file, aborts, overrides>>

\* The second half of the last flush ends the run.
MarkFinal ==
  /\ pc = "marking" /\ final
  /\ checkpoint' = lastTs
  /\ Down
  /\ UNCHANGED <<market, stored, aborts, overrides>>

\* The process dies, or fetch_trades raises.
Abort ==
  /\ pc # "down"
  /\ aborts < MaxAborts
  /\ aborts' = aborts + 1
  /\ Down
  /\ UNCHANGED <<market, file, overrides>>

\* External: a trade is made.
Trade ==
  /\ Len(market) < MaxTrades
  /\ \E price \in Prices, amount \in Amounts, gap \in Gaps :
       LET now == IF market = <<>> THEN 1 ELSE market[Len(market)].ts + gap
       IN  market' = Append(market, [ts |-> now, price |-> price, amount |-> amount])
  /\ UNCHANGED <<pc, memory, file, aborts, overrides>>

Init ==
  /\ market = <<>> /\ pc = "down"
  /\ cursor = NoTs /\ lastTs = 0 /\ acc = Empty /\ pending = <<>>
  /\ lastPage = FALSE /\ final = FALSE
  /\ stored = <<>> /\ checkpoint = NoTs
  /\ aborts = 0 /\ overrides = 0

RunStep ==
  \/ FetchNothing \/ FetchPage \/ AppendBars \/ MarkCheckpoint
  \/ CloseBar \/ MarkFinal

Next == Start \/ RunStep \/ Abort \/ Trade

Spec == Init /\ [][Next]_vars
\* A run that has started keeps running: it is a plain loop over blocking calls.
\* This is WF_vars(RunStep), with pc # "down" for its ENABLED.
FairSpec == Spec /\ ([]<>(pc = "down") \/ []<><<RunStep>>_vars)

-----------------------------------------------------------------------------
(* Properties.                                                             *)

Trades == [ts : Nat \ {0}, price : Prices, amount : Amounts]
Bars == [start : Nat, last : Nat, open : Nat, high : Nat, low : Nat, close : Nat,
         volume : Nat, dollars : Nat, ticks : Nat, ids : Seq(Nat \ {0})]

\* Types; no pending bars outlive the flush that wrote them (bars.py:404).
TypeOK ==
  /\ market \in Seq(Trades)
  /\ pc \in {"down", "fetching", "appending", "marking", "closing"}
  /\ cursor \in Nat /\ lastTs \in Nat /\ checkpoint \in Nat
  /\ acc \in Bars
  /\ pending \in Seq(Bars) /\ stored \in Seq(Bars)
  /\ (pc = "fetching" => Len(pending) < Interval)
  /\ lastPage \in BOOLEAN /\ final \in BOOLEAN
  /\ aborts \in 0 .. MaxAborts /\ overrides \in 0 .. MaxOverrides

\* The trades of a list of bars, in the list's order.
IdsOf(bars) ==
  LET upTo[k \in 0 .. Len(bars)] == IF k = 0 THEN <<>> ELSE upTo[k - 1] \o bars[k].ids
  IN  upTo[Len(bars)]

Covered == UNION {{stored[k].ids[n] : n \in DOMAIN stored[k].ids} : k \in DOMAIN stored}
\* The trades a later run will not ask for again.
Behind == {i \in DOMAIN market : market[i].ts <= checkpoint}
Undisturbed == aborts = 0 /\ overrides = 0
DistinctTimes == \A i, j \in DOMAIN market : i # j => market[i].ts # market[j].ts

\* Runs that are not disturbed chop the history into bars without a gap and
\* without a repetition, across pages, flushes and resumptions, and between runs
\* the checkpoint is the last trade in a bar (bars.py:364-421), provided no two
\* trades share a millisecond.
CompleteAndOnce ==
  Undisturbed /\ DistinctTimes =>
    LET inBars == IdsOf(stored) \o (IF pc = "marking" THEN <<>> ELSE IdsOf(pending)) \o acc.ids
    IN  /\ inBars = [i \in 1 .. Len(inBars) |-> i]
        /\ pc = "down" => Len(inBars) = Cardinality(Behind)

\* Trades of one millisecond can be torn apart by the end of a page or of a run,
\* and the later ones are never asked for again (bars.py:372, 410); nothing else
\* is skipped by runs that are not disturbed.
OnlyTiesSkipped ==
  Undisturbed /\ pc = "down" =>
    \A i \in Behind \ Covered : \E j \in Covered : j < i /\ market[j].ts = market[i].ts

Worth(i) == market[i].price * market[i].amount

Faithful(bar) ==
  LET n == Len(bar.ids)
      prices == {market[bar.ids[m]].price : m \in 1 .. n}
  IN  /\ n > 0 /\ bar.ticks = n
      /\ bar.start = market[bar.ids[1]].ts /\ bar.last = market[bar.ids[n]].ts
      /\ bar.open = market[bar.ids[1]].price /\ bar.close = market[bar.ids[n]].price
      /\ bar.high \in prices /\ bar.low \in prices
      /\ \A p \in prices : bar.low <= p /\ p <= bar.high
      /\ bar.volume = SumFunction([m \in 1 .. n |-> market[bar.ids[m]].amount])
      /\ bar.dollars = SumFunction([m \in 1 .. n |-> Worth(bar.ids[m])])

\* A bar summarises exactly the trades it was made of, whatever happened before
\* (bars.py:156-167, 189-214).
BarsAreFaithful == \A k \in DOMAIN stored : Faithful(stored[k])

Dollars(ids) == SumFunctionOnSet([i \in DOMAIN market |-> Worth(i)], ids)

\* "First reaches or exceeds": a bar never holds a trade more than it takes to
\* reach the threshold, and only the last bar of a run stays below it
\* (bars.py:119-122, 169, 414-416).
BarsEndAtThreshold ==
  [][\A k \in DOMAIN stored' \ DOMAIN stored :
       LET bar == stored'[k]
       IN  /\ bar.dollars - Worth(bar.ids[Len(bar.ids)]) < Threshold
           /\ bar.dollars < Threshold => final /\ k = Len(stored')]_vars

\* Interrupting a run can lose the trades that a flush's checkpoint ran ahead of,
\* those in the accumulator (bars.py:399, 403), and no more: no gap is as big as a
\* bar, even after several interruptions.
LossIsBelowOneBar ==
  overrides = 0 /\ DistinctTimes =>
    LET lost == Behind \ Covered
    IN  \A i, j \in lost : i <= j /\ i .. j \subseteq lost => Dollars(i .. j) < Threshold

\* "Persists bars to a resumable checkpoint file" (bars.py:4-5): whatever the
\* resumed run will not ask for again is in a bar. (It is not.)
NothingLost ==
  overrides = 0 /\ DistinctTimes /\ pc = "down" => Behind \subseteq Covered

\* A run that is not disturbed gets to the end of the history it found, and what
\* it has read is checkpointed (bars.py:382-419).
RunCatchesUp ==
  \A i \in 1 .. MaxTrades :
    (pc = "fetching" /\ i <= Len(market))
      ~> (i \in Behind \/ aborts > 0 \/ overrides > 0)

=============================================================================
