---------------------------- MODULE MarketVendors ----------------------------
(* What each market data provider can answer to each source a run asks for,  *)
(* from what its own requests can come back with.  A method ends in "data", in *)
(* "text" (a sentence saying that there is nothing, which ends the chain of   *)
(* vendors as data does) or in "raise" (the next vendor is asked).  Tables,    *)
(* columns and wording are left out.                                          *)
EXTENDS Integers, FiniteSetsExt

(* One request: rows that can be used, none (an empty table, or nothing left  *)
(* of it in the asked range), or an exception or refusal.                     *)
Reply == {"rows", "empty", "error"}
Answers == {"data", "text"}
AnyEnd == Answers \cup {"raise"}

(* The plain method, and the one that catches everything.                     *)
Told(r) == CASE r = "rows" -> "data" [] r = "empty" -> "text" [] r = "error" -> "raise"
Caught(r) == IF r = "rows" THEN "data" ELSE "text"
Ends(End(_)) == {End(r) : r \in Reply}

(* The first of these replies that will do.                                   *)
First(replies, good) ==
  LET hits == {i \in DOMAIN replies : replies[i] \in good}
  IN IF hits = {} THEN "error" ELSE replies[Min(hits)]

-----------------------------------------------------------------------------
(* AkShare.  Prices: an ETF's two sources must bring rows; then Eastmoney     *)
(* twice, Sina and Tencent, the first of which that does not raise is         *)
(* believed, an empty table included.                                         *)
AkPrices(etf, stock) ==
  IF First(etf, {"rows"}) = "rows" THEN "rows" ELSE First(stock, {"rows", "empty"})

(* On a trading day today's row is added, to an empty table too; what goes    *)
(* wrong with it is ignored.                                                  *)
WithToday(found, today) ==
  IF found = "empty" /\ today = "rows" THEN "rows" ELSE found

AkStock == {Told(WithToday(AkPrices(etf, stock), today)) :
              etf \in [1..2 -> Reply], stock \in [1..4 -> Reply], today \in Reply}

(* An indicator that is not known raises before anything is asked for.        *)
Indicators(ends) == ends \cup {"raise"}
AkIndicator == Indicators(AkStock)

(* A profile from either of two sources, or the abstract of the statements.   *)
AkProfile(em, xq, abstract) ==
  IF First(<<em, xq, abstract>>, {"rows"}) = "rows" THEN "data" ELSE "raise"
AkFundamentals == {AkProfile(r[1], r[2], r[3]) : r \in [1..3 -> Reply]}

(* Statements of Sina, else of Tonghuashun; an empty table counts as failed.  *)
AkReport == {IF First(r, {"rows"}) = "rows" THEN "data" ELSE "raise" : r \in [1..2 -> Reply]}

AkNews == Ends(Told)

(* The method takes one argument and is called with three.                    *)
AkGlobal == {"raise"}

(* Holders' transactions have a section of the lock of their own; without     *)
(* rows there follows the company's news, under another.                      *)
AkInsider(section) == IF section = 1 THEN {"data", "raise"} ELSE AkNews

(* Live quotes: Sina's, whose errors look like no quotes; else the table of   *)
(* Eastmoney, in which an unexpected column raises.                           *)
AkQuote(sina, table) ==
  CASE sina = "rows" -> "data"
    [] sina # "rows" /\ table \in Reply -> Caught(table)
    [] sina # "rows" /\ table = "unexpected" -> "raise"
AkQuotes == {AkQuote(s, t) : s \in Reply, t \in Reply \cup {"unexpected"}}

(* Board and individual flows, the top list, the limit-up pool, hot stocks.   *)
AkMood == Ends(Caught)

-----------------------------------------------------------------------------
(* BaoStock: prices and indicators; everything else raises.                   *)
BaoStock == Ends(Told)
BaoIndicator == Indicators(Ends(Told))

-----------------------------------------------------------------------------
(* Investoday.  Without a key everything raises.  A page that cannot be had   *)
(* ends the list, which is then shorter or empty instead of failed.           *)
IvPaged(pages) == IF pages[1] = "rows" THEN "rows" ELSE "empty"
IvLists == {Told(IvPaged(pages)) : pages \in [1..2 -> Reply]}
WithKey(ends) == ends \cup {"raise"}

IvStock == WithKey(IvLists)
IvIndicator == WithKey(Indicators(IvLists))
IvReport == WithKey(IvLists)
IvFundamentals == WithKey(Ends(Told))
IvNews == WithKey(Ends(Told))

(* Macro news; where there are none, for whatever reason, all news.           *)
IvGlobal == WithKey({IF macro = "rows" THEN "data" ELSE Told(all) :
                       macro \in Reply, all \in Reply})

(* No symbol that could be asked for is no quotes; no quote of any is a raise. *)
IvQuotes == WithKey({IF asked = << >> THEN "text"
                     ELSE IF First(asked, {"rows"}) = "rows" THEN "data" ELSE "raise" :
                       asked \in {<< >>} \cup [1..2 -> Reply]})

(* The method takes no date and is called with one.                           *)
IvInsider == {"raise"}

-----------------------------------------------------------------------------
(* Yahoo.  Prices may raise, an empty table is told; an indicator that cannot *)
(* be had in bulk is asked for day by day, each failure being a blank.        *)
YfStock == Ends(Told)
YfIndicator == Indicators({IF bulk = "error" THEN "text" ELSE Caught(bulk) : bulk \in Reply})
YfReport == Ends(Caught)
YfInsider == Ends(Caught)
YfNews == Ends(Caught)

(* One to four queries, until there are articles enough; an error is told.    *)
YfGlobal == {IF "error" \in {q[i] : i \in DOMAIN q} THEN "text"
             ELSE Caught(First(q, {"rows"})) : q \in UNION {[1..n -> Reply] : n \in 1..4}}

-----------------------------------------------------------------------------
(* Alpha Vantage.  No key, a refused request or a rate limit raises; any      *)
(* other body is taken for data.                                              *)
AvRequest == {IF r = "error" THEN "raise" ELSE "data" : r \in Reply}
AvStock == AvRequest
AvReport == AvRequest
AvNews == AvRequest
AvIndicator == Indicators(Ends(Caught))

-----------------------------------------------------------------------------
AkShareEnds ==
  [stock |-> AkStock, indicator |-> AkIndicator,
   fundamentals |-> AkFundamentals, report |-> AkReport, news |-> AkNews,
   global |-> AkGlobal, insider |-> AkInsider(1) \cup AkInsider(2),
   quotes |-> AkQuotes, mood |-> AkMood]
BaoStockEnds ==
  [stock |-> BaoStock, indicator |-> BaoIndicator]
InvestodayEnds ==
  [stock |-> IvStock, indicator |-> IvIndicator,
   fundamentals |-> IvFundamentals, report |-> IvReport, news |-> IvNews,
   global |-> IvGlobal, insider |-> IvInsider, quotes |-> IvQuotes]
YahooEnds ==
  [stock |-> YfStock, indicator |-> YfIndicator, fundamentals |-> YfReport,
   report |-> YfReport, news |-> YfNews, global |-> YfGlobal,
   insider |-> YfInsider]
AlphaVantageEnds ==
  [stock |-> AvStock, indicator |-> AvIndicator, fundamentals |-> AvReport,
   report |-> AvReport, news |-> AvNews, global |-> AvNews,
   insider |-> AvNews]

(* The registered providers in the order the default configuration asks them; *)
(* the placeholder provider is never appended.                                *)
Registry == << [name |-> "akshare", ends |-> AkShareEnds],
               [name |-> "baostock", ends |-> BaoStockEnds],
               [name |-> "investoday", ends |-> InvestodayEnds],
               [name |-> "yfinance", ends |-> YahooEnds],
               [name |-> "alpha_vantage", ends |-> AlphaVantageEnds] >>

(* The vendors that may answer source s, by their places in the registry: one *)
(* that has no such method is skipped, one whose method always raises is      *)
(* passed over at once.                                                       *)
VendorChain(s) ==
  {i \in DOMAIN Registry : s \in DOMAIN Registry[i].ends /\ Registry[i].ends[s] # {"raise"}}
=============================================================================
