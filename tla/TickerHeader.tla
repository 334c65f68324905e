---------------------------- MODULE TickerHeader ----------------------------
(***************************************************************************)
(* One ticker's price, and everything shown beside it.  FMP's quote is     *)
(* cached with the other answers; a nightly job caches the last official   *)
(* close in a row of its own.  The page's header prefers the quote, the    *)
(* P/E prefers the close, the Valuation reads the quote once more, and the *)
(* stored score row puts the close over all of it at the end: each read is *)
(* of its own transaction, with calls of FMP in between, so the job can    *)
(* land among them.                                                        *)
(*                                                                         *)
(* Odd moments are inside a trading session, even ones after its close; a  *)
(* quote or a close is known by its moment, 0 when there is none, and the  *)
(* company has one share.  What the statements say (EPS, currencies, fair  *)
(* value) is given.                                                        *)
(***************************************************************************)
EXTENDS Integers

CONSTANTS
    Companies,             \* records [eps, adr, ownPe, fair]; 0 is none
    Prices,                \* Prices[m]: the market's price at moment m
    LastMoment,            \* bound: the moments looked at
    cache_staleness,       \* moments after which a cached quote is old
    profile_staleness      \* the same of a cached profile

VARIABLES
    desk,                  \* what happens: the moment, the group, the job, the compute
    shelf                  \* what is stored: FMP's quote and profile, the close

headerVars == <<desk, shelf>>

None == 0
PriceAt(m) == IF m = None THEN None ELSE Prices[m]

\* The ways get_summary is called: for the page, by the nightly fetch, by GET /score, and
\* with cache_only by the recompute and by the Watchlist.
Modes == {"page", "nightly", "score", "recompute", "watch"}
CacheOnly(mode) == mode \in {"recompute", "watch"}
Scored(mode) == mode \in {"score", "recompute", "watch"}

Blank(mode, pc, listed) ==
    [mode |-> mode, pc |-> pc, listed |-> listed, named |-> None, quote |-> None,
     price |-> None, cap |-> None, pe |-> None, verdict |-> "none", split |-> FALSE]

InitHeader ==
    /\ desk \in [moment : {1}, live : {TRUE}, company : Companies, job : {None}, task : {Blank("page", "idle", None)}]
    /\ shelf = [quote |-> None, close |-> None, profile |-> [is |-> "none", at |-> None]]

-----------------------------------------------------------------------------
\* What a quote read can leave in the cache and give its caller.  A call that fails
\* writes nothing and is read as nothing (safe_fetch).
Cached(at) == {[kept |-> at, read |-> at]}
Called(at) == Cached(desk.moment) \union {[kept |-> at, read |-> None]}

GetOrFetch(mode, at) ==
    IF CacheOnly(mode) \/ ~desk.live \/ (at # None /\ desk.moment - at < cache_staleness)
    THEN Cached(at)
    ELSE Called(at)

ForceFetch(at) == IF desk.live THEN Called(at) ELSE Cached(at)

\* compute_trailing_pe: a loss has no P/E, an ADR has FMP's own.
TrailingPe(company, price) ==
    CASE company.adr                       -> company.ownPe
      [] company.eps <= 0 \/ price = None  -> None
      [] OTHER                             -> price \div company.eps

\* classify_valuation_verdict: ten per cent to either side of the fair value.
Verdict(price, fair) ==
    CASE price = None \/ fair = None -> "none"
      [] 10 * price <= 9 * fair      -> "undervalued"
      [] 10 * price >= 11 * fair     -> "overvalued"
      [] OTHER                       -> "fair"

\* The cap left at the quote's, beside the close: a slip.
QuotesCap(close, price, cap) == cap

\* _screener_price_and_market_cap, _screener_valuation_verdict: the row follows the close.
RowPrice(close, price) == IF close = None THEN price ELSE close
RowCap(close, price, cap) == IF close = None \/ price = None THEN cap ELSE (cap * close) \div price
RowVerdict(close, fair, verdict) == IF close = None \/ fair = None THEN verdict ELSE Verdict(close, fair)

-----------------------------------------------------------------------------
task == desk.task
At(pc) == task.pc = pc
Becomes(t) == desk' = [desk EXCEPT !.task = t]
Close == PriceAt(shelf.close)

\* get_summary is entered; get_watchlist_rows has read the list's closes before it.
Begin(mode) ==
    /\ task.pc \in {"idle", "done", "lost"}
    /\ Becomes(Blank(mode, "profile", IF mode = "watch" THEN Close ELSE None))
    /\ UNCHANGED shelf

\* The profile, the first read of all.  FMP's answer may be the profile, an empty list
\* (there is no such ticker) or a failure; only the empty list ends a page here.
Profiled(profile) ==
    /\ shelf' = [shelf EXCEPT !.profile = profile]
    /\ Becomes([task EXCEPT !.pc = IF profile.is = "empty" /\ ~CacheOnly(task.mode) THEN "lost" ELSE "quote",
                            !.named = IF profile.is = "known" THEN profile.at ELSE None])

ReadProfile ==
    /\ At("profile")
    /\ LET fresh == shelf.profile.is # "none" /\ desk.moment - shelf.profile.at < profile_staleness IN
       IF fresh \/ CacheOnly(task.mode) \/ ~desk.live
       THEN Profiled(shelf.profile)
       ELSE \/ \E is \in {"known", "empty"} : Profiled([is |-> is, at |-> desk.moment])
            \/ Becomes([task EXCEPT !.pc = "quote"]) /\ UNCHANGED shelf

\* The close only when the group is off: a slip.
OverrideWhenOff ==
    /\ At("quote")
    /\ \E got \in IF task.mode \in {"page", "score"} THEN ForceFetch(shelf.quote) ELSE GetOrFetch(task.mode, shelf.quote) :
         /\ shelf' = [shelf EXCEPT !.quote = got.kept]
         /\ Becomes([task EXCEPT !.pc = "pe", !.quote = got.read,
                                 !.price = IF ~CacheOnly(task.mode) /\ ~desk.live /\ Close # None THEN Close ELSE PriceAt(got.read),
                                 !.cap = PriceAt(IF got.read # None THEN got.read ELSE task.named)])

\* The quote; with none to be had, or the group off, the close stands in for its price.
\* The market cap stays the quote's own, or the profile's.
ReadQuote ==
    /\ At("quote")
    /\ \E got \in IF task.mode \in {"page", "score"} THEN ForceFetch(shelf.quote) ELSE GetOrFetch(task.mode, shelf.quote) :
         LET overridden == ~CacheOnly(task.mode) /\ (~desk.live \/ got.read = None) /\ Close # None IN
         /\ shelf' = [shelf EXCEPT !.quote = got.kept]
         /\ Becomes([task EXCEPT !.pc = "pe", !.quote = got.read,
                                 !.price = IF overridden THEN Close ELSE PriceAt(got.read),
                                 !.cap = PriceAt(IF got.read # None THEN got.read ELSE task.named)])

\* The P/E off whatever price the header shows: a slip.
PeOfTheHeader ==
    /\ At("pe")
    /\ Becomes([task EXCEPT !.pc = "value", !.pe = TrailingPe(desk.company, task.price)])
    /\ UNCHANGED shelf

\* After the other answers have been awaited: the P/E, off the close or else the price.
ReadPe ==
    /\ At("pe")
    /\ Becomes([task EXCEPT !.pc = "value", !.pe = TrailingPe(desk.company, RowPrice(Close, task.price))])
    /\ UNCHANGED shelf

\* get_active_valuation compares the fair value with a quote it reads itself; the page's
\* answer is complete with it.
ReadValuation ==
    /\ At("value")
    /\ \E got \in GetOrFetch(task.mode, shelf.quote) :
         /\ shelf' = [shelf EXCEPT !.quote = got.kept]
         /\ Becomes([task EXCEPT !.pc = IF Scored(task.mode) THEN "row" ELSE "done",
                                 !.verdict = Verdict(PriceAt(got.read), desk.company.fair)])

\* The end of compute_ticker_score: no row without a profile, else the last close once
\* more, put over the price, the market cap and the verdict.
WriteRow ==
    /\ At("row")
    /\ Becomes(IF task.named = None
               THEN [task EXCEPT !.pc = "lost"]
               ELSE [task EXCEPT !.pc = "done",
                                 !.price = RowPrice(Close, task.price),
                                 !.cap = RowCap(Close, task.price, task.cap),
                                 !.verdict = RowVerdict(Close, desk.company.fair, task.verdict)])
    /\ UNCHANGED shelf

\* refresh_last_closes: FMP has the close of the last session that had ended when the job
\* looked, or still only the one before; the row is written when the answer is there.
Closes(m) == {c \in {2 * (m \div 2), 2 * (m \div 2) - 2} : c > 0}

FetchClose ==
    /\ desk.job = None
    /\ \E c \in Closes(desk.moment) : desk' = [desk EXCEPT !.job = c]
    /\ UNCHANGED shelf

UpsertClose ==
    /\ desk.job # None
    /\ shelf' = [shelf EXCEPT !.close = desk.job]
    /\ desk' = [desk EXCEPT !.job = None, !.task = [@ EXCEPT !.split = TRUE]]

\* Time passes; the profile_quote group is switched.
TimePasses ==
    /\ desk.moment < LastMoment
    /\ desk' = [desk EXCEPT !.moment = @ + 1]
    /\ UNCHANGED shelf

SwitchGroup == desk' = [desk EXCEPT !.live = ~@] /\ UNCHANGED shelf

NextHeader ==
    \/ \E mode \in Modes : Begin(mode)
    \/ ReadProfile \/ ReadQuote \/ ReadPe \/ ReadValuation \/ WriteRow
    \/ FetchClose \/ UpsertClose
    \/ TimePasses \/ SwitchGroup

HeaderSpec == InitHeader /\ [][NextHeader]_headerVars

-----------------------------------------------------------------------------
HeaderTypeOK ==
    /\ desk.moment \in 1 .. LastMoment /\ desk.live \in BOOLEAN /\ desk.company \in Companies
    /\ desk.job \in 0 .. desk.moment
    /\ shelf.quote \in 0 .. desk.moment /\ shelf.close \in 0 .. desk.moment
    /\ shelf.profile \in [is : {"none", "known", "empty"}, at : 0 .. desk.moment]
    /\ task.pc \in {"idle", "profile", "quote", "pe", "value", "row", "done", "lost"}
    /\ task.mode \in Modes /\ task.verdict \in {"none", "undervalued", "fair", "overvalued"}

Made == At("done") /\ Scored(task.mode)

\* Unless the job's row lands in the middle of the compute, one price stands behind the
\* stored Quote, the P/E and the Watchlist's own price column.
OnePrice ==
    Made /\ ~task.split =>
        /\ task.pe = TrailingPe(desk.company, task.price)
        /\ task.listed # None => task.price = task.listed

\* A row made from the cache alone has the market cap of the price it shows, at one share
\* that price, as long as there was a quote to scale; whatever lands in between.
CapOfThePrice == Made /\ CacheOnly(task.mode) /\ task.quote # None => task.cap = task.price

\* With a close stored, the verdict of a row is the one its own Quote column gives, though
\* the valuation went by another quote.
VerdictOfThePrice ==
    Made /\ desk.company.fair # None /\ shelf.close # None /\ ~task.split =>
        task.verdict = Verdict(task.price, desk.company.fair)

\* The page has a price whenever a close was stored before it was asked for, group off,
\* FMP down or not.
HeaderNeverBlank ==
    At("done") /\ ~task.split /\ shelf.close # None /\ ~CacheOnly(task.mode) => task.price # None

\* Only an empty answer of FMP's makes a page "not found": an outage never does.
OutageIsNotAbsence == At("lost") /\ task.mode \in {"page", "nightly"} => shelf.profile.is = "empty"

HeaderHolds == OnePrice /\ CapOfThePrice /\ VerdictOfThePrice /\ HeaderNeverBlank /\ OutageIsNotAbsence
=============================================================================
