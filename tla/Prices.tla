-------------------------------- MODULE Prices --------------------------------
(***************************************************************************)
(* Price hints of the web board (app/questboard.py, _price_for).  Every    *)
(* web process keeps the answers of the market service for a time to live, *)
(* the failures too.  One item is followed: entries of the cache never     *)
(* influence each other.                                                   *)
(*                                                                         *)
(* An entry is kept alike whether it holds prices or the failure to get    *)
(* them, so it is not said which.  Instead of a clock the state holds how  *)
(* long an entry has left to live and how old its prices are, in units of  *)
(* time.  The code keeps an expired entry and ignores it; here it is       *)
(* NoEntry.                                                                *)
(***************************************************************************)
EXTENDS Integers, FiniteSets

CONSTANTS
  Workers,     \* web processes
  TimeToLive,  \* PRICE_TTL_SECONDS
  Asked,       \* bound: the workers that are asked for prices
  MaxFetch     \* the longest a fetch may take (the time limits of its requests)

ASSUME PricesConstants == TimeToLive \in Nat \ {0} /\ MaxFetch \in Nat

VARIABLES
  price,    \* worker -> its entry of _price_cache
  fetches   \* worker -> ages of the fetches its threads have under way

priceVars == <<price, fetches>>

NoEntry == [left |-> 0, age |-> 0]

PricesTypeOK ==
  /\ price \in [Workers -> [left : 0..TimeToLive, age : 0..(TimeToLive + MaxFetch)]]
  /\ fetches \in [Workers -> SUBSET (0..MaxFetch)]

PricesInit ==
  /\ price = [w \in Workers |-> NoEntry]
  /\ fetches = [w \in Workers |-> {}]

\* Mutant: the time to live starts when the answer is there.
LeftFromTheAnswer(started) == TimeToLive

\* now is read before the fetch, the entry expires at now + PRICE_TTL_SECONDS.
Left(started) == IF started < TimeToLive THEN TimeToLive - started ELSE 0

\* A page asks; without a live entry the thread goes out to the wiki and the market.
StartFetch(w) ==
  /\ w \in Asked
  /\ price[w].left = 0
  /\ fetches' = [fetches EXCEPT ![w] = @ \cup {0}]
  /\ UNCHANGED price

\* The answer, as old as the market's side of the fetch, replaces whatever is there;
\* None, for an unknown item or a failed request, is kept as well.
StorePrice(w, started) ==
  /\ started \in fetches[w]
  /\ fetches' = [fetches EXCEPT ![w] = @ \ {started}]
  /\ \E age \in 0..started :
       price' = [price EXCEPT ![w] =
                   IF Left(started) = 0 THEN NoEntry
                   ELSE [left |-> Left(started), age |-> age]]

\* Mutant: an entry lives on past its end.
OlderForever(entry) == [entry EXCEPT !.left = @ - 1]

Older(entry) == IF entry.left <= 1 THEN NoEntry
                ELSE [entry EXCEPT !.left = @ - 1, !.age = @ + 1]

\* A unit of time passes; no fetch outlasts its time limits.
TimePasses ==
  /\ \A w \in Workers : MaxFetch \notin fetches[w]
  /\ price' = [w \in Workers |-> Older(price[w])]
  /\ fetches' = [w \in Workers |-> {started + 1 : started \in fetches[w]}]

\* A worker that is restarted has neither cache nor threads.
ForgetPrices(w) ==
  /\ price' = [price EXCEPT ![w] = NoEntry]
  /\ fetches' = [fetches EXCEPT ![w] = {}]

PricesNext ==
  \/ \E w \in Workers : StartFetch(w)
  \/ \E w \in Workers, started \in 0..MaxFetch : StorePrice(w, started)
  \/ TimePasses

\* A price is never shown that is as old as the time to live: the slow part of a fetch
\* counts against the entry, also when a slower fetch of another thread overwrites it.
PriceIsFresh == \A w \in Workers : price[w].left > 0 => price[w].age < TimeToLive
===============================================================================
