----------------------------- MODULE BoardWatchProofs -----------------------------
(***************************************************************************)
(* What BoardWatch promises for any number of workers, pages, changes and  *)
(* restarts: prices are fresh, an edit covers the change it was made for,  *)
(* and no counter, page or stream is ahead of the database.                *)
(***************************************************************************)
EXTENDS BoardWatch, FiniteSetTheorems, TLAPS

---------------------------------------------------------------------------
(* The invariant, one part for each group of variables                     *)

\* What an entry has left and how old it is never exceed the time to live together.
PriceInv ==
  /\ price \in [Workers -> [left : Nat, age : Nat]]
  /\ fetches \in [Workers -> SUBSET (0..MaxFetch)]
  /\ \A w \in Workers : price[w].left > 0 => price[w].left + price[w].age <= TimeToLive

\* The change of a refresh was committed before.
RefreshInv ==
  /\ changes \in Nat
  /\ refreshes \subseteq [change : Nat, at : {"fetching", "editing"}, embed : Nat]
  /\ \A r \in refreshes : r.change <= changes /\ (r.at = "editing" => r.embed >= r.change)

\* Counters count, and a stream runs in a worker.
StreamInv ==
  /\ changes \in Nat
  /\ counter \in [Workers -> Nat]
  /\ unbumped \in [Workers -> SUBSET Changes]
  /\ stream \in [StreamIds -> [on : Workers \cup {Nobody}, seen : Nat, to : Browsers \cup {Nobody}]]
  /\ \A i \in StreamIds : stream[i] # NoStream => stream[i].on \in Workers

---------------------------------------------------------------------------
(* Prices                                                                  *)

LEMMA PriceAtFirst == Init => PriceInv
BY DEF Init, PricesInit, PriceInv, NoEntry

LEMMA FetchStarts ==
  ASSUME PriceInv, NEW w \in Workers, StartFetch(w)
  PROVE  PriceInv'
BY PricesConstants DEF StartFetch, PriceInv

LEMMA FetchStored ==
  ASSUME PriceInv, NEW w \in Workers, NEW started \in 0..MaxFetch, StorePrice(w, started)
  PROVE  PriceInv'
<1>1. PICK age \in 0..started :
        price' = [price EXCEPT ![w] = IF Left(started) = 0 THEN NoEntry
                                      ELSE [left |-> Left(started), age |-> age]]
  BY DEF StorePrice
<1> DEFINE entry == IF Left(started) = 0 THEN NoEntry ELSE [left |-> Left(started), age |-> age]
<1>2. TimeToLive \in Nat /\ started \in Nat /\ age \in Nat /\ age <= started /\ Left(started) \in Nat
  BY PricesConstants DEF Left
<1>3. entry \in [left : Nat, age : Nat]
  BY <1>2 DEF NoEntry
<1>4. entry.left > 0 => entry.left + entry.age <= TimeToLive
  BY <1>2 DEF NoEntry, Left
<1> HIDE DEF entry
<1>5. price' = [price EXCEPT ![w] = entry]
  BY <1>1 DEF entry
<1>6. price' \in [Workers -> [left : Nat, age : Nat]]
  BY <1>3, <1>5 DEF PriceInv
<1>7. \A v \in Workers : price'[v].left > 0 => price'[v].left + price'[v].age <= TimeToLive
  BY <1>4, <1>5 DEF PriceInv
<1>8. fetches' \in [Workers -> SUBSET (0..MaxFetch)]
  BY DEF StorePrice, PriceInv
<1> QED
  BY <1>6, <1>7, <1>8 DEF PriceInv

LEMMA TimePassed ==
  ASSUME PriceInv, TimePasses
  PROVE  PriceInv'
<1>1. ASSUME NEW w \in Workers
      PROVE  /\ Older(price[w]) \in [left : Nat, age : Nat]
             /\ Older(price[w]).left > 0 => Older(price[w]).left + Older(price[w]).age <= TimeToLive
  <2>1. /\ price[w].left \in Nat /\ price[w].age \in Nat
        /\ price[w].left > 0 => price[w].left + price[w].age <= TimeToLive
    BY DEF PriceInv
  <2>2. CASE price[w].left <= 1
    BY <2>2 DEF Older, NoEntry
  <2>3. CASE ~ (price[w].left <= 1)
    <3>1. Older(price[w]) = [left |-> price[w].left - 1, age |-> price[w].age + 1]
      BY <2>3 DEF Older, PriceInv
    <3> QED
      BY <2>1, <2>3, <3>1, PricesConstants
  <2> QED
    BY <2>2, <2>3
<1>2. ASSUME NEW w \in Workers, NEW started \in fetches[w]
      PROVE  started + 1 \in 0..MaxFetch
  <2>1. started \in 0..MaxFetch
    BY DEF PriceInv
  <2>2. started # MaxFetch
    BY DEF TimePasses
  <2> QED
    BY <2>1, <2>2, PricesConstants
<1>3. fetches' \in [Workers -> SUBSET (0..MaxFetch)]
  BY <1>2 DEF TimePasses
<1>4. price' = [w \in Workers |-> Older(price[w])]
  BY DEF TimePasses
<1> QED
  BY <1>1, <1>3, <1>4 DEF PriceInv

LEMMA PricesForgotten ==
  ASSUME PriceInv, NEW w \in Workers, ForgetPrices(w)
  PROVE  PriceInv'
BY DEF ForgetPrices, PriceInv, NoEntry

LEMMA PriceStays == PriceInv /\ [Next]_vars => PriceInv'
<1> SUFFICES ASSUME PriceInv, [Next]_vars PROVE PriceInv'
  OBVIOUS
<1>1. CASE UNCHANGED priceVars
  BY <1>1 DEF priceVars, PriceInv
<1>2. ASSUME NEW w \in Workers, AskPrice(w)
      PROVE  PriceInv'
  BY <1>2, FetchStarts DEF AskPrice
<1>3. ASSUME NEW w \in Workers, NEW started \in 0..MaxFetch, PriceAnswered(w, started)
      PROVE  PriceInv'
  BY <1>3, FetchStored DEF PriceAnswered
<1>4. CASE Tick
  BY <1>4, TimePassed DEF Tick
<1>5. ASSUME NEW w \in Workers, RestartWorker(w)
      PROVE  PriceInv'
  BY <1>5, PricesForgotten DEF RestartWorker
<1>6. ASSUME NEW b \in Browsers, LoadPage(b) \/ Connect(b) \/ Reload(b) \/ Leave(b) \/ Drop(b)
      PROVE  UNCHANGED priceVars
  BY <1>6 DEF LoadPage, Connect, Reload, Leave, Drop, priceVars
<1>7. ASSUME NEW w \in Workers, Commit(w) \/ \E c \in Changes : Bump(w, c)
      PROVE  UNCHANGED priceVars
  BY <1>7 DEF Commit, Bump, priceVars
<1>8. ASSUME NEW i \in StreamIds, Poll(i)
      PROVE  UNCHANGED priceVars
  BY <1>8 DEF Poll, priceVars
<1>9. CASE CreateFromBot \/ PostStarter \/ StoreThread \/ ChangeFromBot \/ RestartBot
  BY <1>1, <1>9 DEF CreateFromBot, PostStarter, StoreThread, ChangeFromBot, RestartBot, priceVars
<1>10. ASSUME NEW r \in refreshes, MessageFetched(r) \/ MessageEdited(r)
       PROVE  UNCHANGED priceVars
  BY <1>10 DEF MessageFetched, MessageEdited, priceVars
<1>11. CASE UNCHANGED vars
  BY <1>1, <1>11 DEF vars, priceVars
<1> QED
  BY <1>1, <1>2, <1>3, <1>4, <1>5, <1>6, <1>7, <1>8, <1>9, <1>10, <1>11 DEF Next

\* _price_for takes the time before it asks the market: no price that is shown is as old
\* as the time to live, however long the fetch took and whichever fetch stored last.
THEOREM PricesAreFresh == Spec => []PriceIsFresh
<1>1. PriceInv => PriceIsFresh
  <2> SUFFICES ASSUME PriceInv, NEW w \in Workers, price[w].left > 0
               PROVE  price[w].age < TimeToLive
    BY DEF PriceIsFresh
  <2>1. price[w].left \in Nat /\ price[w].age \in Nat /\ price[w].left + price[w].age <= TimeToLive
    BY DEF PriceInv
  <2> QED
    BY <2>1, PricesConstants
<1> QED
  BY PriceAtFirst, PriceStays, <1>1, PTL DEF Spec

---------------------------------------------------------------------------
(* Edits of the message                                                    *)

LEMMA RefreshAtFirst == Init => RefreshInv
BY DEF Init, RefreshInv

LEMMA BotChanged ==
  ASSUME RefreshInv, ChangeFromBot
  PROVE  RefreshInv'
<1>1. changes' = changes + 1 /\ changes \in Nat
  BY DEF ChangeFromBot, RefreshInv
<1>2. \A r \in refreshes' : r \in refreshes \/ r = Refresh(changes + 1, "fetching", 0)
  BY DEF ChangeFromBot
<1> QED
  BY <1>1, <1>2 DEF RefreshInv, Refresh

LEMMA EmbedFetched ==
  ASSUME RefreshInv, NEW r \in refreshes, MessageFetched(r)
  PROVE  RefreshInv'
<1>1. r.change \in Nat /\ r.change <= changes /\ changes \in Nat /\ changes' = changes
  BY DEF RefreshInv, MessageFetched
<1>2. \A s \in refreshes' : s \in refreshes \/ s = Refresh(r.change, "editing", changes)
  BY DEF MessageFetched, Embedded
<1> QED
  BY <1>1, <1>2 DEF RefreshInv, Refresh

LEMMA RefreshStays == RefreshInv /\ [Next]_vars => RefreshInv'
<1> SUFFICES ASSUME RefreshInv, [Next]_vars PROVE RefreshInv'
  OBVIOUS
<1>1. CASE UNCHANGED changes /\ refreshes' \subseteq refreshes
  BY <1>1 DEF RefreshInv
<1>2. CASE changes' = changes + 1 /\ refreshes' = refreshes
  BY <1>2 DEF RefreshInv
<1>3. ASSUME NEW b \in Browsers, LoadPage(b) \/ Connect(b) \/ Reload(b) \/ Leave(b) \/ Drop(b)
      PROVE  RefreshInv'
  BY <1>1, <1>3 DEF LoadPage, Connect, Reload, Leave, Drop
<1>4. ASSUME NEW w \in Workers, Commit(w)
      PROVE  RefreshInv'
  BY <1>2, <1>4 DEF Commit
<1>5. ASSUME NEW w \in Workers, RestartWorker(w) \/ AskPrice(w) \/ (\E c \in Changes : Bump(w, c))
      PROVE  RefreshInv'
  BY <1>1, <1>5 DEF RestartWorker, AskPrice, boardVars, Bump
<1>6. ASSUME NEW w \in Workers, NEW started \in 0..MaxFetch, PriceAnswered(w, started)
      PROVE  RefreshInv'
  BY <1>1, <1>6 DEF PriceAnswered, boardVars
<1>7. ASSUME NEW i \in StreamIds, Poll(i)
      PROVE  RefreshInv'
  BY <1>1, <1>7 DEF Poll
<1>8. CASE CreateFromBot
  BY <1>2, <1>8 DEF CreateFromBot
<1>9. CASE PostStarter \/ StoreThread \/ RestartBot
  BY <1>1, <1>9 DEF PostStarter, StoreThread, RestartBot
<1>10. ASSUME NEW r \in refreshes, MessageEdited(r)
       PROVE  RefreshInv'
  BY <1>1, <1>10 DEF MessageEdited
<1>11. CASE Tick
  BY <1>1, <1>11 DEF Tick, boardVars
<1>12. CASE UNCHANGED vars
  BY <1>1, <1>12 DEF vars, boardVars
<1> QED
  BY <1>3, <1>4, <1>5, <1>6, <1>7, <1>8, <1>9, <1>10, <1>11, <1>12, BotChanged, EmbedFetched DEF Next

\* refresh_quest_message builds the embed after the message was fetched: what the edit
\* carries is never older than the change it was made for.
THEOREM EditsCover == Spec => []EditCoversItsChange
<1>1. RefreshInv => EditCoversItsChange
  BY DEF RefreshInv, EditCoversItsChange
<1> QED
  BY RefreshAtFirst, RefreshStays, <1>1, PTL DEF Spec

---------------------------------------------------------------------------
(* Streams                                                                 *)

LEMMA StreamAtFirst == Init => StreamInv
BY DEF Init, StreamInv, NoStream

LEMMA StreamConnected ==
  ASSUME StreamInv, NEW b \in Browsers, Connect(b)
  PROVE  StreamInv'
<1>1. PICK w \in Workers, i \in StreamIds :
        stream' = [stream EXCEPT ![i] = [on |-> w, seen |-> counter[w], to |-> b]]
  BY DEF Connect, Baseline
<1>2. UNCHANGED <<changes, counter, unbumped>>
  BY DEF Connect
<1> DEFINE new == [on |-> w, seen |-> counter[w], to |-> b]
<1>3. new \in [on : Workers \cup {Nobody}, seen : Nat, to : Browsers \cup {Nobody}]
  BY DEF StreamInv
<1>4. new.on = w
  OBVIOUS
<1> HIDE DEF new
<1>5. stream' = [stream EXCEPT ![i] = new]
  BY <1>1 DEF new
<1> QED
  BY <1>2, <1>3, <1>4, <1>5 DEF StreamInv

LEMMA ChangeCommitted ==
  ASSUME StreamInv, NEW w \in Workers, Commit(w)
  PROVE  StreamInv'
<1>1. /\ changes \in Nat /\ changes' = changes + 1 /\ changes + 1 \in Changes
      /\ unbumped' = [unbumped EXCEPT ![w] = @ \cup {changes + 1}]
      /\ UNCHANGED <<counter, stream>>
  BY BoardWatchConstants DEF Commit, StreamInv, Changes
<1> QED
  BY <1>1 DEF StreamInv

LEMMA ChangeBumped ==
  ASSUME StreamInv, NEW w \in Workers, NEW c \in Changes, Bump(w, c)
  PROVE  StreamInv'
<1>1. /\ c \in unbumped[w]
      /\ counter' = [counter EXCEPT ![w] = @ + 1]
      /\ unbumped' = [unbumped EXCEPT ![w] = @ \ {c}]
      /\ UNCHANGED <<changes, stream>>
  BY DEF Bump
<1>2. counter' \in [Workers -> Nat] /\ unbumped' \in [Workers -> SUBSET Changes]
  BY <1>1 DEF StreamInv
<1> QED
  BY <1>1, <1>2 DEF StreamInv

LEMMA StreamPolled ==
  ASSUME StreamInv, NEW i \in StreamIds, Poll(i)
  PROVE  StreamInv'
<1>1. UNCHANGED <<changes, counter, unbumped>> /\ stream[i] # NoStream
  BY DEF Poll
<1>2. stream[i].on \in Workers /\ counter[stream[i].on] \in Nat
  BY <1>1 DEF StreamInv
<1>3. CASE stream' = [stream EXCEPT ![i] = NoStream]
  BY <1>1, <1>3 DEF StreamInv, NoStream
<1>4. CASE stream' = [stream EXCEPT ![i].seen = counter[stream[i].on]]
  <2>1. \A j \in StreamIds : j # i => stream'[j] = stream[j]
    BY <1>4 DEF StreamInv
  <2>2. stream'[i].on = stream[i].on
    BY <1>4 DEF StreamInv
  <2>3. stream' \in [StreamIds -> [on : Workers \cup {Nobody}, seen : Nat, to : Browsers \cup {Nobody}]]
    BY <1>2, <1>4 DEF StreamInv
  <2> QED
    BY <1>1, <1>2, <2>1, <2>2, <2>3 DEF StreamInv
<1> QED
  BY <1>3, <1>4 DEF Poll

\* A page that goes away leaves its stream as it was, to nobody.
LEMMA StreamAbandoned ==
  ASSUME StreamInv, NEW b, stream' = Abandoned(b), UNCHANGED <<changes, counter, unbumped>>
  PROVE  StreamInv'
<1>1. \A i \in StreamIds : stream'[i] = stream[i] \/ stream'[i] = [stream[i] EXCEPT !.to = Nobody]
  BY DEF Abandoned
<1>2. \A i \in StreamIds :
        /\ stream'[i] \in [on : Workers \cup {Nobody}, seen : Nat, to : Browsers \cup {Nobody}]
        /\ stream'[i].on = stream[i].on
        /\ stream[i] = NoStream => stream'[i] = NoStream
  <2> SUFFICES ASSUME NEW i \in StreamIds
               PROVE  /\ stream'[i] \in [on : Workers \cup {Nobody}, seen : Nat, to : Browsers \cup {Nobody}]
                      /\ stream'[i].on = stream[i].on
                      /\ stream[i] = NoStream => stream'[i] = NoStream
    OBVIOUS
  <2>1. stream[i] \in [on : Workers \cup {Nobody}, seen : Nat, to : Browsers \cup {Nobody}]
    BY DEF StreamInv
  <2>2. CASE stream'[i] = stream[i]
    BY <2>1, <2>2
  <2>3. CASE stream'[i] = [stream[i] EXCEPT !.to = Nobody]
    <3>1. stream'[i] = [on |-> stream[i].on, seen |-> stream[i].seen, to |-> Nobody]
      BY <2>1, <2>3
    <3> QED
      BY <2>1, <3>1 DEF NoStream
  <2> QED
    BY <1>1, <2>2, <2>3
<1>3. stream' = [i \in StreamIds |-> stream'[i]]
  BY DEF Abandoned
<1>4. stream' \in [StreamIds -> [on : Workers \cup {Nobody}, seen : Nat, to : Browsers \cup {Nobody}]]
  BY <1>2, <1>3
<1> QED
  BY <1>2, <1>4 DEF StreamInv

LEMMA WorkerRestarted ==
  ASSUME StreamInv, NEW w \in Workers, RestartWorker(w)
  PROVE  StreamInv'
<1>1. /\ counter' = [counter EXCEPT ![w] = 0]
      /\ unbumped' = [unbumped EXCEPT ![w] = {}]
      /\ stream' = [i \in StreamIds |-> IF stream[i].on = w THEN NoStream ELSE stream[i]]
      /\ UNCHANGED changes
  BY DEF RestartWorker
<1>2. \A i \in StreamIds : stream'[i] # NoStream => stream'[i] = stream[i] /\ stream[i].on # w
  BY <1>1
<1>3. stream' \in [StreamIds -> [on : Workers \cup {Nobody}, seen : Nat, to : Browsers \cup {Nobody}]]
  BY <1>1 DEF StreamInv, NoStream
<1> QED
  BY <1>1, <1>2, <1>3 DEF StreamInv

LEMMA StreamStays == StreamInv /\ [Next]_vars => StreamInv'
<1> SUFFICES ASSUME StreamInv, [Next]_vars PROVE StreamInv'
  OBVIOUS
<1>1. CASE UNCHANGED <<changes, counter, unbumped, stream>>
  BY <1>1 DEF StreamInv
<1>3. ASSUME NEW b \in Browsers, LoadPage(b)
      PROVE  StreamInv'
  BY <1>1, <1>3 DEF LoadPage
<1>4. ASSUME NEW b \in Browsers, Reload(b) \/ Leave(b) \/ Drop(b)
      PROVE  StreamInv'
  BY <1>4, StreamAbandoned DEF Reload, Leave, Drop
<1>5. CASE CreateFromBot \/ ChangeFromBot
  <2>1. changes' = changes + 1 /\ UNCHANGED <<counter, unbumped, stream>>
    BY <1>5 DEF CreateFromBot, ChangeFromBot
  <2> QED
    BY <2>1 DEF StreamInv
<1>6. CASE PostStarter \/ StoreThread \/ RestartBot
  BY <1>1, <1>6 DEF PostStarter, StoreThread, RestartBot
<1>7. ASSUME NEW r \in refreshes, MessageFetched(r) \/ MessageEdited(r)
      PROVE  StreamInv'
  BY <1>1, <1>7 DEF MessageFetched, MessageEdited
<1>8. ASSUME NEW w \in Workers, AskPrice(w)
      PROVE  StreamInv'
  BY <1>1, <1>8 DEF AskPrice, boardVars
<1>9. ASSUME NEW w \in Workers, NEW started \in 0..MaxFetch, PriceAnswered(w, started)
      PROVE  StreamInv'
  BY <1>1, <1>9 DEF PriceAnswered, boardVars
<1>10. CASE Tick
  BY <1>1, <1>10 DEF Tick, boardVars
<1>11. CASE UNCHANGED vars
  BY <1>1, <1>11 DEF vars, boardVars
<1> QED
  BY <1>3, <1>4, <1>5, <1>6, <1>7, <1>8, <1>9, <1>10, <1>11, StreamConnected, ChangeCommitted,
     ChangeBumped, StreamPolled, WorkerRestarted DEF Next

---------------------------------------------------------------------------
(* Type correctness                                                        *)

\* The counter of a worker and the changes it has yet to count come from changes that were
\* committed: no counter runs ahead of the database.
BumpsCounted ==
  \A w \in Workers : counter[w] + Cardinality(unbumped[w]) <= changes

\* The cache: an entry that has run out is gone, and one that has not is as PriceInv says.
LEMMA PricesTyped ==
  ASSUME PriceInv, \A w \in Workers : price[w].left = 0 => price[w] = NoEntry
  PROVE  PricesTypeOK
<1>1. ASSUME NEW w \in Workers
      PROVE  price[w] \in [left : 0..TimeToLive, age : 0..(TimeToLive + MaxFetch)]
  <2>1. /\ price[w] \in [left : Nat, age : Nat]
        /\ price[w].left > 0 => price[w].left + price[w].age <= TimeToLive
        /\ TimeToLive \in Nat /\ MaxFetch \in Nat
    BY PricesConstants DEF PriceInv
  <2>2. CASE price[w] = NoEntry
    BY <2>1, <2>2 DEF NoEntry
  <2>3. CASE price[w].left > 0
    BY <2>1, <2>3
  <2>. QED BY <2>1, <2>2, <2>3
<1>. QED BY <1>1 DEF PriceInv, PricesTypeOK

SpentIsGone == \A w \in Workers : price[w].left = 0 => price[w] = NoEntry

LEMMA SpentNext == PriceInv /\ SpentIsGone /\ [Next]_vars => SpentIsGone'
<1> SUFFICES ASSUME PriceInv, SpentIsGone, [Next]_vars PROVE SpentIsGone'
  OBVIOUS
<1>0. price \in [Workers -> [left : Nat, age : Nat]]
  BY DEF PriceInv
<1>1. CASE UNCHANGED price
  BY <1>1 DEF SpentIsGone
<1>2. ASSUME NEW w \in Workers, NEW started \in 0..MaxFetch, PriceAnswered(w, started)
      PROVE  SpentIsGone'
  <2>1. PICK age \in 0..started :
          price' = [price EXCEPT ![w] = IF Left(started) = 0 THEN NoEntry
                                        ELSE [left |-> Left(started), age |-> age]]
    BY <1>2 DEF PriceAnswered, StorePrice
  <2>. QED BY <2>1, <1>0 DEF SpentIsGone, NoEntry
<1>3. CASE Tick
  <2>1. ASSUME NEW w \in Workers, Older(price[w]).left = 0
        PROVE  Older(price[w]) = NoEntry
    <3>1. price[w] \in [left : Nat, age : Nat]
      BY <1>0
    <3>2. CASE price[w].left <= 1
      BY <3>2 DEF Older
    <3>3. CASE ~(price[w].left <= 1)
      <4>1. Older(price[w]).left = price[w].left - 1
        BY <3>1, <3>3 DEF Older
      <4>. QED BY <2>1, <3>1, <3>3, <4>1
    <3>. QED BY <3>2, <3>3
  <2>2. price' = [w \in Workers |-> Older(price[w])]
    BY <1>3 DEF Tick, TimePasses
  <2>. QED BY <2>1, <2>2 DEF SpentIsGone
<1>4. ASSUME NEW w \in Workers, RestartWorker(w) PROVE SpentIsGone'
  BY <1>0, <1>4 DEF RestartWorker, ForgetPrices, SpentIsGone, NoEntry
<1>5. \/ UNCHANGED price
      \/ \E w \in Workers, started \in 0..MaxFetch : PriceAnswered(w, started)
      \/ Tick
      \/ \E w \in Workers : RestartWorker(w)
  BY DEF Next, LoadPage, Connect, Reload, Leave, Drop, Commit, AskPrice, StartFetch, Bump, Poll,
         CreateFromBot, PostStarter, StoreThread, ChangeFromBot, RestartBot, MessageFetched,
         MessageEdited, vars, priceVars
<1>. QED BY <1>1, <1>2, <1>3, <1>4, <1>5

LEMMA UnbumpedFinite == StreamInv => \A w \in Workers : IsFiniteSet(unbumped[w])
<1>1. IsFiniteSet(1..MaxChanges)
  <2>1. 1 \in Int /\ MaxChanges \in Int
    BY BoardWatchConstants
  <2>. QED BY <2>1, FS_Interval
<1>. QED BY <1>1, FS_Subset DEF StreamInv, Changes

LEMMA BumpsCountedNext == StreamInv /\ BumpsCounted /\ [Next]_vars => BumpsCounted'
<1> SUFFICES ASSUME StreamInv, BumpsCounted, [Next]_vars PROVE BumpsCounted'
  OBVIOUS
<1>0. /\ changes \in Nat /\ counter \in [Workers -> Nat] /\ unbumped \in [Workers -> SUBSET Changes]
      /\ \A w \in Workers : /\ IsFiniteSet(unbumped[w])
                            /\ Cardinality(unbumped[w]) \in Nat
                            /\ counter[w] + Cardinality(unbumped[w]) <= changes
  BY UnbumpedFinite, FS_CardinalityType DEF StreamInv, BumpsCounted
<1>1. CASE changes' \in {changes, changes + 1} /\ UNCHANGED <<counter, unbumped>>
  BY <1>0, <1>1 DEF BumpsCounted
<1>2. ASSUME NEW w \in Workers, Commit(w) PROVE BumpsCounted'
  <2>1. /\ changes' = changes + 1 /\ counter' = counter
        /\ unbumped' = [unbumped EXCEPT ![w] = @ \cup {changes + 1}]
    BY <1>2 DEF Commit
  <2>2. Cardinality(unbumped[w] \cup {changes + 1}) \in {Cardinality(unbumped[w]), Cardinality(unbumped[w]) + 1}
    BY <1>0, FS_AddElement
  <2>3. ASSUME NEW v \in Workers PROVE counter'[v] + Cardinality(unbumped'[v]) <= changes'
    BY <1>0, <2>1, <2>2
  <2>. QED BY <2>3 DEF BumpsCounted
<1>3. ASSUME NEW w \in Workers, NEW c \in Changes, Bump(w, c) PROVE BumpsCounted'
  <2>1. /\ changes' = changes /\ c \in unbumped[w]
        /\ counter' = [counter EXCEPT ![w] = @ + 1]
        /\ unbumped' = [unbumped EXCEPT ![w] = @ \ {c}]
    BY <1>3 DEF Bump
  <2>2. Cardinality(unbumped[w] \ {c}) = Cardinality(unbumped[w]) - 1
    BY <1>0, <2>1, FS_RemoveElement
  <2>3. ASSUME NEW v \in Workers PROVE counter'[v] + Cardinality(unbumped'[v]) <= changes'
    BY <1>0, <2>1, <2>2
  <2>. QED BY <2>3 DEF BumpsCounted
<1>4. ASSUME NEW w \in Workers, RestartWorker(w) PROVE BumpsCounted'
  <2>1. /\ changes' = changes
        /\ counter' = [counter EXCEPT ![w] = 0] /\ unbumped' = [unbumped EXCEPT ![w] = {}]
    BY <1>4 DEF RestartWorker
  <2>2. ASSUME NEW v \in Workers PROVE counter'[v] + Cardinality(unbumped'[v]) <= changes'
    BY <1>0, <2>1, FS_EmptySet
  <2>. QED BY <2>2 DEF BumpsCounted
<1>5. \/ changes' \in {changes, changes + 1} /\ UNCHANGED <<counter, unbumped>>
      \/ \E w \in Workers : Commit(w) \/ RestartWorker(w)
      \/ \E w \in Workers : \E c \in Changes : Bump(w, c)
  BY DEF Next, LoadPage, Connect, Reload, Leave, Drop, AskPrice, PriceAnswered, Tick, Poll,
         CreateFromBot, PostStarter, StoreThread, ChangeFromBot, RestartBot, MessageFetched,
         MessageEdited, vars, boardVars
<1>. QED BY <1>1, <1>2, <1>3, <1>4, <1>5

\* What is neither a price, a stream nor a counter.
BoardType ==
  /\ changes \in 0..MaxChanges
  /\ page \in [Browsers -> [at : {"loading", "open", "signalled"}, shown : 0..MaxChanges]]
  /\ thread \in {"none", "posting", "threading", "stored", "lost"}
  /\ message \in 0..MaxChanges
  /\ refreshes \subseteq [change : Changes, at : {"fetching", "editing"}, embed : 0..MaxChanges]
  /\ restarts \in 0..MaxRestarts

LEMMA BoardTypeNext == BoardType /\ [Next]_vars => BoardType'
<1> SUFFICES ASSUME BoardType, [Next]_vars PROVE BoardType'
  OBVIOUS
<1> USE DEF BoardType
<1>0. MaxChanges \in Nat /\ MaxRestarts \in Nat /\ changes \in Nat /\ restarts \in Nat
  BY BoardWatchConstants
<1>1. CASE UNCHANGED <<changes, page, thread, message, refreshes, restarts>>
  BY <1>1
<1>2. ASSUME NEW b \in Browsers, LoadPage(b) \/ Reload(b) \/ Leave(b) PROVE BoardType'
  BY <1>2 DEF LoadPage, Reload, Leave
<1>3. ASSUME NEW w \in Workers, Commit(w) PROVE BoardType'
  BY <1>0, <1>3 DEF Commit
<1>4. ASSUME NEW w \in Workers, RestartWorker(w) PROVE BoardType'
  BY <1>0, <1>4 DEF RestartWorker
<1>5. ASSUME NEW i \in StreamIds, Poll(i) PROVE BoardType'
  BY <1>5 DEF Poll
<1>6. CASE CreateFromBot \/ PostStarter \/ StoreThread
  BY <1>0, <1>6 DEF CreateFromBot, PostStarter, StoreThread
<1>7. CASE ChangeFromBot
  <2>1. changes' = changes + 1 /\ changes + 1 \in 0..MaxChanges /\ changes + 1 \in Changes
    BY <1>0, <1>7 DEF ChangeFromBot, Changes
  <2>2. \A r \in refreshes' : r \in refreshes \/ r = Refresh(changes + 1, "fetching", 0)
    BY <1>7 DEF ChangeFromBot
  <2>. QED BY <1>0, <1>7, <2>1, <2>2 DEF ChangeFromBot, Refresh
<1>8. CASE RestartBot
  BY <1>0, <1>8 DEF RestartBot
<1>9. ASSUME NEW r \in refreshes, MessageFetched(r) PROVE BoardType'
  <2>1. \A s \in refreshes' : s \in refreshes \/ s = Refresh(r.change, "editing", changes)
    BY <1>9 DEF MessageFetched, Embedded
  <2>. QED BY <1>9, <2>1 DEF MessageFetched, Refresh
<1>10. ASSUME NEW r \in refreshes, MessageEdited(r) PROVE BoardType'
  BY <1>10 DEF MessageEdited
<1>11. ASSUME NEW b \in Browsers, Connect(b) \/ Drop(b) PROVE BoardType'
  BY <1>1, <1>11 DEF Connect, Drop
<1>12. ASSUME NEW w \in Workers, AskPrice(w) \/ (\E c \in Changes : Bump(w, c)) PROVE BoardType'
  BY <1>1, <1>12 DEF AskPrice, boardVars, Bump
<1>13. ASSUME NEW w \in Workers, NEW started \in 0..MaxFetch, PriceAnswered(w, started)
       PROVE  BoardType'
  BY <1>1, <1>13 DEF PriceAnswered, boardVars
<1>14. CASE Tick \/ UNCHANGED vars
  BY <1>1, <1>14 DEF Tick, vars, boardVars
<1>. QED
  BY <1>2, <1>3, <1>4, <1>5, <1>6, <1>7, <1>8, <1>9, <1>10, <1>11, <1>12, <1>13, <1>14 DEF Next

\* A stream has seen no more than its worker's counter ever was.
SeenBounded == \A i \in StreamIds : stream[i].seen \in 0..MaxChanges

LEMMA CounterBounded ==
  StreamInv /\ BoardType /\ BumpsCounted => \A w \in Workers : counter[w] \in 0..MaxChanges
<1> SUFFICES ASSUME StreamInv, BoardType, BumpsCounted, NEW w \in Workers
             PROVE  counter[w] \in 0..MaxChanges
  OBVIOUS
<1>1. Cardinality(unbumped[w]) \in Nat /\ counter[w] \in Nat
  BY UnbumpedFinite, FS_CardinalityType DEF StreamInv
<1>2. counter[w] + Cardinality(unbumped[w]) <= changes /\ changes \in 0..MaxChanges /\ MaxChanges \in Nat
  BY BoardWatchConstants DEF BumpsCounted, BoardType
<1>. QED BY <1>1, <1>2

LEMMA SeenNext ==
  StreamInv /\ BoardType /\ BumpsCounted /\ SeenBounded /\ [Next]_vars => SeenBounded'
<1> SUFFICES ASSUME StreamInv, BoardType, BumpsCounted, SeenBounded, [Next]_vars
             PROVE  SeenBounded'
  OBVIOUS
<1>0. /\ \A w \in Workers : counter[w] \in 0..MaxChanges
      /\ stream \in [StreamIds -> [on : Workers \cup {Nobody}, seen : Nat, to : Browsers \cup {Nobody}]]
      /\ NoStream.seen \in 0..MaxChanges
  BY CounterBounded, BoardWatchConstants DEF StreamInv, NoStream
<1>1. CASE UNCHANGED stream
  BY <1>1 DEF SeenBounded
<1>2. ASSUME NEW b \in Browsers, Connect(b) PROVE SeenBounded'
  <2>1. PICK w \in Workers, i \in StreamIds :
          stream' = [stream EXCEPT ![i] = [on |-> w, seen |-> counter[w], to |-> b]]
    BY <1>2 DEF Connect, Baseline
  <2>. QED BY <1>0, <2>1 DEF SeenBounded
<1>3. ASSUME NEW b \in Browsers, stream' = Abandoned(b) PROVE SeenBounded'
  <2>1. ASSUME NEW i \in StreamIds PROVE stream'[i].seen = stream[i].seen
    <3>1. stream'[i] = stream[i] \/ stream'[i] = [stream[i] EXCEPT !.to = Nobody]
      BY <1>3 DEF Abandoned
    <3>. QED BY <1>0, <3>1
  <2>. QED BY <2>1 DEF SeenBounded
<1>4. ASSUME NEW i \in StreamIds, Poll(i) PROVE SeenBounded'
  <2>1. stream[i] # NoStream /\ stream[i].on \in Workers
    BY <1>4 DEF Poll, StreamInv
  <2>2. CASE stream' = [stream EXCEPT ![i] = NoStream]
    BY <1>0, <2>2 DEF SeenBounded
  <2>3. CASE stream' = [stream EXCEPT ![i].seen = counter[stream[i].on]]
    BY <1>0, <2>1, <2>3 DEF SeenBounded
  <2>. QED BY <1>4, <2>2, <2>3 DEF Poll
<1>5. ASSUME NEW w \in Workers, RestartWorker(w) PROVE SeenBounded'
  BY <1>0, <1>5 DEF RestartWorker, SeenBounded
<1>6. \/ UNCHANGED stream
      \/ \E b \in Browsers : Connect(b) \/ stream' = Abandoned(b)
      \/ \E i \in StreamIds : Poll(i)
      \/ \E w \in Workers : RestartWorker(w)
  BY DEF Next, LoadPage, Reload, Leave, Drop, Commit, AskPrice, PriceAnswered, Tick, Bump,
         CreateFromBot, PostStarter, StoreThread, ChangeFromBot, RestartBot, MessageFetched,
         MessageEdited, vars, boardVars
<1>. QED BY <1>1, <1>2, <1>3, <1>4, <1>5, <1>6

\* No counter, page, stream or edit is ever ahead of the changes that were committed, and
\* no price outlives its time.
THEOREM TypeCorrect == Spec => []TypeOK
<1>1. Init => SpentIsGone /\ BumpsCounted /\ BoardType /\ SeenBounded
  <2> SUFFICES ASSUME Init PROVE SpentIsGone /\ BumpsCounted /\ BoardType /\ SeenBounded
    OBVIOUS
  <2>1. 0 \in 0..MaxChanges /\ 0 \in 0..MaxRestarts
    BY BoardWatchConstants
  <2>2. SpentIsGone /\ BoardType /\ SeenBounded
    BY <2>1 DEF Init, PricesInit, SpentIsGone, BoardType, SeenBounded, NoStream
  <2>3. BumpsCounted
    BY FS_EmptySet DEF Init, BumpsCounted
  <2>. QED BY <2>2, <2>3
<1>2. PriceInv /\ SpentIsGone /\ StreamInv /\ BumpsCounted /\ BoardType /\ SeenBounded => TypeOK
  <2> SUFFICES ASSUME PriceInv, SpentIsGone, StreamInv, BumpsCounted, BoardType, SeenBounded
               PROVE  TypeOK
    OBVIOUS
  <2>1. PricesTypeOK
    BY PricesTyped DEF SpentIsGone
  <2>2. counter \in [Workers -> 0..MaxChanges]
    BY CounterBounded DEF StreamInv
  <2>3. stream \in [StreamIds -> [on : Workers \cup {Nobody}, seen : 0..MaxChanges, to : Browsers \cup {Nobody}]]
    <3>1. ASSUME NEW i \in StreamIds
          PROVE  stream[i] \in [on : Workers \cup {Nobody}, seen : 0..MaxChanges, to : Browsers \cup {Nobody}]
      BY DEF StreamInv, SeenBounded
    <3>. QED BY <3>1 DEF StreamInv
  <2>. QED BY <2>1, <2>2, <2>3 DEF StreamInv, BoardType, TypeOK
<1>. QED
  BY <1>1, <1>2, PriceAtFirst, PriceStays, StreamAtFirst, StreamStays, SpentNext, BumpsCountedNext,
     BoardTypeNext, SeenNext, PTL DEF Spec
===================================================================================
