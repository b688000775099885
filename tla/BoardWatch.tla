------------------------------ MODULE BoardWatch ------------------------------
(***************************************************************************)
(* How a change of the quest board reaches those who look at it.  A web    *)
(* process commits the change, then moves its own change counter           *)
(* (core/questdb.py); an event stream polls the counter of the process it  *)
(* runs in and tells its page to reload (app/questboard.py).  The bot      *)
(* edits the message of the quest's thread after its own commands          *)
(* (bot/questboard.py).                                                    *)
(*                                                                         *)
(* Changes are numbered as they commit.  What a page, an embed or the      *)
(* message shows is the number up to which it certainly shows the changes: *)
(* the last one committed when the first of its reads began.  The counter  *)
(* of the bot is read by nobody and left out.                              *)
(***************************************************************************)
EXTENDS Prices

CONSTANTS
  Slots,        \* worker -> requests it serves at a time; 1 is gunicorn's sync worker
  Browsers,     \* pages on which the board is open or opened again
  MaxStreams,   \* bound: streams at a time, abandoned ones included
  MaxChanges,   \* bound: changes of the board
  MaxRestarts   \* bound: restarts of web workers and of the bot

ASSUME BoardWatchConstants ==
  /\ Slots \in [Workers -> Nat \ {0}]
  /\ {MaxStreams, MaxChanges, MaxRestarts} \subseteq Nat

VARIABLES
  changes,    \* changes committed to the database
  counter,    \* worker -> _change_version
  unbumped,   \* worker -> changes committed by requests that have yet to move it
  page,       \* browser -> what it shows
  stream,     \* stream id -> the generator behind GET /quests/api/stream
  thread,     \* how far ensure_thread has come
  message,    \* what the message in the thread shows
  refreshes,  \* refresh_quest_message calls under way
  restarts    \* restarts so far

boardVars == <<changes, counter, unbumped, page, stream, thread, message, refreshes, restarts>>

vars == <<boardVars, priceVars>>

Nobody == "nobody"

NoStream == [on |-> Nobody, seen |-> 0, to |-> Nobody]

Changes == 1..MaxChanges

StreamIds == 1..MaxStreams

Refresh(change, at, embed) == [change |-> change, at |-> at, embed |-> embed]

TypeOK ==
  /\ PricesTypeOK
  /\ changes \in 0..MaxChanges
  /\ counter \in [Workers -> 0..MaxChanges]
  /\ unbumped \in [Workers -> SUBSET Changes]
  /\ page \in [Browsers -> [at : {"loading", "open", "signalled"}, shown : 0..MaxChanges]]
  /\ stream \in [StreamIds -> [on : Workers \cup {Nobody}, seen : 0..MaxChanges, to : Browsers \cup {Nobody}]]
  /\ thread \in {"none", "posting", "threading", "stored", "lost"}
  /\ message \in 0..MaxChanges
  /\ refreshes \subseteq [change : Changes, at : {"fetching", "editing"}, embed : 0..MaxChanges]
  /\ restarts \in 0..MaxRestarts

\* The quest that is followed on Discord is yet to be created, or has its thread.
Init ==
  /\ PricesInit
  /\ changes = 0
  /\ counter = [w \in Workers |-> 0]
  /\ unbumped = [w \in Workers |-> {}]
  /\ page = [b \in Browsers |-> [at |-> "loading", shown |-> 0]]
  /\ stream = [i \in StreamIds |-> NoStream]
  /\ thread \in {"none", "stored"}
  /\ message = 0
  /\ refreshes = {}
  /\ restarts = 0

---------------------------------------------------------------------------
(* The web processes                                                       *)

StreamsOn(w) == {i \in StreamIds : stream[i].on = w}

StreamsTo(b) == {i \in StreamIds : stream[i].to = b}

Busy(w) == Cardinality(StreamsOn(w)) + Cardinality(unbumped[w]) + Cardinality(fetches[w])

\* A stream keeps its worker's slot, also while it sleeps between two polls.
Free(w) == Busy(w) < Slots[w]

\* GET /quests/ or /quests/<id>.  The first read decides what is certainly shown.
LoadPage(b) ==
  /\ page[b].at = "loading"
  /\ \E w \in Workers : Free(w)
  /\ page' = [page EXCEPT ![b] = [at |-> "open", shown |-> changes]]
  /\ UNCHANGED <<changes, counter, unbumped, stream, thread, message, refreshes, restarts, priceVars>>

\* Mutant: the baseline is taken at the first poll, after what is under way.
LazyBaseline(w) == counter[w] + Cardinality(unbumped[w])

\* seen = change_version(), when the generator is first asked.
Baseline(w) == counter[w]

\* EventSource connects, and connects again after its connection was lost; the page
\* is not loaded again.
Connect(b) ==
  /\ page[b].at = "open"
  /\ StreamsTo(b) = {}
  /\ \E w \in Workers, i \in StreamIds :
       /\ Free(w)
       /\ \A j \in 1..i : (j < i) = (stream[j] # NoStream)
       /\ stream' = [stream EXCEPT ![i] = [on |-> w, seen |-> Baseline(w), to |-> b]]
  /\ UNCHANGED <<changes, counter, unbumped, page, thread, message, refreshes, restarts, priceVars>>

\* Any call of the board's API that changes a quest: add_pledge, turn_in and the rest
\* commit, then _bump_change_version.
Commit(w) ==
  /\ Free(w)
  /\ changes < MaxChanges
  /\ changes' = changes + 1
  /\ unbumped' = [unbumped EXCEPT ![w] = @ \cup {changes + 1}]
  /\ UNCHANGED <<counter, page, stream, thread, message, refreshes, restarts, priceVars>>

Bump(w, c) ==
  /\ c \in unbumped[w]
  /\ counter' = [counter EXCEPT ![w] = @ + 1]
  /\ unbumped' = [unbumped EXCEPT ![w] = @ \ {c}]
  /\ UNCHANGED <<changes, page, stream, thread, message, refreshes, restarts, priceVars>>

Moved(i) == counter[stream[i].on] # stream[i].seen

\* The generator wakes up and finds the counter moved: it writes the event.  Only now
\* it notices that nobody listens any more, and ends.
Poll(i) ==
  /\ stream[i] # NoStream
  /\ Moved(i)
  /\ IF stream[i].to = Nobody
     THEN /\ stream' = [stream EXCEPT ![i] = NoStream]
          /\ UNCHANGED page
     ELSE /\ stream' = [stream EXCEPT ![i].seen = counter[stream[i].on]]
          /\ page' = [page EXCEPT ![stream[i].to].at = "signalled"]
  /\ UNCHANGED <<changes, counter, unbumped, thread, message, refreshes, restarts, priceVars>>

Abandoned(b) == [i \in StreamIds |-> IF stream[i].to = b THEN [stream[i] EXCEPT !.to = Nobody] ELSE stream[i]]

\* location.reload().  The page gives up its stream; the worker does not know.
Reload(b) ==
  /\ page[b].at = "signalled"
  /\ page' = [page EXCEPT ![b].at = "loading"]
  /\ stream' = Abandoned(b)
  /\ UNCHANGED <<changes, counter, unbumped, thread, message, refreshes, restarts, priceVars>>

\* The user opens another page of the board.
Leave(b) ==
  /\ page[b].at = "open"
  /\ page' = [page EXCEPT ![b].at = "loading"]
  /\ stream' = Abandoned(b)
  /\ UNCHANGED <<changes, counter, unbumped, thread, message, refreshes, restarts, priceVars>>

\* The connection breaks.
Drop(b) ==
  /\ StreamsTo(b) # {}
  /\ stream' = Abandoned(b)
  /\ UNCHANGED <<changes, counter, unbumped, page, thread, message, refreshes, restarts, priceVars>>

\* A worker is restarted: by gunicorn, after thirty seconds on one request, or after a
\* crash.  Counter, cache, streams and requests of that process are gone.
RestartWorker(w) ==
  /\ restarts < MaxRestarts
  /\ restarts' = restarts + 1
  /\ counter' = [counter EXCEPT ![w] = 0]
  /\ unbumped' = [unbumped EXCEPT ![w] = {}]
  /\ stream' = [i \in StreamIds |-> IF stream[i].on = w THEN NoStream ELSE stream[i]]
  /\ ForgetPrices(w)
  /\ UNCHANGED <<changes, page, thread, message, refreshes>>

---------------------------------------------------------------------------
(* The bot                                                                 *)

\* /quest-create: the quest is stored and its embed built, then the message awaited.
CreateFromBot ==
  /\ thread = "none"
  /\ changes < MaxChanges
  /\ changes' = changes + 1
  /\ thread' = "posting"
  /\ message' = changes + 1
  /\ UNCHANGED <<counter, unbumped, page, stream, refreshes, restarts, priceVars>>

\* channel.send has ended; it may have failed, or the channel is not configured.
PostStarter ==
  /\ thread = "posting"
  /\ thread' \in {"threading", "lost"}
  /\ UNCHANGED <<changes, counter, unbumped, page, stream, message, refreshes, restarts, priceVars>>

\* create_thread has ended, and both ids are stored in one transaction.
StoreThread ==
  /\ thread = "threading"
  /\ thread' \in {"stored", "lost"}
  /\ UNCHANGED <<changes, counter, unbumped, page, stream, message, refreshes, restarts, priceVars>>

\* A pledge through the modal or /quest-close: the change commits, then
\* refresh_quest_message looks up the message unless no ids are stored.
ChangeFromBot ==
  /\ changes < MaxChanges
  /\ changes' = changes + 1
  /\ refreshes' = IF thread = "stored"
                  THEN refreshes \cup {Refresh(changes + 1, "fetching", 0)}
                  ELSE refreshes
  /\ UNCHANGED <<counter, unbumped, page, stream, thread, message, restarts, priceVars>>

\* Mutant: the embed of the moment before the change, carried over the await.
EmbeddedEarly(r) == r.change - 1

\* What build_quest_embed reads for the refresh r.
Embedded(r) == changes

\* fetch_message has ended: the embed is built from what the database holds now and the
\* edit sent, or the message was not found and the refresh ends.
MessageFetched(r) ==
  /\ r \in refreshes
  /\ r.at = "fetching"
  /\ \/ refreshes' = (refreshes \ {r}) \cup {Refresh(r.change, "editing", Embedded(r))}
     \/ refreshes' = refreshes \ {r}
  /\ UNCHANGED <<changes, counter, unbumped, page, stream, thread, message, restarts, priceVars>>

\* Discord applies the edit, in any order with other edits, or refuses it (logged only).
MessageEdited(r) ==
  /\ r \in refreshes
  /\ r.at = "editing"
  /\ refreshes' = refreshes \ {r}
  /\ message' \in {r.embed, message}
  /\ UNCHANGED <<changes, counter, unbumped, page, stream, thread, restarts, priceVars>>

\* The bot is restarted: what it awaited is forgotten.  A starter message whose ids were
\* not stored stays behind, and nothing ever calls ensure_thread for the quest again.
RestartBot ==
  /\ restarts < MaxRestarts
  /\ restarts' = restarts + 1
  /\ refreshes' = {}
  /\ thread' = IF thread \in {"posting", "threading"} THEN "lost" ELSE thread
  /\ UNCHANGED <<changes, counter, unbumped, page, stream, message, priceVars>>

---------------------------------------------------------------------------

\* GET /quests/api/price/<item>, answered by the cache or by a fetch.
AskPrice(w) ==
  /\ Free(w)
  /\ StartFetch(w)
  /\ UNCHANGED boardVars

PriceAnswered(w, started) ==
  /\ StorePrice(w, started)
  /\ UNCHANGED boardVars

Tick ==
  /\ TimePasses
  /\ UNCHANGED boardVars

Next ==
  \/ \E b \in Browsers : LoadPage(b) \/ Connect(b) \/ Reload(b) \/ Leave(b) \/ Drop(b)
  \/ \E w \in Workers : Commit(w) \/ RestartWorker(w) \/ AskPrice(w)
  \/ \E w \in Workers, c \in Changes : Bump(w, c)
  \/ \E w \in Workers, started \in 0..MaxFetch : PriceAnswered(w, started)
  \/ \E i \in StreamIds : Poll(i)
  \/ CreateFromBot \/ PostStarter \/ StoreThread \/ ChangeFromBot \/ RestartBot
  \/ \E r \in refreshes : MessageFetched(r) \/ MessageEdited(r)
  \/ Tick

Spec == Init /\ [][Next]_vars

\* Requests under way end, streams poll, and pages told to reload do so and are served.
\* Nobody has to open a board, to connect a stream or to change a quest.
Fairness ==
  /\ \A w \in Workers, c \in Changes : WF_vars(Bump(w, c))
  /\ \A i \in StreamIds : WF_vars(Poll(i))
  /\ \A b \in Browsers : WF_vars(Reload(b)) /\ WF_vars(LoadPage(b))

FairSpec == Spec /\ Fairness

---------------------------------------------------------------------------
(* Properties                                                              *)

Streaming(b, w) == \E i \in StreamIds : stream[i].to = b /\ stream[i].on = w

\* The page stays open without a stream: what changed meanwhile it will not be told.
Disconnected(b) == page[b].at = "open" /\ StreamsTo(b) = {}

\* A change that commits in the process a page's stream runs in, while the stream is
\* there, comes to be shown on that page, unless the stream is lost first: not by way of
\* a reload between the commit and the bump that shows the old state and leaves nothing
\* to be told (core/questdb.py bumps after the commit), and not by a baseline taken too
\* late (_sse_events).
ChangeReachesPage ==
  \A b \in Browsers, c \in Changes :
    (\E w \in Workers : c \in unbumped[w] /\ Streaming(b, w)) ~> (page[b].shown >= c \/ Disconnected(b))

\* app/templates/questboard.html, "reload the board whenever any quest changes": a page
\* with a stream comes to show every change that commits from then on, whichever process
\* it commits in, unless the stream is lost first.
EveryChangeReachesPage ==
  \A b \in Browsers, c \in Changes :
    (StreamsTo(b) # {} /\ changes < c /\ <>(changes >= c)) ~> (page[b].shown >= c \/ Disconnected(b))

\* An edit under way shows the change it was made for, and so does the message when it
\* arrives, whatever was committed while the bot awaited the message
\* (refresh_quest_message).
EditCoversItsChange ==
  \A r \in refreshes : r.at = "editing" => r.embed >= r.change
===============================================================================
