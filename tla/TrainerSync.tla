------------------------------ MODULE TrainerSync ------------------------------
(***************************************************************************)
(* Training history between the browser (static/trainer/js) and the        *)
(* account of one signed-in user (app/trainer).  A tab keeps the finished  *)
(* sessions in memory and in localStorage until "Save to account" has sent *)
(* them; what the account holds comes back as counters.                    *)
(*                                                                         *)
(* Sessions are numbered as they finish, so the list a tab keeps is in the *)
(* order of these numbers and is modelled as their set.  Counters are      *)
(* modelled as the set of the sessions they were summed over.  The files   *)
(* and the choices that travel with a save are left out.                   *)
(***************************************************************************)
EXTENDS Integers, FiniteSets

CONSTANTS
  Tabs,             \* browser pages of the user
  Browsers,         \* each with its own localStorage
  BrowserOf,        \* tab -> browser
  MaxKept,          \* sessions localStorage keeps (MAX_SESSIONS)
  MaxPerSave,       \* sessions a save may carry (MAX_SESSIONS_PER_SAVE)
  MaxAttempts,      \* attempts a save stores (MAX_ATTEMPTS_PER_SAVE)
  Attempts,         \* attempts of a session
  MaxFinished,      \* bound: sessions ever finished
  MaxStray,         \* bound: requests whose sender has stopped listening
  DrillWhileSaving  \* whether a session may finish while its tab is saving

ASSUME TrainerConstants ==
  /\ BrowserOf \in [Tabs -> Browsers]
  /\ {MaxKept, MaxPerSave, MaxAttempts, Attempts, MaxFinished, MaxStray} \subseteq Nat
  /\ DrillWhileSaving \in BOOLEAN

VARIABLES
  tab,      \* tab -> its state
  disk,     \* browser -> localStorage
  save,     \* tab -> its POST /trainer/api/save, as far as it got
  load,     \* tab -> its GET /trainer/api/state
  stray,    \* batches of requests on the way to the server that nobody waits for
  rows,     \* session -> rows of it in the account
  profile,  \* the account has a profile row
  home      \* finished session -> the browser it was finished in

vars == <<tab, disk, save, load, stray, rows, profile, home>>

SessionIds == 1..MaxFinished

Closed == [open |-> FALSE]

NoCall == [at |-> "none"]

Failed == [at |-> "failed"]

Finished == DOMAIN home

\* What the statistics of the account count.
Counted == {s \in SessionIds : rows[s] > 0}

Newer(S, s) == {r \in S : r > s}

\* The slice localStorage keeps.
Kept(S) == {s \in S : Cardinality(Newer(S, s)) < MaxKept}

\* The server walks the batch from its oldest session until it has attempts enough.
Accepted(batch) ==
  {s \in batch : Cardinality({r \in batch : r < s}) * Attempts < MaxAttempts}

\* Mutant: INSERT without OR IGNORE.
InsertedAgain(n) == n + 1

\* INSERT OR IGNORE.
Inserted(n) == IF n = 0 THEN 1 ELSE n

\* save_sessions, one transaction.
Stored(batch) == [s \in SessionIds |-> IF s \in Accepted(batch) THEN Inserted(rows[s]) ELSE rows[s]]

Init ==
  /\ tab = [t \in Tabs |-> Closed]
  /\ disk = [b \in Browsers |-> [sessions |-> {}, remote |-> {}]]
  /\ save = [t \in Tabs |-> NoCall]
  /\ load = [t \in Tabs |-> NoCall]
  /\ stray = {}
  /\ rows = [s \in SessionIds |-> 0]
  /\ profile = FALSE
  /\ home = [s \in {} |-> 0]

-----------------------------------------------------------------------------
(* The page *)

Open(t) ==
  /\ ~ tab[t].open
  /\ tab' = [tab EXCEPT ![t] = [open     |-> TRUE,
                                sessions |-> disk[BrowserOf[t]].sessions,
                                remote   |-> disk[BrowserOf[t]].remote,
                                syncing  |-> FALSE]]
  /\ UNCHANGED <<disk, save, load, stray, rows, profile, home>>

\* finishSession: the tab's own list goes to localStorage, whatever is there.
Finish(t) ==
  LET s    == Cardinality(Finished) + 1
      kept == tab[t].sessions \cup {s}
  IN  /\ tab[t].open
      /\ s <= MaxFinished   \* bound
      /\ tab[t].syncing => DrillWhileSaving
      /\ tab' = [tab EXCEPT ![t].sessions = kept]
      /\ disk' = [disk EXCEPT ![BrowserOf[t]].sessions = Kept(kept)]
      /\ home' = [r \in Finished \cup {s} |-> IF r = s THEN BrowserOf[t] ELSE home[r]]
      /\ UNCHANGED <<save, load, stray, rows, profile>>

\* saveToAccount up to its await: the batch is what the tab has at this moment.
SaveStart(t) ==
  /\ tab[t].open /\ ~ tab[t].syncing
  /\ tab' = [tab EXCEPT ![t].syncing = TRUE]
  /\ save' = [save EXCEPT ![t] = [at |-> "sent", batch |-> tab[t].sessions]]
  /\ UNCHANGED <<disk, load, stray, rows, profile, home>>

\* ... and after it: the whole list is cleared, in memory and in localStorage.
SaveDone(t) ==
  /\ save[t].at = "ok"
  /\ tab' = [tab EXCEPT ![t].sessions = {}, ![t].remote = save[t].stats, ![t].syncing = FALSE]
  /\ disk' = [disk EXCEPT ![BrowserOf[t]] = [sessions |-> {}, remote |-> save[t].stats]]
  /\ save' = [save EXCEPT ![t] = NoCall]
  /\ UNCHANGED <<load, stray, rows, profile, home>>

\* Mutants: the catch clause does not take syncing back, or the list is cleared there too.
SaveFailedStuck(t) ==
  /\ save[t].at = "failed"
  /\ save' = [save EXCEPT ![t] = NoCall]
  /\ UNCHANGED <<tab, disk, load, stray, rows, profile, home>>

SaveFailedClears(t) ==
  /\ save[t].at = "failed"
  /\ tab' = [tab EXCEPT ![t].sessions = {}, ![t].syncing = FALSE]
  /\ disk' = [disk EXCEPT ![BrowserOf[t]].sessions = {}]
  /\ save' = [save EXCEPT ![t] = NoCall]
  /\ UNCHANGED <<load, stray, rows, profile, home>>

\* The catch clause.
SaveFailed(t) ==
  /\ save[t].at = "failed"
  /\ tab' = [tab EXCEPT ![t].syncing = FALSE]
  /\ save' = [save EXCEPT ![t] = NoCall]
  /\ UNCHANGED <<disk, load, stray, rows, profile, home>>

\* loadFromAccount does not set syncing: a save may start before it is answered.
LoadStart(t) ==
  /\ tab[t].open /\ ~ tab[t].syncing
  /\ stray = {} /\ \A u \in Tabs : load[u] = NoCall   \* bound: one load at a time, no stray yet
  /\ load' = [load EXCEPT ![t] = [at |-> "sent"]]
  /\ UNCHANGED <<tab, disk, save, stray, rows, profile, home>>

LoadDone(t) ==
  /\ load[t].at = "ok"
  /\ tab' = [tab EXCEPT ![t].remote = load[t].stats]
  /\ disk' = [disk EXCEPT ![BrowserOf[t]].remote = load[t].stats]
  /\ load' = [load EXCEPT ![t] = NoCall]
  /\ UNCHANGED <<save, stray, rows, profile, home>>

\* No profile yet, an error, or the user declines.
LoadDropped(t) ==
  /\ load[t] # NoCall
  /\ load' = [load EXCEPT ![t] = NoCall]
  /\ UNCHANGED <<tab, disk, save, stray, rows, profile, home>>

\* The page is closed or reloaded; a request already sent goes on without it.
Close(t) ==
  /\ tab[t].open
  /\ LET orphan == IF save[t].at \in {"sent", "profile"} THEN {save[t].batch} ELSE {}
     IN  /\ Cardinality(stray \cup orphan) <= MaxStray   \* bound
         /\ stray' = stray \cup orphan
  /\ tab' = [tab EXCEPT ![t] = Closed]
  /\ save' = [save EXCEPT ![t] = NoCall]
  /\ load' = [load EXCEPT ![t] = NoCall]
  /\ UNCHANGED <<disk, rows, profile, home>>

-----------------------------------------------------------------------------
(* The server and the connection *)

\* _sessions raises: more sessions than a save may carry.
Refuse(t) ==
  /\ save[t].at = "sent"
  /\ Cardinality(save[t].batch) > MaxPerSave
  /\ save' = [save EXCEPT ![t] = Failed]
  /\ UNCHANGED <<tab, disk, load, stray, rows, profile, home>>

\* The handler makes two transactions and then reads the counters.
SaveProfile(t) ==
  /\ save[t].at = "sent"
  /\ Cardinality(save[t].batch) <= MaxPerSave
  /\ profile' = TRUE
  /\ save' = [save EXCEPT ![t].at = "profile"]
  /\ UNCHANGED <<tab, disk, load, stray, rows, home>>

SaveSessions(t) ==
  /\ save[t].at = "profile"
  /\ rows' = Stored(save[t].batch)
  /\ save' = [save EXCEPT ![t].at = "stored"]
  /\ UNCHANGED <<tab, disk, load, stray, profile, home>>

\* Mutant: the counters are read before the sessions are stored.
AnswerSaveEarly(t) ==
  /\ save[t].at = "profile"
  /\ save' = [save EXCEPT ![t] = [at |-> "ok", batch |-> save[t].batch, stats |-> Counted]]
  /\ rows' = Stored(save[t].batch)
  /\ UNCHANGED <<tab, disk, load, stray, profile, home>>

AnswerSave(t) ==
  /\ save[t].at = "stored"
  /\ save' = [save EXCEPT ![t] = [at |-> "ok", batch |-> save[t].batch, stats |-> Counted]]
  /\ UNCHANGED <<tab, disk, load, stray, rows, profile, home>>

AnswerLoad(t) ==
  /\ load[t].at = "sent"
  /\ profile
  /\ load' = [load EXCEPT ![t] = [at |-> "ok", stats |-> Counted]]
  /\ UNCHANGED <<tab, disk, save, stray, rows, profile, home>>

\* The connection breaks or the handler fails; the server may still get the request.
Break(t) ==
  /\ save[t].at \in {"sent", "profile", "stored", "ok"}
  /\ save' = [save EXCEPT ![t] = Failed]
  /\ \/ stray' = stray
     \/ /\ save[t].at \in {"sent", "profile"}
        /\ Cardinality(stray \cup {save[t].batch}) <= MaxStray   \* bound
        /\ stray' = stray \cup {save[t].batch}
  /\ UNCHANGED <<tab, disk, load, rows, profile, home>>

StoreStray(batch) ==
  /\ Cardinality(batch) <= MaxPerSave
  /\ rows' = Stored(batch)
  /\ profile' = TRUE
  /\ stray' = stray \ {batch}
  /\ UNCHANGED <<tab, disk, save, load, home>>

DropStray(batch) ==
  /\ stray' = stray \ {batch}
  /\ UNCHANGED <<tab, disk, save, load, rows, profile, home>>

-----------------------------------------------------------------------------

\* What the user does.
User(t) == Open(t) \/ Finish(t) \/ SaveStart(t) \/ LoadStart(t) \/ Close(t)

\* What the rest of a save does once it is sent.
Saving(t) ==
  \/ Refuse(t) \/ SaveProfile(t) \/ SaveSessions(t) \/ AnswerSave(t) \/ Break(t)
  \/ SaveDone(t) \/ SaveFailed(t)

Loading(t) == AnswerLoad(t) \/ LoadDone(t) \/ LoadDropped(t)

Next ==
  \/ \E t \in Tabs : User(t) \/ Saving(t) \/ Loading(t)
  \/ \E batch \in stray : StoreStray(batch) \/ DropStray(batch)

Spec == Init /\ [][Next]_vars

\* A fetch is answered or fails, and the browser then runs what awaits it.
FairSpec == Spec /\ \A t \in Tabs : WF_vars(Saving(t))

-----------------------------------------------------------------------------
(* Properties *)

Syncing(t) == tab[t].open /\ tab[t].syncing

TabOK(page) ==
  \/ page = Closed
  \/ page \in [open : {TRUE}, sessions : SUBSET Finished, remote : SUBSET Finished,
               syncing : BOOLEAN]

SaveOK(call) ==
  \/ call \in {NoCall, Failed}
  \/ call \in [at : {"sent", "profile", "stored"}, batch : SUBSET Finished]
  \/ call \in [at : {"ok"}, batch : SUBSET Finished, stats : SUBSET Finished]

LoadOK(call) ==
  \/ call = NoCall
  \/ call \in [at : {"sent"}]
  \/ call \in [at : {"ok"}, stats : SUBSET Finished]

\* What a page shows of its calls.
CallsShown(page, saving, loading) ==
  /\ saving # NoCall <=> (page.open /\ page.syncing)
  /\ loading # NoCall => page.open

PageOK(page, saving, loading) ==
  TabOK(page) /\ SaveOK(saving) /\ LoadOK(loading) /\ CallsShown(page, saving, loading)

(***************************************************************************)
(* Every variable has its type; only finished sessions travel, and a tab   *)
(* shows "saving..." exactly while a save of its own is under way.         *)
(***************************************************************************)
TypeOK ==
  /\ DOMAIN tab = Tabs /\ DOMAIN save = Tabs /\ DOMAIN load = Tabs
  /\ \A t \in Tabs : PageOK(tab[t], save[t], load[t])
  /\ disk \in [Browsers -> [sessions : SUBSET Finished, remote : SUBSET Finished]]
  /\ rows \in [SessionIds -> Nat]
  /\ Counted \subseteq Finished /\ Finished \subseteq SessionIds
  /\ profile \in BOOLEAN
  /\ home \in [Finished -> Browsers] /\ Finished = 1..Cardinality(Finished)
  /\ stray \subseteq SUBSET Finished

(***************************************************************************)
(* docs/trainer.md: retrying a save after a dropped connection cannot      *)
(* double-count attempts.  Nor can two tabs, or a request that arrives     *)
(* after its sender gave up.                                               *)
(***************************************************************************)
CountedOnce == \A s \in SessionIds : rows[s] <= 1

(***************************************************************************)
(* When a save is answered, the counters in the answer include all of the  *)
(* batch that fits in a save: the tab may forget what it sent.             *)
(***************************************************************************)
AnswerCountsBatch ==
  \A t \in Tabs :
    /\ save[t].at = "stored" => Accepted(save[t].batch) \subseteq Counted
    /\ save[t].at = "ok" => Accepted(save[t].batch) \subseteq save[t].stats

\* localStorage keeps MaxKept sessions; an older one may be gone.
Aged(s) == Cardinality({r \in Newer(Finished, s) : home[r] = home[s]}) >= MaxKept

(***************************************************************************)
(* docs/trainer.md: a save sends every unsynced session, and only after a  *)
(* successful one the local list is cleared.  So a finished session is in  *)
(* the account, or in localStorage or an open tab waiting to be saved,     *)
(* unless as many newer ones as localStorage keeps came after it.          *)
(***************************************************************************)
NothingLost ==
  \A s \in Finished :
    \/ s \in Counted
    \/ s \in disk[home[s]].sessions
    \/ \E t \in Tabs : tab[t].open /\ s \in tab[t].sessions
    \/ Aged(s)

(***************************************************************************)
(* The guard state.syncing is always taken back: the buttons work again    *)
(* after every save, whatever became of the request.                       *)
(***************************************************************************)
SaveEnds == \A t \in Tabs : Syncing(t) ~> ~ Syncing(t)
=============================================================================
