--------------------------- MODULE TrainerSyncProofs ---------------------------
(***************************************************************************)
(* What is proved of TrainerSync for every set of tabs and browsers and    *)
(* every limit: types, no double counting, what an answer vouches for, and *)
(* under three conditions on how the page is used that no session is lost. *)
(***************************************************************************)
EXTENDS TrainerSync, FiniteSetTheorems, TLAPS

-----------------------------------------------------------------------------
(* The operators *)

\* Finished sessions are 1, 2, ... up to their number.
LEMMA FinishedIsInterval ==
  ASSUME TypeOK
  PROVE  /\ IsFiniteSet(Finished)
         /\ Cardinality(Finished) \in Nat
         /\ Finished = 1..Cardinality(Finished)
<1>1. MaxFinished \in Nat
  BY TrainerConstants
<1>2. IsFiniteSet(SessionIds)
  BY <1>1, FS_Interval DEF SessionIds
<1>3. Finished \in SUBSET SessionIds
  BY DEF TypeOK
<1>4. IsFiniteSet(Finished)
  BY <1>2, <1>3, FS_Subset
<1>5. Cardinality(Finished) \in Nat
  BY <1>4, FS_CardinalityType
<1> QED BY <1>4, <1>5 DEF TypeOK

\* save_sessions adds what it accepts to what is counted, and nothing else.
LEMMA StoredCounts ==
  ASSUME TypeOK, NEW batch \in SUBSET Finished
  PROVE  /\ Stored(batch) \in [SessionIds -> Nat]
         /\ {s \in SessionIds : Stored(batch)[s] > 0} = Counted \cup Accepted(batch)
         /\ Accepted(batch) \subseteq batch
         /\ \A s \in SessionIds : rows[s] <= 1 => Stored(batch)[s] <= 1
<1>1. rows \in [SessionIds -> Nat] /\ Finished \subseteq SessionIds
  BY DEF TypeOK
<1>2. Accepted(batch) \subseteq batch
  BY DEF Accepted
<1>3. ASSUME NEW s \in SessionIds
      PROVE  /\ Stored(batch)[s] \in Nat
             /\ Stored(batch)[s] > 0 <=> (rows[s] > 0 \/ s \in Accepted(batch))
             /\ rows[s] <= 1 => Stored(batch)[s] <= 1
  <2>1. CASE s \in Accepted(batch)
    BY <1>1, <2>1 DEF Stored, Inserted
  <2>2. CASE s \notin Accepted(batch)
    BY <1>1, <2>2 DEF Stored
  <2> QED BY <2>1, <2>2
<1>4. Stored(batch) \in [SessionIds -> Nat]
  BY <1>3 DEF Stored
<1> QED BY <1>1, <1>2, <1>3, <1>4 DEF Counted

-----------------------------------------------------------------------------
(* Types *)

\* What the invariants say of a page is known from how far its save has come.
LEMMA PageByState ==
  ASSUME NEW page, NEW saving, NEW loading, PageOK(page, saving, loading)
  PROVE  /\ page.open => /\ page.sessions \in SUBSET Finished
                         /\ page.remote \in SUBSET Finished
                         /\ page.syncing \in BOOLEAN
         /\ page.open \in BOOLEAN
         /\ saving.at \in {"sent", "profile", "stored", "ok"} => saving.batch \in SUBSET Finished
         /\ saving.at = "ok" => saving.stats \in SUBSET Finished
         /\ loading.at = "ok" => loading.stats \in SUBSET Finished
         /\ saving.at # "none" => page.open /\ page.syncing
         /\ loading.at # "none" => page.open
<1>1. /\ page.open \in BOOLEAN
      /\ page.open => /\ page.sessions \in SUBSET Finished
                      /\ page.remote \in SUBSET Finished
                      /\ page.syncing \in BOOLEAN
  <2>1. CASE page = Closed
    BY <2>1 DEF Closed
  <2>2. CASE page \in [open : {TRUE}, sessions : SUBSET Finished, remote : SUBSET Finished,
                       syncing : BOOLEAN]
    BY <2>2
  <2> QED BY <2>1, <2>2 DEF PageOK, TabOK
<1>2. /\ saving.at \in {"sent", "profile", "stored", "ok"} => saving.batch \in SUBSET Finished
      /\ saving.at = "ok" => saving.stats \in SUBSET Finished
  BY DEF PageOK, SaveOK, NoCall, Failed
<1>3. loading.at = "ok" => loading.stats \in SUBSET Finished
  BY DEF PageOK, LoadOK, NoCall
<1>4. /\ saving.at # "none" => page.open /\ page.syncing
      /\ loading.at # "none" => page.open
  BY DEF PageOK, CallsShown, NoCall
<1> QED BY <1>1, <1>2, <1>3, <1>4

\* The record of a page that is open.
LEMMA OpenPage ==
  ASSUME NEW page, TabOK(page), page.open
  PROVE  page \in [open : {TRUE}, sessions : SUBSET Finished, remote : SUBSET Finished,
                   syncing : BOOLEAN]
<1>1. page # Closed
  <2>1. ~ Closed.open
    BY DEF Closed
  <2> QED BY <2>1
<1> QED BY <1>1 DEF TabOK

\* A page that is left alone keeps its type when more sessions are finished.
LEMMA PageKept ==
  ASSUME NEW page, NEW saving, NEW loading, PageOK(page, saving, loading),
         Finished \subseteq Finished'
  PROVE  /\ TabOK(page)' /\ SaveOK(saving)' /\ LoadOK(loading)'
         /\ CallsShown(page, saving, loading)'
<1>1. TabOK(page)'
  BY DEF PageOK, TabOK
<1>2. SaveOK(saving)'
  BY DEF PageOK, SaveOK
<1>3. LoadOK(loading)'
  BY DEF PageOK, LoadOK
<1>4. CallsShown(page, saving, loading)'
  BY DEF PageOK, CallsShown
<1> QED BY <1>1, <1>2, <1>3, <1>4

\* A step that concerns one page keeps the type of the others.
LEMMA StepOfPage ==
  ASSUME TypeOK, NEW t \in Tabs, Finished \subseteq Finished',
         DOMAIN tab' = Tabs, DOMAIN save' = Tabs, DOMAIN load' = Tabs,
         \A u \in Tabs \ {t} : tab'[u] = tab[u] /\ save'[u] = save[u] /\ load'[u] = load[u],
         TabOK(tab[t])', SaveOK(save[t])', LoadOK(load[t])',
         CallsShown(tab[t], save[t], load[t])'
  PROVE  (\A u \in Tabs : PageOK(tab[u], save[u], load[u]))'
<1>1. ASSUME NEW u \in Tabs PROVE PageOK(tab[u], save[u], load[u])'
  <2>1. CASE u = t
    BY <2>1 DEF PageOK
  <2>2. CASE u # t
    <3>1. PageOK(tab[u], save[u], load[u])
      BY DEF TypeOK
    <3>2. tab'[u] = tab[u] /\ save'[u] = save[u] /\ load'[u] = load[u]
      BY <2>2
    <3>3. TabOK(tab[u])'
      BY <3>1, <3>2 DEF PageOK, TabOK
    <3>4. SaveOK(save[u])'
      BY <3>1, <3>2 DEF PageOK, SaveOK
    <3>5. LoadOK(load[u])'
      BY <3>1, <3>2 DEF PageOK, LoadOK
    <3>6. CallsShown(tab[u], save[u], load[u])'
      BY <3>1, <3>2 DEF PageOK, CallsShown
    <3> QED BY <3>3, <3>4, <3>5, <3>6 DEF PageOK
  <2> QED BY <2>1, <2>2
<1> QED BY <1>1

\* Without a session finished or stored, what is finished and counted stays.
LEMMA HistoryKept ==
  ASSUME TypeOK, UNCHANGED <<rows, home>>
  PROVE  /\ Finished' = Finished /\ Counted' = Counted
         /\ rows' \in [SessionIds -> Nat]
         /\ Counted' \subseteq Finished' /\ Finished' \subseteq SessionIds
         /\ home' \in [Finished' -> Browsers] /\ Finished' = 1..Cardinality(Finished')
BY DEF TypeOK, Finished, Counted

\* A browser that was never used and an empty account.
LEMMA InitType == Init => TypeOK
<1> SUFFICES ASSUME Init PROVE TypeOK
  OBVIOUS
<1>1. Finished = {} /\ Cardinality(Finished) = 0 /\ Finished = 1..Cardinality(Finished)
  BY FS_EmptySet DEF Init, Finished
<1>2. Counted = {}
  BY DEF Init, Counted
<1>3. home \in [Finished -> Browsers] /\ rows \in [SessionIds -> Nat]
  BY <1>1 DEF Init, Finished
<1>4. ASSUME NEW t \in Tabs PROVE PageOK(tab[t], save[t], load[t])
  BY DEF Init, PageOK, TabOK, SaveOK, LoadOK, CallsShown, Closed, NoCall
<1>5. disk \in [Browsers -> [sessions : SUBSET Finished, remote : SUBSET Finished]]
  BY DEF Init
<1>6. DOMAIN tab = Tabs /\ DOMAIN save = Tabs /\ DOMAIN load = Tabs
  BY DEF Init
<1>7. profile \in BOOLEAN /\ stray = {}
  BY DEF Init
<1> QED BY <1>1, <1>2, <1>3, <1>4, <1>5, <1>6, <1>7 DEF TypeOK

\* The page shows what localStorage held.
LEMMA OpenType ==
  ASSUME TypeOK, NEW t \in Tabs, Open(t)
  PROVE  TypeOK'
<1> DEFINE page == [open     |-> TRUE,
                    sessions |-> disk[BrowserOf[t]].sessions,
                    remote   |-> disk[BrowserOf[t]].remote,
                    syncing  |-> FALSE]
<1>1. BrowserOf[t] \in Browsers /\ PageOK(tab[t], save[t], load[t])
  BY TrainerConstants DEF TypeOK
<1>2. Finished' = Finished /\ tab'[t] = page /\ save'[t] = NoCall /\ load'[t] = NoCall
  <2>1. save[t] = NoCall /\ load[t] = NoCall
    BY <1>1 DEF Open, PageOK, CallsShown
  <2> QED BY <2>1 DEF Open, TypeOK, Finished
<1>3. disk[BrowserOf[t]] \in [sessions : SUBSET Finished, remote : SUBSET Finished]
  BY <1>1 DEF TypeOK
<1>4. TabOK(tab[t])' /\ SaveOK(save[t])' /\ LoadOK(load[t])' /\ CallsShown(tab[t], save[t], load[t])'
  BY <1>2, <1>3 DEF TabOK, SaveOK, LoadOK, CallsShown
<1>5. (\A u \in Tabs : PageOK(tab[u], save[u], load[u]))'
  BY <1>2, <1>4, StepOfPage DEF Open, TypeOK
<1> QED BY <1>2, <1>5, HistoryKept DEF Open, TypeOK

\* A finished session joins the list of the page and of localStorage.
LEMMA FinishType ==
  ASSUME TypeOK, NEW t \in Tabs, Finish(t)
  PROVE  TypeOK'
<1> DEFINE s == Cardinality(Finished) + 1
           kept == tab[t].sessions \cup {s}
<1>1. BrowserOf[t] \in Browsers /\ PageOK(tab[t], save[t], load[t])
  BY TrainerConstants DEF TypeOK
<1>2. s \in Nat \ {0} /\ Finished \cup {s} = 1..s /\ Cardinality(1..s) = s
  <2>1. s \in Nat \ {0} /\ Finished = 1..(s - 1)
    BY FinishedIsInterval
  <2> HIDE DEF s
  <2>2. Cardinality(1..s) = s
    BY <2>1, FS_Interval
  <2> QED BY <2>1, <2>2
<1>3. Finished' = Finished \cup {s} /\ home' \in [Finished' -> Browsers]
  BY <1>1 DEF Finish, TypeOK, Finished
<1>4. s \in SessionIds
  BY <1>2, TrainerConstants DEF Finish, SessionIds
<1> HIDE DEF s
<1>5. Finished' = 1..Cardinality(Finished') /\ Finished \subseteq Finished' /\ Finished' \subseteq SessionIds
  BY <1>2, <1>3, <1>4 DEF TypeOK
<1>6. kept \subseteq Finished' /\ Kept(kept) \subseteq Finished'
  BY <1>1, <1>3, PageByState DEF Finish, Kept
<1>7. /\ tab'[t] = [tab[t] EXCEPT !.sessions = kept]
      /\ disk' = [disk EXCEPT ![BrowserOf[t]].sessions = Kept(kept)]
      /\ UNCHANGED <<save, load, stray, rows, profile>>
  BY DEF Finish, TypeOK, s
<1> HIDE DEF kept
<1>8. TabOK(tab[t])'
  <2>1. tab[t] \in [open : {TRUE}, sessions : SUBSET Finished, remote : SUBSET Finished,
                    syncing : BOOLEAN]
    BY <1>1, OpenPage DEF Finish, PageOK
  <2> QED BY <1>5, <1>6, <1>7, <2>1 DEF TabOK
<1>9. SaveOK(save[t])'
  BY <1>1, <1>5, <1>7 DEF PageOK, SaveOK
<1>10. LoadOK(load[t])'
  BY <1>1, <1>5, <1>7 DEF PageOK, LoadOK
<1>11. CallsShown(tab[t], save[t], load[t])'
  <2>1. tab[t] \in [open : {TRUE}, sessions : SUBSET Finished, remote : SUBSET Finished,
                    syncing : BOOLEAN]
    BY <1>1, OpenPage DEF Finish, PageOK
  <2>2. tab'[t].open = tab[t].open /\ tab'[t].syncing = tab[t].syncing
    BY <1>7, <2>1
  <2> QED BY <1>1, <1>7, <2>2 DEF PageOK, CallsShown
<1>12. (\A u \in Tabs : PageOK(tab[u], save[u], load[u]))'
  BY <1>5, <1>8, <1>9, <1>10, <1>11, StepOfPage DEF Finish, TypeOK
<1>13. disk' \in [Browsers -> [sessions : SUBSET Finished', remote : SUBSET Finished']]
  BY <1>1, <1>5, <1>6, <1>7 DEF TypeOK
<1>14. Counted' \subseteq Finished' /\ rows' \in [SessionIds -> Nat] /\ stray' \subseteq SUBSET Finished'
  BY <1>5, <1>7 DEF TypeOK, Counted
<1> QED BY <1>3, <1>5, <1>12, <1>13, <1>14 DEF Finish, TypeOK

\* saveToAccount up to its await.
LEMMA SaveStartType ==
  ASSUME TypeOK, NEW t \in Tabs, SaveStart(t)
  PROVE  TypeOK'
<1>1. PageOK(tab[t], save[t], load[t])
  BY DEF TypeOK
<1>2. tab[t] \in [open : {TRUE}, sessions : SUBSET Finished, remote : SUBSET Finished,
                  syncing : BOOLEAN]
  BY <1>1, OpenPage DEF SaveStart, PageOK
<1>3. /\ tab'[t] = [tab[t] EXCEPT !.syncing = TRUE]
      /\ save'[t] = [at |-> "sent", batch |-> tab[t].sessions]
      /\ load'[t] = load[t] /\ Finished' = Finished
  BY DEF SaveStart, TypeOK, Finished
<1>4. TabOK(tab[t])'
  BY <1>2, <1>3 DEF TabOK
<1>5. SaveOK(save[t])'
  <2>1. tab[t].sessions \in SUBSET Finished'
    BY <1>2, <1>3
  <2> QED BY <1>3, <2>1 DEF SaveOK
<1>6. LoadOK(load[t])'
  BY <1>1, <1>3 DEF PageOK, LoadOK
<1>7. CallsShown(tab[t], save[t], load[t])'
  <2>1. tab'[t].open = TRUE /\ tab'[t].syncing = TRUE
    BY <1>2, <1>3
  <2>2. save'[t].at # NoCall.at
    BY <1>3 DEF NoCall
  <2> QED BY <2>1, <2>2 DEF CallsShown
<1>8. (\A u \in Tabs : PageOK(tab[u], save[u], load[u]))'
  BY <1>3, <1>4, <1>5, <1>6, <1>7, StepOfPage DEF SaveStart, TypeOK
<1> QED BY <1>3, <1>8, HistoryKept DEF SaveStart, TypeOK

\* Asking for what the account holds, and dropping the answer.
LEMMA LoadCallType ==
  ASSUME TypeOK, NEW t \in Tabs, LoadStart(t) \/ LoadDropped(t)
  PROVE  TypeOK'
<1>1. PageOK(tab[t], save[t], load[t])
  BY DEF TypeOK
<1>2. load'[t] = NoCall \/ (tab[t].open /\ load'[t] = [at |-> "sent"])
  BY DEF LoadStart, LoadDropped, TypeOK
<1>3. UNCHANGED <<tab, disk, save, stray, rows, profile, home>> /\ Finished' = Finished
  BY DEF LoadStart, LoadDropped, Finished
<1>4. /\ DOMAIN load' = Tabs
      /\ \A u \in Tabs \ {t} : load'[u] = load[u]
  BY DEF LoadStart, LoadDropped, TypeOK
<1>5. TabOK(tab[t])' /\ SaveOK(save[t])'
  BY <1>1, <1>3 DEF PageOK, TabOK, SaveOK
<1>6. LoadOK(load[t])' /\ CallsShown(tab[t], save[t], load[t])'
  BY <1>1, <1>2, <1>3 DEF PageOK, LoadOK, CallsShown
<1>7. (\A u \in Tabs : PageOK(tab[u], save[u], load[u]))'
  BY <1>3, <1>4, <1>5, <1>6, StepOfPage DEF TypeOK
<1> QED BY <1>3, <1>4, <1>7, HistoryKept DEF TypeOK

\* Closing the page leaves its request on the way.
LEMMA CloseType ==
  ASSUME TypeOK, NEW t \in Tabs, Close(t)
  PROVE  TypeOK'
<1>1. PageOK(tab[t], save[t], load[t])
  BY DEF TypeOK
<1>2. tab'[t] = Closed /\ save'[t] = NoCall /\ load'[t] = NoCall /\ Finished' = Finished
  BY DEF Close, TypeOK, Finished
<1>3. TabOK(tab[t])' /\ SaveOK(save[t])' /\ LoadOK(load[t])' /\ CallsShown(tab[t], save[t], load[t])'
  BY <1>2 DEF TabOK, SaveOK, LoadOK, CallsShown, Closed
<1>4. (\A u \in Tabs : PageOK(tab[u], save[u], load[u]))'
  BY <1>2, <1>3, StepOfPage DEF Close, TypeOK
<1>5. stray' \subseteq SUBSET Finished'
  BY <1>1, <1>2, PageByState DEF Close, TypeOK
<1> QED BY <1>2, <1>4, <1>5, HistoryKept DEF Close, TypeOK

\* The server's steps on a save, and its failure on the way: the page is not touched.
LEMMA CallType ==
  ASSUME TypeOK, NEW t \in Tabs, NEW call, save' = [save EXCEPT ![t] = call],
         save[t] # NoCall, call # NoCall, SaveOK(call), UNCHANGED <<tab, load, home>>
  PROVE  /\ DOMAIN save' = Tabs
         /\ Finished' = Finished
         /\ (\A u \in Tabs : PageOK(tab[u], save[u], load[u]))'
<1>1. PageOK(tab[t], save[t], load[t])
  BY DEF TypeOK
<1>2. save'[t] = call /\ Finished' = Finished /\ DOMAIN save' = Tabs
  BY DEF TypeOK, Finished
<1>3. TabOK(tab[t])' /\ LoadOK(load[t])'
  BY <1>1, <1>2 DEF PageOK, TabOK, LoadOK
<1>4. SaveOK(save[t])'
  BY <1>2 DEF SaveOK
<1>5. CallsShown(tab[t], save[t], load[t])'
  BY <1>1, <1>2 DEF PageOK, CallsShown
<1>6. (\A u \in Tabs : PageOK(tab[u], save[u], load[u]))'
  BY <1>2, <1>3, <1>4, <1>5, StepOfPage DEF TypeOK
<1> QED BY <1>2, <1>6

\* The batch of a request under way.
LEMMA SentType ==
  ASSUME NEW saving, SaveOK(saving), saving.at \in {"sent", "profile", "stored"}
  PROVE  saving \in [at : {"sent", "profile", "stored"}, batch : SUBSET Finished]
BY DEF SaveOK, NoCall, Failed

\* The handler of a save, and what may go wrong on the way, keep the types.
LEMMA ServerType ==
  ASSUME TypeOK, NEW t \in Tabs,
         Refuse(t) \/ SaveProfile(t) \/ SaveSessions(t) \/ AnswerSave(t) \/ Break(t)
  PROVE  TypeOK'
<1>1. PageOK(tab[t], save[t], load[t]) /\ SaveOK(save[t])
  BY DEF TypeOK, PageOK
<1>2. save[t] # NoCall
  BY DEF Refuse, SaveProfile, SaveSessions, AnswerSave, Break, NoCall
<1>3. CASE Refuse(t)
  <2>1. SaveOK(Failed) /\ Failed # NoCall
    BY DEF SaveOK, Failed, NoCall
  <2>2. /\ DOMAIN save' = Tabs
        /\ Finished' = Finished
        /\ (\A u \in Tabs : PageOK(tab[u], save[u], load[u]))'
    BY <1>2, <1>3, <2>1, CallType DEF Refuse
  <2> QED BY <1>3, <2>2, HistoryKept DEF Refuse, TypeOK
<1>4. CASE SaveProfile(t)
  <2> DEFINE call == [save[t] EXCEPT !.at = "profile"]
  <2>1. SaveOK(call) /\ call # NoCall /\ save' = [save EXCEPT ![t] = call]
    <3>1. save[t] \in [at : {"sent", "profile", "stored"}, batch : SUBSET Finished]
      BY <1>1, <1>4, SentType DEF SaveProfile
    <3> QED BY <1>4, <3>1 DEF SaveProfile, SaveOK, NoCall
  <2>2. /\ DOMAIN save' = Tabs
        /\ Finished' = Finished
        /\ (\A u \in Tabs : PageOK(tab[u], save[u], load[u]))'
    <3> HIDE DEF call
    <3> QED BY <1>2, <1>4, <2>1, CallType DEF SaveProfile
  <2> QED BY <1>4, <2>2, HistoryKept DEF SaveProfile, TypeOK
<1>5. CASE SaveSessions(t)
  <2> DEFINE call == [save[t] EXCEPT !.at = "stored"]
  <2>1. save[t] \in [at : {"sent", "profile", "stored"}, batch : SUBSET Finished]
    BY <1>1, <1>5, SentType DEF SaveSessions
  <2>2. SaveOK(call) /\ call # NoCall /\ save' = [save EXCEPT ![t] = call]
    BY <1>5, <2>1 DEF SaveSessions, SaveOK, NoCall
  <2>3. /\ DOMAIN save' = Tabs
        /\ Finished' = Finished
        /\ (\A u \in Tabs : PageOK(tab[u], save[u], load[u]))'
    <3> HIDE DEF call
    <3> QED BY <1>2, <1>5, <2>2, CallType DEF SaveSessions
  <2>4. rows' \in [SessionIds -> Nat] /\ Counted' \subseteq Finished
    <3>1. save[t].batch \in SUBSET Finished
      BY <2>1
    <3> QED BY <1>5, <3>1, StoredCounts DEF SaveSessions, TypeOK, Counted
  <2> QED BY <1>5, <2>3, <2>4 DEF SaveSessions, TypeOK
<1>6. CASE AnswerSave(t)
  <2> DEFINE call == [at |-> "ok", batch |-> save[t].batch, stats |-> Counted]
  <2>1. SaveOK(call) /\ call # NoCall /\ save' = [save EXCEPT ![t] = call]
    <3>1. save[t].batch \in SUBSET Finished /\ Counted \in SUBSET Finished
      BY <1>1, <1>6, PageByState DEF AnswerSave, TypeOK
    <3> QED BY <1>6, <3>1 DEF AnswerSave, SaveOK, NoCall
  <2>2. /\ DOMAIN save' = Tabs
        /\ Finished' = Finished
        /\ (\A u \in Tabs : PageOK(tab[u], save[u], load[u]))'
    <3> HIDE DEF call
    <3> QED BY <1>2, <1>6, <2>1, CallType DEF AnswerSave
  <2> QED BY <1>6, <2>2, HistoryKept DEF AnswerSave, TypeOK
<1>7. CASE Break(t)
  <2>1. SaveOK(Failed) /\ Failed # NoCall
    BY DEF SaveOK, Failed, NoCall
  <2>2. /\ DOMAIN save' = Tabs
        /\ Finished' = Finished
        /\ (\A u \in Tabs : PageOK(tab[u], save[u], load[u]))'
    BY <1>2, <1>7, <2>1, CallType DEF Break
  <2>3. stray' \subseteq SUBSET Finished
    BY <1>1, <1>7, PageByState DEF Break, TypeOK
  <2> QED BY <1>7, <2>2, <2>3, HistoryKept DEF Break, TypeOK
<1> QED BY <1>3, <1>4, <1>5, <1>6, <1>7

\* saveToAccount after its await.
LEMMA SavedType ==
  ASSUME TypeOK, NEW t \in Tabs, SaveDone(t) \/ SaveFailed(t)
  PROVE  TypeOK'
<1>1. PageOK(tab[t], save[t], load[t]) /\ TabOK(tab[t]) /\ BrowserOf[t] \in Browsers
  BY TrainerConstants DEF TypeOK, PageOK
<1>2. tab[t].open
  BY <1>1, PageByState DEF SaveDone, SaveFailed
<1>3. tab[t] \in [open : {TRUE}, sessions : SUBSET Finished, remote : SUBSET Finished,
                  syncing : BOOLEAN]
  BY <1>1, <1>2, OpenPage
<1>4. save'[t] = NoCall /\ load'[t] = load[t] /\ Finished' = Finished
  BY DEF SaveDone, SaveFailed, TypeOK, Finished
<1>5. CASE SaveDone(t)
  <2>1. tab'[t] = [tab[t] EXCEPT !.sessions = {}, !.remote = save[t].stats, !.syncing = FALSE]
    BY <1>5 DEF SaveDone, TypeOK
  <2>2. save[t].stats \in SUBSET Finished
    BY <1>1, <1>5, PageByState DEF SaveDone
  <2>3. TabOK(tab[t])'
    BY <1>3, <1>4, <2>1, <2>2 DEF TabOK
  <2>4. SaveOK(save[t])' /\ LoadOK(load[t])'
    BY <1>1, <1>4 DEF SaveOK, LoadOK, PageOK
  <2>5. CallsShown(tab[t], save[t], load[t])'
    <3>1. tab'[t].open = TRUE /\ tab'[t].syncing = FALSE
      BY <1>3, <2>1
    <3> QED BY <1>4, <3>1 DEF CallsShown
  <2>6. (\A u \in Tabs : PageOK(tab[u], save[u], load[u]))'
    BY <1>4, <1>5, <2>3, <2>4, <2>5, StepOfPage DEF SaveDone, TypeOK
  <2>7. disk' \in [Browsers -> [sessions : SUBSET Finished, remote : SUBSET Finished]]
    BY <1>1, <1>5, <2>2 DEF SaveDone, TypeOK
  <2> QED BY <1>4, <1>5, <2>6, <2>7, HistoryKept DEF SaveDone, TypeOK
<1>6. CASE SaveFailed(t)
  <2>1. tab'[t] = [tab[t] EXCEPT !.syncing = FALSE]
    BY <1>6 DEF SaveFailed, TypeOK
  <2>2. TabOK(tab[t])'
    BY <1>3, <1>4, <2>1 DEF TabOK
  <2>3. SaveOK(save[t])' /\ LoadOK(load[t])'
    BY <1>1, <1>4 DEF SaveOK, LoadOK, PageOK
  <2>4. CallsShown(tab[t], save[t], load[t])'
    <3>1. tab'[t].open = TRUE /\ tab'[t].syncing = FALSE
      BY <1>3, <2>1
    <3> QED BY <1>4, <3>1 DEF CallsShown
  <2>5. (\A u \in Tabs : PageOK(tab[u], save[u], load[u]))'
    BY <1>4, <1>6, <2>2, <2>3, <2>4, StepOfPage DEF SaveFailed, TypeOK
  <2> QED BY <1>4, <1>6, <2>5, HistoryKept DEF SaveFailed, TypeOK
<1> QED BY <1>5, <1>6

\* The answer of a load, and what the page does with it.
LEMMA LoadedType ==
  ASSUME TypeOK, NEW t \in Tabs, AnswerLoad(t) \/ LoadDone(t)
  PROVE  TypeOK'
<1>1. PageOK(tab[t], save[t], load[t]) /\ TabOK(tab[t]) /\ BrowserOf[t] \in Browsers
  BY TrainerConstants DEF TypeOK, PageOK
<1>2. tab[t].open
  BY <1>1, PageByState DEF AnswerLoad, LoadDone
<1>3. tab[t] \in [open : {TRUE}, sessions : SUBSET Finished, remote : SUBSET Finished,
                  syncing : BOOLEAN]
  BY <1>1, <1>2, OpenPage
<1>4. save'[t] = save[t] /\ Finished' = Finished
  BY DEF AnswerLoad, LoadDone, TypeOK, Finished
<1>5. SaveOK(save[t])'
  BY <1>1, <1>4 DEF PageOK, SaveOK
<1>6. CASE AnswerLoad(t)
  <2>1. tab'[t] = tab[t] /\ load'[t] = [at |-> "ok", stats |-> Counted]
    BY <1>6 DEF AnswerLoad, TypeOK
  <2>2. TabOK(tab[t])'
    BY <1>1, <1>4, <2>1 DEF TabOK
  <2>3. LoadOK(load[t])'
    <3>1. Counted \in SUBSET Finished'
      BY <1>4 DEF TypeOK
    <3> QED BY <2>1, <3>1 DEF LoadOK
  <2>4. CallsShown(tab[t], save[t], load[t])'
    BY <1>1, <1>2, <1>4, <2>1 DEF PageOK, CallsShown
  <2>5. (\A u \in Tabs : PageOK(tab[u], save[u], load[u]))'
    BY <1>4, <1>5, <1>6, <2>2, <2>3, <2>4, StepOfPage DEF AnswerLoad, TypeOK
  <2> QED BY <1>4, <1>6, <2>5, HistoryKept DEF AnswerLoad, TypeOK
<1>7. CASE LoadDone(t)
  <2>1. tab'[t] = [tab[t] EXCEPT !.remote = load[t].stats] /\ load'[t] = NoCall
    BY <1>7 DEF LoadDone, TypeOK
  <2>2. load[t].stats \in SUBSET Finished
    BY <1>1, <1>7, PageByState DEF LoadDone
  <2>3. TabOK(tab[t])' /\ LoadOK(load[t])'
    BY <1>3, <1>4, <2>1, <2>2 DEF TabOK, LoadOK
  <2>4. CallsShown(tab[t], save[t], load[t])'
    <3>1. tab'[t].open = tab[t].open /\ tab'[t].syncing = tab[t].syncing
      BY <1>3, <2>1
    <3> QED BY <1>1, <1>4, <2>1, <3>1 DEF PageOK, CallsShown
  <2>5. (\A u \in Tabs : PageOK(tab[u], save[u], load[u]))'
    BY <1>4, <1>5, <1>7, <2>3, <2>4, StepOfPage DEF LoadDone, TypeOK
  <2>6. disk' \in [Browsers -> [sessions : SUBSET Finished, remote : SUBSET Finished]]
    <3> DEFINE Kinds == [sessions : SUBSET Finished, remote : SUBSET Finished]
               entry == [disk[BrowserOf[t]] EXCEPT !.remote = load[t].stats]
    <3>1. disk \in [Browsers -> Kinds]
      BY DEF TypeOK
    <3>2. entry \in Kinds
      BY <1>1, <2>2, <3>1
    <3>3. disk' = [disk EXCEPT ![BrowserOf[t]] = entry]
      BY <1>7 DEF LoadDone
    <3> HIDE DEF Kinds, entry
    <3>4. disk' \in [Browsers -> Kinds]
      BY <3>1, <3>2, <3>3
    <3> QED BY <3>4 DEF Kinds
  <2> QED BY <1>4, <1>7, <2>5, <2>6, HistoryKept DEF LoadDone, TypeOK
<1> QED BY <1>6, <1>7

\* A request nobody waits for arrives, or does not.
LEMMA StrayType ==
  ASSUME TypeOK, NEW batch \in stray, StoreStray(batch) \/ DropStray(batch)
  PROVE  TypeOK'
<1>1. UNCHANGED <<tab, disk, save, load, home>> /\ Finished' = Finished
  BY DEF StoreStray, DropStray, Finished
<1>2. (\A u \in Tabs : PageOK(tab[u], save[u], load[u]))'
  BY <1>1 DEF TypeOK, PageOK, TabOK, SaveOK, LoadOK, CallsShown
<1>3. rows' \in [SessionIds -> Nat] /\ Counted' \subseteq Finished
  <2>1. CASE StoreStray(batch)
    <3>1. batch \in SUBSET Finished
      BY DEF TypeOK
    <3> QED BY <2>1, <3>1, StoredCounts DEF StoreStray, TypeOK, Counted
  <2>2. CASE DropStray(batch)
    BY <2>2 DEF DropStray, TypeOK, Counted
  <2> QED BY <2>1, <2>2
<1>4. stray' \subseteq SUBSET Finished' /\ profile' \in BOOLEAN
  BY <1>1 DEF StoreStray, DropStray, TypeOK
<1> QED BY <1>1, <1>2, <1>3, <1>4 DEF TypeOK

\* Every step keeps the types.
LEMMA StepType == TypeOK /\ [Next]_vars => TypeOK'
<1> SUFFICES ASSUME TypeOK, [Next]_vars PROVE TypeOK'
  OBVIOUS
<1>1. CASE UNCHANGED vars
  BY <1>1 DEF vars, TypeOK, PageOK, TabOK, SaveOK, LoadOK, CallsShown, Finished, Counted
<1>2. ASSUME NEW t \in Tabs, User(t) PROVE TypeOK'
  BY <1>2, OpenType, FinishType, SaveStartType, LoadCallType, CloseType DEF User
<1>3. ASSUME NEW t \in Tabs, Saving(t) PROVE TypeOK'
  BY <1>3, ServerType, SavedType DEF Saving
<1>4. ASSUME NEW t \in Tabs, Loading(t) PROVE TypeOK'
  BY <1>4, LoadedType, LoadCallType DEF Loading
<1>5. ASSUME NEW batch \in stray, StoreStray(batch) \/ DropStray(batch) PROVE TypeOK'
  BY <1>5, StrayType
<1> QED BY <1>1, <1>2, <1>3, <1>4, <1>5 DEF Next

(***************************************************************************)
(* The page, its localStorage, the requests under way and the account keep *)
(* their types, and "saving..." is shown exactly while a save of the tab   *)
(* is under way.                                                           *)
(***************************************************************************)
THEOREM TypeCorrect == Spec => []TypeOK
BY InitType, StepType, PTL DEF Spec

-----------------------------------------------------------------------------
(* What the account counts *)

\* Sessions are stored by save_sessions only.
LEMMA RowsStep ==
  ASSUME TypeOK, [Next]_vars
  PROVE  rows' = rows \/ \E batch \in SUBSET Finished : rows' = Stored(batch)
<1>1. ASSUME NEW t \in Tabs, SaveSessions(t)
      PROVE  save[t].batch \in SUBSET Finished /\ rows' = Stored(save[t].batch)
  BY <1>1, PageByState DEF SaveSessions, TypeOK
<1>2. ASSUME NEW batch \in stray, StoreStray(batch)
      PROVE  batch \in SUBSET Finished /\ rows' = Stored(batch)
  BY <1>2 DEF StoreStray, TypeOK
<1> QED BY <1>1, <1>2 DEF Next, vars, User, Saving, Loading, Open, Finish, SaveStart, LoadStart,
           Close, Refuse, SaveProfile, AnswerSave, Break, SaveDone, SaveFailed, AnswerLoad,
           LoadDone, LoadDropped, DropStray

\* What is counted stays counted.
LEMMA CountedGrows ==
  ASSUME TypeOK, [Next]_vars
  PROVE  Counted \subseteq Counted'
<1>1. CASE rows' = rows
  BY <1>1 DEF Counted
<1>2. ASSUME NEW batch \in SUBSET Finished, rows' = Stored(batch)
      PROVE  Counted \subseteq Counted'
  BY <1>2, StoredCounts DEF Counted
<1> QED BY <1>1, <1>2, RowsStep

(***************************************************************************)
(* No session is counted twice: not by a retry, not by a request that      *)
(* arrives after its sender gave up, not by another tab of the account.    *)
(***************************************************************************)
THEOREM NoDoubleCount == Spec => []CountedOnce
<1>1. Init => CountedOnce
  BY DEF Init, CountedOnce
<1>2. TypeOK /\ CountedOnce /\ [Next]_vars => CountedOnce'
  <2> SUFFICES ASSUME TypeOK, CountedOnce, [Next]_vars PROVE CountedOnce'
    OBVIOUS
  <2>1. CASE rows' = rows
    BY <2>1 DEF CountedOnce
  <2>2. ASSUME NEW batch \in SUBSET Finished, rows' = Stored(batch)
        PROVE  CountedOnce'
    BY <2>2, StoredCounts DEF CountedOnce
  <2> QED BY <2>1, <2>2, RowsStep
<1> QED BY <1>1, <1>2, TypeCorrect, PTL DEF Spec

\* How far the save of a page may come in a step.
LEMMA SaveStep ==
  ASSUME TypeOK, [Next]_vars, NEW u \in Tabs
  PROVE  \/ save'[u] \in {NoCall, Failed}
         \/ save'[u] = save[u]
         \/ SaveStart(u)
         \/ SaveProfile(u)
         \/ SaveSessions(u)
         \/ AnswerSave(u)
<1>1. DOMAIN save = Tabs
  BY DEF TypeOK
<1>2. ASSUME NEW t \in Tabs,
             Open(t) \/ Finish(t) \/ LoadStart(t) \/ AnswerLoad(t) \/ LoadDone(t) \/ LoadDropped(t)
      PROVE  save' = save
  BY <1>2 DEF Open, Finish, LoadStart, AnswerLoad, LoadDone, LoadDropped
<1>3. ASSUME NEW t \in Tabs, Close(t) \/ SaveDone(t) \/ SaveFailed(t) \/ Refuse(t) \/ Break(t)
      PROVE  save'[u] \in {NoCall, Failed, save[u]}
  BY <1>1, <1>3 DEF Close, SaveDone, SaveFailed, Refuse, Break
<1>4. ASSUME NEW t \in Tabs, t # u,
             SaveStart(t) \/ SaveProfile(t) \/ SaveSessions(t) \/ AnswerSave(t)
      PROVE  save'[u] = save[u]
  BY <1>1, <1>4 DEF SaveStart, SaveProfile, SaveSessions, AnswerSave
<1>5. ASSUME NEW batch \in stray, StoreStray(batch) \/ DropStray(batch)
      PROVE  save' = save
  BY <1>5 DEF StoreStray, DropStray
<1>6. CASE UNCHANGED vars
  BY <1>6 DEF vars
<1> QED BY <1>2, <1>3, <1>4, <1>5, <1>6 DEF Next, User, Saving, Loading

(***************************************************************************)
(* The answer to a save counts everything of its batch that the server     *)
(* accepted, whatever other requests do between its two transactions and   *)
(* the reading of the counters.                                            *)
(***************************************************************************)
THEOREM AnswersAreComplete == Spec => []AnswerCountsBatch
<1>1. Init => AnswerCountsBatch
  BY DEF Init, AnswerCountsBatch, NoCall
<1>2. TypeOK /\ AnswerCountsBatch /\ [Next]_vars => AnswerCountsBatch'
  <2> SUFFICES ASSUME TypeOK, AnswerCountsBatch, [Next]_vars, NEW u \in Tabs
               PROVE  /\ save'[u].at = "stored" => Accepted(save'[u].batch) \subseteq Counted'
                      /\ save'[u].at = "ok" => Accepted(save'[u].batch) \subseteq save'[u].stats
    BY DEF AnswerCountsBatch, Accepted
  <2>1. CASE save'[u] \in {NoCall, Failed}
    BY <2>1 DEF NoCall, Failed
  <2>2. CASE save'[u] = save[u]
    BY <2>2, CountedGrows DEF AnswerCountsBatch
  <2>3. CASE SaveStart(u)
    BY <2>3 DEF SaveStart, TypeOK
  <2>4. CASE SaveProfile(u)
    <3>1. save[u] \in [at : {"sent", "profile", "stored"}, batch : SUBSET Finished]
      BY <2>4, SentType DEF SaveProfile, TypeOK, PageOK
    <3>2. save'[u].at = "profile"
      BY <2>4, <3>1 DEF SaveProfile, TypeOK
    <3> QED BY <3>2
  <2>5. CASE SaveSessions(u)
    <3>1. save[u] \in [at : {"sent", "profile", "stored"}, batch : SUBSET Finished]
      BY <2>5, SentType DEF SaveSessions, TypeOK, PageOK
    <3>2. save'[u].at = "stored" /\ save'[u].batch = save[u].batch
      BY <2>5, <3>1 DEF SaveSessions, TypeOK
    <3>3. Accepted(save[u].batch) \subseteq Counted'
      <4>1. save[u].batch \in SUBSET Finished
        BY <3>1
      <4> QED BY <2>5, <4>1, StoredCounts DEF SaveSessions, Counted
    <3> QED BY <3>2, <3>3
  <2>6. CASE AnswerSave(u)
    BY <2>6 DEF AnswerSave, AnswerCountsBatch, TypeOK
  <2> QED BY <2>1, <2>2, <2>3, <2>4, <2>5, <2>6, SaveStep
<1> QED BY <1>1, <1>2, TypeCorrect, PTL DEF Spec

-----------------------------------------------------------------------------
(* No session is lost *)

\* Two tabs never share a localStorage.
OneTabPerBrowser == \A t, u \in Tabs : BrowserOf[t] = BrowserOf[u] => t = u

\* A batch the server does not refuse is within the attempts it stores.
BatchesAreStoredWhole == \A n \in Nat : n < MaxPerSave => n * Attempts < MaxAttempts

\* What localStorage holds was finished in its browser.
OwnSessions == \A b \in Browsers : \A s \in disk[b].sessions : home[s] = b

\* An open page knows what its localStorage holds, and only its browser's sessions.
PageCoversDisk ==
  \A t \in Tabs : tab[t].open =>
    /\ disk[BrowserOf[t]].sessions \subseteq tab[t].sessions
    /\ \A s \in tab[t].sessions : home[s] = BrowserOf[t]

\* While a save is under way its batch is still the page's list.
BatchIsList ==
  \A t \in Tabs :
    save[t].at \in {"sent", "profile", "stored", "ok"} => save[t].batch = tab[t].sessions

\* A batch that got past the server's check is small enough.
BatchFits ==
  \A t \in Tabs :
    save[t].at \in {"profile", "stored", "ok"} => Cardinality(save[t].batch) <= MaxPerSave

\* What was acknowledged is counted.
AnsweredIsCounted ==
  \A t \in Tabs :
    save[t].at \in {"stored", "ok"} => Accepted(save[t].batch) \subseteq Counted

KeptOrCounted ==
  \A s \in Finished : s \in Counted \/ s \in disk[home[s]].sessions \/ Aged(s)

KeptInv ==
  /\ OwnSessions
  /\ PageCoversDisk
  /\ BatchIsList
  /\ BatchFits
  /\ AnsweredIsCounted
  /\ KeptOrCounted

\* A small enough batch is accepted whole.
LEMMA AcceptedWhole ==
  ASSUME TypeOK, BatchesAreStoredWhole, NEW batch \in SUBSET Finished,
         Cardinality(batch) <= MaxPerSave
  PROVE  Accepted(batch) = batch
<1>1. IsFiniteSet(batch)
  BY FinishedIsInterval, FS_Subset
<1>2. Cardinality(batch) \in Nat /\ MaxPerSave \in Nat /\ MaxAttempts \in Nat /\ Attempts \in Nat
  BY <1>1, FS_CardinalityType, TrainerConstants
<1>3. ASSUME NEW s \in batch
      PROVE  Cardinality({r \in batch : r < s}) * Attempts < MaxAttempts
  <2> DEFINE older == {r \in batch : r < s}
  <2>1. s \in Nat
    BY FinishedIsInterval
  <2>2. older \in SUBSET (batch \ {s})
    BY <2>1
  <2>3. IsFiniteSet(batch \ {s}) /\ Cardinality(batch \ {s}) = Cardinality(batch) - 1
    BY <1>1, FS_RemoveElement
  <2> HIDE DEF older
  <2>4. IsFiniteSet(older) /\ Cardinality(older) <= Cardinality(batch) - 1
    BY <2>2, <2>3, FS_Subset
  <2>5. Cardinality(older) \in Nat /\ Cardinality(older) < MaxPerSave
    BY <1>2, <2>4, FS_CardinalityType
  <2>6. Cardinality(older) * Attempts < MaxAttempts
    BY <2>5 DEF BatchesAreStoredWhole
  <2> QED BY <2>6 DEF older
<1> QED BY <1>3 DEF Accepted

\* What has aged stays aged when a session is finished.
LEMMA AgedStays ==
  ASSUME TypeOK, TypeOK', Finished \subseteq Finished',
         \A s \in Finished : home'[s] = home[s],
         NEW s \in Finished, Aged(s)
  PROVE  Aged(s)'
<1> DEFINE before == {r \in Newer(Finished, s) : home[r] = home[s]}
           after == {r \in Newer(Finished', s) : home'[r] = home'[s]}
<1>1. before \in SUBSET after
  BY DEF Newer
<1>2. IsFiniteSet(Finished')
  <2>1. IsFiniteSet(SessionIds)
    BY FS_Interval, TrainerConstants DEF SessionIds
  <2>2. Finished' \in SUBSET SessionIds
    BY DEF TypeOK
  <2> QED BY <2>1, <2>2, FS_Subset
<1>3. IsFiniteSet(after)
  <2>1. after \in SUBSET Finished'
    BY DEF Newer
  <2> QED BY <1>2, <2>1, FS_Subset
<1> HIDE DEF before, after
<1>4. IsFiniteSet(before) /\ Cardinality(before) <= Cardinality(after)
  BY <1>1, <1>3, FS_Subset
<1>5. Cardinality(before) \in Nat /\ Cardinality(after) \in Nat /\ MaxKept \in Nat
  BY <1>3, <1>4, FS_CardinalityType, TrainerConstants
<1>6. Cardinality(before) >= MaxKept
  BY DEF Aged, before
<1>7. Cardinality(after) >= MaxKept
  BY <1>4, <1>5, <1>6
<1> QED BY <1>7 DEF Aged, after

\* localStorage drops a session only once as many newer ones were finished in it.
LEMMA DroppedIsAged ==
  ASSUME NEW all, IsFiniteSet(all), NEW owner, NEW list \in SUBSET all, NEW b,
         \A s \in list : owner[s] = b,
         NEW s \in list, s \notin Kept(list)
  PROVE  Cardinality({r \in Newer(all, s) : owner[r] = owner[s]}) >= MaxKept
<1> DEFINE newer == Newer(list, s)
           own == {r \in Newer(all, s) : owner[r] = owner[s]}
<1>1. newer \in SUBSET own
  BY DEF Newer
<1>2. IsFiniteSet(own)
  <2>1. own \in SUBSET all
    BY DEF Newer
  <2> QED BY <2>1, FS_Subset
<1>3. ~ (Cardinality(newer) < MaxKept)
  BY DEF Kept
<1> HIDE DEF newer, own
<1>4. IsFiniteSet(newer) /\ Cardinality(newer) <= Cardinality(own)
  BY <1>1, <1>2, FS_Subset
<1>5. Cardinality(newer) \in Nat /\ Cardinality(own) \in Nat /\ MaxKept \in Nat
  BY <1>2, <1>4, FS_CardinalityType, TrainerConstants
<1>6. Cardinality(own) >= MaxKept
  BY <1>3, <1>4, <1>5
<1> QED BY <1>6 DEF own

\* No list of sessions changes, except that pages close.
ListsKept ==
  /\ home' = home
  /\ \A b \in Browsers : disk'[b].sessions = disk[b].sessions
  /\ \A t \in Tabs : tab'[t].open => tab[t].open /\ tab'[t].sessions = tab[t].sessions

\* Steps that change no list keep the lists' part of the invariant.
LEMMA QuietStep ==
  ASSUME TypeOK, KeptInv, Counted \subseteq Counted', ListsKept
  PROVE  OwnSessions' /\ PageCoversDisk' /\ KeptOrCounted'
<1>1. Finished' = Finished
  BY DEF Finished, ListsKept
<1>2. OwnSessions'
  BY DEF KeptInv, OwnSessions, ListsKept
<1>3. PageCoversDisk'
  BY TrainerConstants DEF KeptInv, PageCoversDisk, ListsKept
<1>4. ASSUME NEW s \in Finished PROVE (s \in Counted \/ s \in disk[home[s]].sessions \/ Aged(s))'
  <2>1. home[s] \in Browsers
    BY DEF TypeOK
  <2>2. Aged(s) => Aged(s)'
    BY <1>1 DEF Aged, Newer, ListsKept
  <2> QED BY <2>1, <2>2 DEF KeptInv, KeptOrCounted, ListsKept
<1> QED BY <1>1, <1>2, <1>3, <1>4 DEF KeptOrCounted

\* Opening a page copies the list of its localStorage.
LEMMA OpenKeeps ==
  ASSUME TypeOK, KeptInv, NEW t \in Tabs, Open(t)
  PROVE  OwnSessions' /\ PageCoversDisk' /\ KeptOrCounted'
<1>1. UNCHANGED <<disk, rows, home>> /\ Finished' = Finished /\ Counted' = Counted
  BY DEF Open, Finished, Counted
<1>2. OwnSessions'
  BY <1>1 DEF KeptInv, OwnSessions
<1>3. ASSUME NEW u \in Tabs, tab'[u].open
      PROVE  /\ disk[BrowserOf[u]].sessions \subseteq tab'[u].sessions
             /\ \A s \in tab'[u].sessions : home[s] = BrowserOf[u]
  <2>1. CASE u = t
    <3>1. tab'[u].sessions = disk[BrowserOf[u]].sessions /\ BrowserOf[u] \in Browsers
      BY <2>1, TrainerConstants DEF Open, TypeOK
    <3> QED BY <3>1 DEF KeptInv, OwnSessions
  <2>2. CASE u # t
    BY <1>3, <2>2 DEF Open, TypeOK, KeptInv, PageCoversDisk
  <2> QED BY <2>1, <2>2
<1>4. PageCoversDisk'
  BY <1>1, <1>3 DEF PageCoversDisk
<1>5. KeptOrCounted'
  BY <1>1 DEF KeptInv, KeptOrCounted, Aged, Newer
<1> QED BY <1>2, <1>4, <1>5

\* A finished session reaches localStorage, and what it displaces has aged.
LEMMA FinishKeeps ==
  ASSUME TypeOK, TypeOK', KeptInv, OneTabPerBrowser, NEW t \in Tabs, Finish(t)
  PROVE  OwnSessions' /\ PageCoversDisk' /\ KeptOrCounted'
<1> DEFINE s == Cardinality(Finished) + 1
           kept == tab[t].sessions \cup {s}
           b == BrowserOf[t]
<1>1. b \in Browsers /\ s \notin Finished
  <2>1. s \in Nat /\ Finished = 1..(s - 1)
    BY FinishedIsInterval
  <2> HIDE DEF s
  <2> QED BY <2>1, TrainerConstants
<1>2. /\ Finished' = Finished \cup {s}
      /\ home'[s] = b
      /\ \A r \in Finished : home'[r] = home[r]
  BY <1>1 DEF Finish, Finished
<1>3. tab[t].open /\ tab[t].sessions \in SUBSET Finished
  BY PageByState DEF Finish, TypeOK
<1>4. /\ tab' = [tab EXCEPT ![t].sessions = kept]
      /\ disk' = [disk EXCEPT ![b].sessions = Kept(kept)]
      /\ Counted' = Counted
  BY DEF Finish, Counted
<1>5. /\ disk'[b].sessions = Kept(kept)
      /\ \A c \in Browsers \ {b} : disk'[c] = disk[c]
  BY <1>1, <1>4 DEF TypeOK
<1>6. /\ tab'[t].sessions = kept
      /\ \A u \in Tabs \ {t} : tab'[u] = tab[u]
  <2>1. tab[t] \in [open : {TRUE}, sessions : SUBSET Finished, remote : SUBSET Finished,
                    syncing : BOOLEAN]
    BY <1>3, OpenPage DEF TypeOK, PageOK
  <2> QED BY <1>4, <2>1 DEF TypeOK
<1> HIDE DEF s
<1>7. kept \in SUBSET Finished' /\ \A r \in kept : home'[r] = b
  BY <1>2, <1>3 DEF KeptInv, PageCoversDisk
<1>8. Kept(kept) \subseteq kept /\ disk[b].sessions \subseteq kept
  BY <1>3 DEF Kept, KeptInv, PageCoversDisk
<1> HIDE DEF kept, b
<1>9. OwnSessions'
  <2>1. ASSUME NEW c \in Browsers, NEW r \in disk'[c].sessions PROVE home'[r] = c
    <3>1. CASE c = b
      BY <1>5, <1>7, <1>8, <2>1, <3>1
    <3>2. CASE c # b
      <4>1. disk'[c] = disk[c] /\ r \in disk[c].sessions
        BY <1>5, <2>1, <3>2
      <4>2. r \in Finished
        BY <4>1 DEF TypeOK
      <4> QED BY <1>2, <4>1, <4>2 DEF KeptInv, OwnSessions
    <3> QED BY <3>1, <3>2
  <2> QED BY <2>1 DEF OwnSessions
<1>10. PageCoversDisk'
  <2>1. ASSUME NEW u \in Tabs, tab'[u].open
        PROVE  /\ disk'[BrowserOf[u]].sessions \subseteq tab'[u].sessions
               /\ \A r \in tab'[u].sessions : home'[r] = BrowserOf[u]
    <3>1. CASE u = t
      BY <1>5, <1>6, <1>7, <1>8, <3>1 DEF b
    <3>2. CASE u # t
      <4>1. BrowserOf[u] \in Browsers \ {b}
        BY <3>2, TrainerConstants DEF OneTabPerBrowser, b
      <4>2. disk'[BrowserOf[u]] = disk[BrowserOf[u]] /\ tab'[u] = tab[u]
        BY <1>5, <1>6, <3>2, <4>1
      <4>3. tab[u].open /\ tab[u].sessions \in SUBSET Finished
        BY <2>1, <4>2, PageByState DEF TypeOK
      <4> QED BY <1>2, <4>2, <4>3 DEF KeptInv, PageCoversDisk
    <3> QED BY <3>1, <3>2
  <2> QED BY <2>1 DEF PageCoversDisk
<1>11. ASSUME NEW r \in Finished'
       PROVE  r \in Counted' \/ r \in disk'[home'[r]].sessions \/ Aged(r)'
  <2>1. CASE r \in kept
    <3>1. CASE r \in Kept(kept)
      BY <1>5, <1>7, <2>1, <3>1
    <3>2. CASE r \notin Kept(kept)
      <4>1. IsFiniteSet(Finished')
        BY <1>2, FinishedIsInterval, FS_AddElement
      <4>2. Cardinality({q \in Newer(Finished', r) : home'[q] = home'[r]}) >= MaxKept
        BY <1>7, <2>1, <3>2, <4>1, DroppedIsAged
      <4> QED BY <4>2 DEF Aged
    <3> QED BY <3>1, <3>2
  <2>2. CASE r \notin kept
    <3>1. r \in Finished
      BY <1>2, <2>2 DEF kept
    <3>2. home'[r] = home[r] /\ home[r] \in Browsers
      BY <1>2, <3>1 DEF TypeOK
    <3>3. Aged(r) => Aged(r)'
      BY <1>2, <3>1, AgedStays
    <3>4. r \in disk[home[r]].sessions => r \in disk'[home[r]].sessions
      BY <1>5, <1>8, <2>2, <3>2
    <3> QED BY <1>4, <3>1, <3>2, <3>3, <3>4 DEF KeptInv, KeptOrCounted
  <2> QED BY <2>1, <2>2
<1>12. KeptOrCounted'
  BY <1>11 DEF KeptOrCounted
<1> QED BY <1>9, <1>10, <1>12

\* What a save that succeeded clears is in the account.
LEMMA SaveDoneKeeps ==
  ASSUME TypeOK, KeptInv, BatchesAreStoredWhole, NEW t \in Tabs, SaveDone(t)
  PROVE  OwnSessions' /\ PageCoversDisk' /\ KeptOrCounted'
<1> DEFINE b == BrowserOf[t]
<1>1. b \in Browsers /\ tab[t].open /\ save[t].batch \in SUBSET Finished
  BY TrainerConstants, PageByState DEF SaveDone, TypeOK
<1>2. UNCHANGED <<rows, home>> /\ Finished' = Finished /\ Counted' = Counted
  BY DEF SaveDone, Finished, Counted
<1>3. disk'[b].sessions = {} /\ \A c \in Browsers \ {b} : disk'[c] = disk[c]
  BY <1>1 DEF SaveDone, TypeOK
<1>4. tab'[t].sessions = {} /\ \A u \in Tabs \ {t} : tab'[u] = tab[u]
  <2>1. tab[t] \in [open : {TRUE}, sessions : SUBSET Finished, remote : SUBSET Finished,
                    syncing : BOOLEAN]
    BY <1>1, OpenPage DEF TypeOK, PageOK
  <2> QED BY <2>1 DEF SaveDone, TypeOK
<1>5. disk[b].sessions \subseteq Counted
  <2>1. save[t].at = "ok"
    BY DEF SaveDone
  <2>2. save[t].batch = tab[t].sessions /\ Cardinality(save[t].batch) <= MaxPerSave
    BY <2>1 DEF KeptInv, BatchIsList, BatchFits
  <2>3. save[t].batch \subseteq Counted
    BY <1>1, <2>1, <2>2, AcceptedWhole DEF KeptInv, AnsweredIsCounted
  <2> QED BY <1>1, <2>2, <2>3 DEF KeptInv, PageCoversDisk
<1> HIDE DEF b
<1>6. OwnSessions'
  BY <1>2, <1>3 DEF KeptInv, OwnSessions
<1>7. PageCoversDisk'
  <2>1. ASSUME NEW u \in Tabs, tab'[u].open
        PROVE  /\ disk'[BrowserOf[u]].sessions \subseteq tab'[u].sessions
               /\ \A r \in tab'[u].sessions : home[r] = BrowserOf[u]
    <3>1. BrowserOf[u] \in Browsers
      BY TrainerConstants
    <3>2. CASE u = t
      BY <1>3, <1>4, <3>2 DEF b
    <3>3. CASE u # t
      BY <1>3, <1>4, <2>1, <3>1, <3>3 DEF KeptInv, PageCoversDisk
    <3> QED BY <3>2, <3>3
  <2> QED BY <1>2, <2>1 DEF PageCoversDisk
<1>8. ASSUME NEW s \in Finished
      PROVE  s \in Counted \/ s \in disk'[home[s]].sessions \/ Aged(s)'
  <2>1. home[s] \in Browsers
    BY DEF TypeOK
  <2>2. Aged(s)' <=> Aged(s)
    BY <1>2 DEF Aged, Newer
  <2>3. CASE home[s] = b
    BY <1>5, <2>2, <2>3 DEF KeptInv, KeptOrCounted
  <2>4. CASE home[s] # b
    BY <1>3, <2>1, <2>2, <2>4 DEF KeptInv, KeptOrCounted
  <2> QED BY <2>3, <2>4
<1>9. KeptOrCounted'
  BY <1>2, <1>8 DEF KeptOrCounted
<1> QED BY <1>6, <1>7, <1>9

\* The list of a page that is saving stays as it was sent.
LEMMA ListStep ==
  ASSUME TypeOK, [Next]_vars, ~ DrillWhileSaving, NEW u \in Tabs,
         save[u].at \in {"sent", "profile", "stored", "ok"}
  PROVE  save'[u] = NoCall \/ tab'[u].sessions = tab[u].sessions
<1>1. tab[u].open /\ tab[u].syncing
  BY PageByState DEF TypeOK
<1>2. tab[u] \in [open : {TRUE}, sessions : SUBSET Finished, remote : SUBSET Finished,
                  syncing : BOOLEAN]
  BY <1>1, OpenPage DEF TypeOK, PageOK
<1>3. ASSUME NEW t \in Tabs, t # u, User(t) \/ Saving(t) \/ Loading(t)
      PROVE  tab'[u] = tab[u]
  BY <1>3 DEF TypeOK, User, Saving, Loading, Open, Finish, SaveStart, LoadStart, Close, Refuse,
     SaveProfile, SaveSessions, AnswerSave, Break, SaveDone, SaveFailed, AnswerLoad, LoadDone,
     LoadDropped
<1>4. ASSUME User(u) \/ Loading(u)
      PROVE  save'[u] = NoCall \/ tab'[u].sessions = tab[u].sessions
  BY <1>1, <1>2, <1>4 DEF TypeOK, User, Loading, Open, Finish, SaveStart, LoadStart, Close,
     AnswerLoad, LoadDone, LoadDropped
<1>5. ASSUME Saving(u)
      PROVE  save'[u] = NoCall \/ tab'[u].sessions = tab[u].sessions
  BY <1>5 DEF TypeOK, Saving, Refuse, SaveProfile, SaveSessions, AnswerSave, Break, SaveDone,
     SaveFailed
<1>6. ASSUME NEW batch \in stray, StoreStray(batch) \/ DropStray(batch)
      PROVE  tab' = tab
  BY <1>6 DEF StoreStray, DropStray
<1>7. CASE UNCHANGED vars
  BY <1>7 DEF vars
<1> QED BY <1>3, <1>4, <1>5, <1>6, <1>7 DEF Next

\* The part of the invariant that is about requests under way.
LEMMA BatchStep ==
  ASSUME TypeOK, KeptInv, [Next]_vars, ~ DrillWhileSaving
  PROVE  BatchIsList' /\ BatchFits' /\ AnsweredIsCounted'
<1>1. ASSUME NEW u \in Tabs, save'[u].at \in {"sent", "profile", "stored", "ok"}
      PROVE  /\ save'[u].batch = tab'[u].sessions
             /\ save'[u].at # "sent" => Cardinality(save'[u].batch) <= MaxPerSave
             /\ save'[u].at \in {"stored", "ok"} => Accepted(save'[u].batch) \subseteq Counted'
  <2>1. CASE save'[u] \in {NoCall, Failed}
    BY <1>1, <2>1 DEF NoCall, Failed
  <2>2. CASE save'[u] = save[u] /\ save'[u] # NoCall
    BY <1>1, <2>2, ListStep, CountedGrows DEF KeptInv, BatchIsList, BatchFits, AnsweredIsCounted
  <2>3. CASE SaveStart(u)
    <3>1. tab[u] \in [open : {TRUE}, sessions : SUBSET Finished, remote : SUBSET Finished,
                      syncing : BOOLEAN]
      BY <2>3, OpenPage DEF SaveStart, TypeOK, PageOK
    <3>2. tab'[u].sessions = tab[u].sessions
      BY <2>3, <3>1 DEF SaveStart, TypeOK
    <3>3. save'[u] = [at |-> "sent", batch |-> tab[u].sessions]
      BY <2>3 DEF SaveStart, TypeOK
    <3> QED BY <3>2, <3>3
  <2>4. CASE SaveProfile(u) \/ SaveSessions(u)
    <3>1. save[u] \in [at : {"sent", "profile", "stored"}, batch : SUBSET Finished]
      BY <2>4, SentType DEF SaveProfile, SaveSessions, TypeOK, PageOK
    <3>2. save'[u].batch = save[u].batch /\ tab'[u] = tab[u]
      BY <2>4, <3>1 DEF SaveProfile, SaveSessions, TypeOK
    <3>3. Cardinality(save[u].batch) <= MaxPerSave
      BY <2>4 DEF SaveProfile, SaveSessions, KeptInv, BatchFits
    <3>4. save'[u].at = "stored" => Accepted(save[u].batch) \subseteq Counted'
      <4>1. CASE SaveProfile(u)
        <5>1. save'[u].at = "profile"
          BY <3>1, <4>1 DEF SaveProfile, TypeOK
        <5> QED BY <5>1
      <4>2. CASE SaveSessions(u)
        <5>1. save[u].batch \in SUBSET Finished
          BY <3>1
        <5> QED BY <4>2, <5>1, StoredCounts DEF SaveSessions, Counted
      <4> QED BY <2>4, <4>1, <4>2
    <3>5. save'[u].at \in {"profile", "stored"}
      BY <2>4, <3>1 DEF SaveProfile, SaveSessions, TypeOK
    <3> QED BY <3>1, <3>2, <3>3, <3>4, <3>5 DEF KeptInv, BatchIsList
  <2>5. CASE AnswerSave(u)
    <3>1. /\ save'[u] = [at |-> "ok", batch |-> save[u].batch, stats |-> Counted]
          /\ tab' = tab /\ Counted' = Counted
      BY <2>5 DEF AnswerSave, TypeOK, Counted
    <3> QED BY <2>5, <3>1 DEF AnswerSave, KeptInv, BatchIsList, BatchFits, AnsweredIsCounted
  <2> QED BY <2>1, <2>2, <2>3, <2>4, <2>5, SaveStep
<1>2. BatchIsList'
  BY <1>1 DEF BatchIsList
<1>3. BatchFits'
  BY <1>1 DEF BatchFits
<1>4. AnsweredIsCounted'
  BY <1>1 DEF AnsweredIsCounted, Accepted
<1> QED BY <1>2, <1>3, <1>4

\* All other steps leave every list alone.
LEMMA OtherStepsAreQuiet ==
  ASSUME TypeOK, [Next]_vars,
         \A t \in Tabs : ~ Open(t) /\ ~ Finish(t) /\ ~ SaveDone(t)
  PROVE  ListsKept
<1>1. ASSUME NEW t \in Tabs, SaveStart(t) \/ SaveFailed(t)
      PROVE  ListsKept
  <2>1. tab[t].open
    BY <1>1, PageByState DEF SaveStart, SaveFailed, TypeOK
  <2>2. tab[t] \in [open : {TRUE}, sessions : SUBSET Finished, remote : SUBSET Finished,
                    syncing : BOOLEAN]
    BY <2>1, OpenPage DEF TypeOK, PageOK
  <2>3. tab'[t].sessions = tab[t].sessions
    BY <1>1, <2>2 DEF SaveStart, SaveFailed, TypeOK
  <2>4. \A u \in Tabs \ {t} : tab'[u] = tab[u]
    BY <1>1 DEF SaveStart, SaveFailed, TypeOK
  <2> QED BY <1>1, <2>1, <2>3, <2>4 DEF SaveStart, SaveFailed, ListsKept
<1>2. ASSUME NEW t \in Tabs, LoadDone(t)
      PROVE  ListsKept
  <2>1. tab[t].open /\ BrowserOf[t] \in Browsers
    BY <1>2, PageByState, TrainerConstants DEF LoadDone, TypeOK
  <2>2. tab[t] \in [open : {TRUE}, sessions : SUBSET Finished, remote : SUBSET Finished,
                    syncing : BOOLEAN]
    BY <2>1, OpenPage DEF TypeOK, PageOK
  <2>3. tab'[t].sessions = tab[t].sessions /\ \A u \in Tabs \ {t} : tab'[u] = tab[u]
    BY <1>2, <2>2 DEF LoadDone, TypeOK
  <2>4. \A b \in Browsers : disk'[b].sessions = disk[b].sessions
    <3>1. disk[BrowserOf[t]] \in [sessions : SUBSET Finished, remote : SUBSET Finished]
      BY <2>1 DEF TypeOK
    <3> QED BY <1>2, <2>1, <3>1 DEF LoadDone, TypeOK
  <2> QED BY <1>2, <2>1, <2>3, <2>4 DEF LoadDone, ListsKept
<1>3. ASSUME NEW t \in Tabs, Close(t)
      PROVE  ListsKept
  <2>1. ~ tab'[t].open /\ \A u \in Tabs \ {t} : tab'[u] = tab[u]
    BY <1>3 DEF Close, Closed, TypeOK
  <2> QED BY <1>3, <2>1 DEF Close, ListsKept
<1>4. ASSUME NEW t \in Tabs,
             \/ LoadStart(t) \/ Refuse(t) \/ SaveProfile(t) \/ SaveSessions(t) \/ AnswerSave(t)
             \/ Break(t) \/ AnswerLoad(t) \/ LoadDropped(t)
      PROVE  ListsKept
  BY <1>4 DEF LoadStart, Refuse, SaveProfile, SaveSessions, AnswerSave, Break, AnswerLoad, LoadDropped,
     ListsKept
<1>5. ASSUME NEW batch \in stray, StoreStray(batch) \/ DropStray(batch)
      PROVE  ListsKept
  BY <1>5 DEF StoreStray, DropStray, ListsKept
<1>6. CASE UNCHANGED vars
  BY <1>6 DEF vars, ListsKept
<1>7. ASSUME NEW t \in Tabs, User(t) \/ Saving(t) \/ Loading(t)
      PROVE  ListsKept
  <2>1. CASE User(t)
    BY <1>1, <1>3, <1>4, <2>1 DEF User
  <2>2. CASE Saving(t)
    BY <1>1, <1>4, <2>2 DEF Saving
  <2>3. CASE Loading(t)
    BY <1>2, <1>4, <2>3 DEF Loading
  <2> QED BY <1>7, <2>1, <2>2, <2>3
<1> QED BY <1>5, <1>6, <1>7 DEF Next

\* KeptInv is inductive when the three conditions hold.
LEMMA KeptStep ==
  ASSUME TypeOK, TypeOK', KeptInv, [Next]_vars,
         ~ DrillWhileSaving, OneTabPerBrowser, BatchesAreStoredWhole
  PROVE  KeptInv'
<1>1. OwnSessions' /\ PageCoversDisk' /\ KeptOrCounted'
  <2>1. ASSUME NEW t \in Tabs, Open(t) \/ Finish(t) \/ SaveDone(t)
        PROVE  OwnSessions' /\ PageCoversDisk' /\ KeptOrCounted'
    BY <2>1, OpenKeeps, FinishKeeps, SaveDoneKeeps
  <2>2. CASE \A t \in Tabs : ~ Open(t) /\ ~ Finish(t) /\ ~ SaveDone(t)
    BY <2>2, OtherStepsAreQuiet, CountedGrows, QuietStep
  <2> QED BY <2>1, <2>2
<1> QED BY <1>1, BatchStep DEF KeptInv

\* Nothing is finished at the start.
LEMMA InitKept == Init => KeptInv
<1> SUFFICES ASSUME Init PROVE KeptInv
  OBVIOUS
<1>1. Finished = {}
  BY DEF Init, Finished
<1>2. OwnSessions /\ KeptOrCounted
  BY <1>1 DEF Init, OwnSessions, KeptOrCounted
<1>3. PageCoversDisk
  <2>1. \A t \in Tabs : ~ tab[t].open
    BY DEF Init, Closed
  <2> QED BY <2>1 DEF PageCoversDisk
<1>4. BatchIsList /\ BatchFits /\ AnsweredIsCounted
  BY DEF Init, NoCall, BatchIsList, BatchFits, AnsweredIsCounted
<1> QED BY <1>2, <1>3, <1>4 DEF KeptInv

(***************************************************************************)
(* A finished session is in the account or waits in the browser, unless as *)
(* many newer ones as localStorage keeps came after it: whatever           *)
(* connections break and tabs close.  Each of the three conditions is      *)
(* needed: the user does not finish a session while saving, has one tab    *)
(* per browser, and no batch exceeds the attempts a save stores.           *)
(***************************************************************************)
THEOREM SessionsAreKept ==
  ASSUME ~ DrillWhileSaving, OneTabPerBrowser, BatchesAreStoredWhole
  PROVE  Spec => []NothingLost
<1>1. TypeOK /\ TypeOK' /\ KeptInv /\ [Next]_vars => KeptInv'
  BY KeptStep
<1>2. KeptInv => NothingLost
  BY DEF KeptInv, KeptOrCounted, NothingLost
<1> QED BY <1>1, <1>2, InitKept, TypeCorrect, PTL DEF Spec
=============================================================================
