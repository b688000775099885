------------------------------ MODULE ScraperProofs ------------------------------
(***************************************************************************)
(* Proofs about the scraper for any links, characters and bounds: a task   *)
(* is lost by nothing but the end of its round, and no round of the loop   *)
(* ever links a person to a character.                                     *)
(***************************************************************************)
EXTENDS Scraper, SequenceTheorems, WellFoundedInduction, TLAPS

---------------------------------------------------------------------------
(* Rows kept as an injective sequence                                      *)

\* An element that occurs has a first occurrence.
LEMMA FirstOccurrence ==
  ASSUME NEW S, NEW s \in Seq(S), NEW e, NEW i \in 1..Len(s), s[i] = e
  PROVE  LET k == SelectInSeq(s, LAMBDA v : v = e)
         IN  k \in 1..Len(s) /\ s[k] = e
<1> DEFINE I == {j \in 1..Len(s) : s[j] = e}
<1>1. /\ I \subseteq Nat
      /\ i \in I
      /\ SelectInSeq(s, LAMBDA v : v = e) = Min(I)
  BY DEF SelectInSeq
<1>2. PICK k \in I : \A j \in I : ~(<<j, k>> \in OpToRel(<, Nat))
  BY <1>1, WFMin, NatLessThanWellFounded
<1>3. \A j \in I : k =< j
  <2> SUFFICES ASSUME NEW j \in I, j < k PROVE FALSE
    BY <1>1
  <2>1. j \in Nat /\ k \in Nat
    BY <1>1
  <2>. QED BY <2>1, <1>2 DEF OpToRel
<1>4. Min(I) \in I
  BY <1>2, <1>3 DEF Min
<1>. QED BY <1>1, <1>4

\* What is left of a sequence once the element at k is taken out.
LEMMA RemovedAt ==
  ASSUME NEW S, NEW s \in Seq(S), NEW k \in 1..Len(s)
  PROVE  /\ RemoveAt(s, k) \in Seq(S)
         /\ Len(RemoveAt(s, k)) = Len(s) - 1
         /\ \A i \in 1..(Len(s) - 1) :
              RemoveAt(s, k)[i] = IF i < k THEN s[i] ELSE s[i + 1]
<1> DEFINE a == SubSeq(s, 1, k - 1)
           b == SubSeq(s, k + 1, Len(s))
<1>0. Len(s) \in Nat /\ k \in Nat /\ \A i \in 1..Len(s) : s[i] \in S
  BY ElementOfSeq, LenProperties
<1>1. /\ a \in Seq(S)
      /\ Len(a) = k - 1
      /\ \A i \in 1..(k - 1) : a[i] = s[i]
  <2>1. \A i \in 1..(k - 1) : s[i] \in S
    BY <1>0
  <2>. QED BY <1>0, <2>1, SubSeqProperties, Z3
<1>2. /\ b \in Seq(S)
      /\ Len(b) = Len(s) - k
      /\ \A i \in 1..(Len(s) - k) : b[i] = s[k + i]
  <2>1. \A i \in (k + 1)..Len(s) : s[i] \in S
    BY <1>0
  <2>2. /\ b \in Seq(S)
        /\ Len(b) = IF k + 1 <= Len(s) THEN Len(s) - (k + 1) + 1 ELSE 0
        /\ \A i \in 1..(Len(s) - (k + 1) + 1) : b[i] = s[(k + 1) + i - 1]
    BY <1>0, <2>1, SubSeqProperties
  <2>. QED BY <1>0, <2>2
<1> HIDE DEF a, b
<1>3. /\ a \o b \in Seq(S)
      /\ Len(a \o b) = Len(a) + Len(b)
      /\ \A i \in 1..(Len(a) + Len(b)) : (a \o b)[i] = IF i <= Len(a) THEN a[i] ELSE b[i - Len(a)]
  BY <1>1, <1>2, ConcatProperties
<1>4. RemoveAt(s, k) = a \o b
  BY DEF RemoveAt, a, b
<1>5. ASSUME NEW i \in 1..(Len(s) - 1)
      PROVE  (a \o b)[i] = IF i < k THEN s[i] ELSE s[i + 1]
  <2>1. i \in 1..(Len(a) + Len(b)) /\ i \in Nat
    BY <1>0, <1>1, <1>2
  <2>2. CASE i < k
    <3>1. i \in 1..(k - 1) /\ i <= Len(a)
      BY <2>1, <2>2, <1>0, <1>1
    <3>. QED BY <3>1, <2>1, <2>2, <1>1, <1>3
  <2>3. CASE ~(i < k)
    <3>1. i - Len(a) \in 1..(Len(s) - k) /\ ~(i <= Len(a)) /\ k + (i - Len(a)) = i + 1
      BY <2>1, <2>3, <1>0, <1>1
    <3>. QED BY <3>1, <2>1, <2>3, <1>2, <1>3
  <2>. QED BY <2>2, <2>3
<1>6. Len(a \o b) = Len(s) - 1
  BY <1>0, <1>1, <1>2, <1>3
<1>. QED BY <1>3, <1>4, <1>5, <1>6

\* In an injective sequence, taking out an element leaves just the others.
LEMMA Without ==
  ASSUME NEW S, NEW s \in Seq(S), IsInjective(s), NEW e
  PROVE  /\ RemoveFirst(s, e) \in Seq(S)
         /\ IsInjective(RemoveFirst(s, e))
         /\ ToSet(RemoveFirst(s, e)) = ToSet(s) \ {e}
         /\ Len(RemoveFirst(s, e)) = IF e \in ToSet(s) THEN Len(s) - 1 ELSE Len(s)
<1> DEFINE t == RemoveFirst(s, e)
           k == SelectInSeq(s, LAMBDA v : v = e)
<1>0. Len(s) \in Nat /\ DOMAIN s = 1..Len(s)
  BY LenProperties
<1>1. CASE ~(\E i \in 1..Len(s) : s[i] = e)
  <2>1. t = s /\ e \notin ToSet(s)
    BY <1>0, <1>1 DEF RemoveFirst, ToSet
  <2>. QED BY <2>1
<1>2. CASE \E i \in 1..Len(s) : s[i] = e
  <2>1. t = RemoveAt(s, k) /\ k \in 1..Len(s) /\ s[k] = e
    <3>1. k \in 1..Len(s) /\ s[k] = e
      BY <1>2, FirstOccurrence
    <3>2. t = RemoveAt(s, k)
      BY <1>2 DEF RemoveFirst
    <3>. QED BY <3>1, <3>2
  <2> HIDE DEF t, k
  <2>2. /\ t \in Seq(S)
        /\ Len(t) = Len(s) - 1
        /\ \A i \in 1..(Len(s) - 1) : t[i] = IF i < k THEN s[i] ELSE s[i + 1]
    BY <2>1, RemovedAt
  <2>3. DOMAIN t = 1..(Len(s) - 1)
    BY <2>2, LenProperties
  <2>4. IsInjective(t)
    <3> SUFFICES ASSUME NEW i \in 1..(Len(s) - 1), NEW j \in 1..(Len(s) - 1), t[i] = t[j]
                 PROVE  i = j
      BY <2>3 DEF IsInjective
    <3> DEFINE from(n) == IF n < k THEN n ELSE n + 1
    <3>1. /\ from(i) \in DOMAIN s /\ from(j) \in DOMAIN s
          /\ s[from(i)] = s[from(j)]
      BY <1>0, <2>1, <2>2
    <3>2. from(i) = from(j)
      BY <3>1 DEF IsInjective
    <3>. QED BY <3>2, <1>0, <2>1
  <2>5. ToSet(t) \subseteq ToSet(s) \ {e}
    <3> SUFFICES ASSUME NEW i \in 1..(Len(s) - 1) PROVE t[i] \in ToSet(s) \ {e}
      BY <2>3 DEF ToSet
    <3> DEFINE m == IF i < k THEN i ELSE i + 1
    <3>1. m \in DOMAIN s /\ t[i] = s[m] /\ m # k /\ k \in DOMAIN s
      BY <1>0, <2>1, <2>2
    <3>2. s[m] # e
      BY <3>1, <2>1 DEF IsInjective
    <3>. QED BY <3>1, <3>2 DEF ToSet
  <2>6. ToSet(s) \ {e} \subseteq ToSet(t)
    <3> SUFFICES ASSUME NEW m \in 1..Len(s), s[m] # e PROVE s[m] \in ToSet(t)
      BY <1>0 DEF ToSet
    <3> DEFINE i == IF m < k THEN m ELSE m - 1
    <3>1. m # k
      BY <2>1
    <3>2. i \in 1..(Len(s) - 1) /\ t[i] = s[m]
      BY <3>1, <1>0, <2>1, <2>2
    <3>. QED BY <3>2, <2>3 DEF ToSet
  <2>7. e \in ToSet(s)
    BY <2>1, <1>0 DEF ToSet
  <2>. QED BY <2>2, <2>4, <2>5, <2>6, <2>7 DEF t
<1>. QED BY <1>1, <1>2

\* Merging a row: it is moved behind the others, or added there.
LEMMA Merging ==
  ASSUME NEW S, NEW s \in Seq(S), IsInjective(s), NEW e \in S
  PROVE  /\ Append(RemoveFirst(s, e), e) \in Seq(S)
         /\ IsInjective(Append(RemoveFirst(s, e), e))
         /\ ToSet(Append(RemoveFirst(s, e), e)) = ToSet(s) \cup {e}
         /\ Len(Append(RemoveFirst(s, e), e)) = IF e \in ToSet(s) THEN Len(s) ELSE Len(s) + 1
<1> DEFINE r == RemoveFirst(s, e)
           t == Append(r, e)
<1>1. /\ r \in Seq(S) /\ IsInjective(r)
      /\ ToSet(r) = ToSet(s) \ {e}
      /\ Len(r) = IF e \in ToSet(s) THEN Len(s) - 1 ELSE Len(s)
  BY Without
<1>0. Len(s) \in Nat /\ Len(r) \in Nat /\ DOMAIN r = 1..Len(r)
  BY <1>1, LenProperties
<1> HIDE DEF r
<1>2. /\ t \in Seq(S)
      /\ Len(t) = Len(r) + 1
      /\ \A i \in 1..Len(r) : t[i] = r[i]
      /\ t[Len(r) + 1] = e
  BY <1>1, AppendProperties
<1>3. DOMAIN t = 1..(Len(r) + 1)
  BY <1>2, LenProperties
<1> HIDE DEF t
<1>4. \A i \in 1..Len(r) : r[i] # e
  BY <1>0, <1>1 DEF ToSet
<1>5. IsInjective(t)
  <2> SUFFICES ASSUME NEW i \in 1..(Len(r) + 1), NEW j \in 1..(Len(r) + 1), t[i] = t[j]
               PROVE  i = j
    BY <1>3 DEF IsInjective
  <2>1. CASE i \in 1..Len(r) /\ j \in 1..Len(r)
    BY <2>1, <1>0, <1>1, <1>2 DEF IsInjective
  <2>2. CASE ~(i \in 1..Len(r) /\ j \in 1..Len(r))
    BY <2>2, <1>0, <1>2, <1>4
  <2>. QED BY <2>1, <2>2
<1>6. ToSet(t) = ToSet(r) \cup {e}
  <2>1. ToSet(t) = {t[i] : i \in 1..(Len(r) + 1)} /\ ToSet(r) = {r[i] : i \in 1..Len(r)}
    BY <1>0, <1>3 DEF ToSet
  <2>2. 1..(Len(r) + 1) = (1..Len(r)) \cup {Len(r) + 1}
    BY <1>0
  <2>. QED BY <2>1, <2>2, <1>2
<1>7. Len(t) = IF e \in ToSet(s) THEN Len(s) ELSE Len(s) + 1
  BY <1>0, <1>1, <1>2
<1>. QED BY <1>1, <1>2, <1>5, <1>6, <1>7 DEF t, r

---------------------------------------------------------------------------
(* Type correctness                                                        *)

\* What storing a link does to the links, whoever stores it: it keeps the table well
\* formed, adds at most that link and loses none.
LEMMA StampLinkKeeps ==
  ASSUME TypeOK, NEW l \in People \X Chars, StampLink(l)
  PROVE  /\ links' \in Seq(People \X Chars)
         /\ IsInjective(links')
         /\ ToSet(links') = ToSet(links) \cup {l}
         /\ stale' \in 0..Len(links')
<1>1. /\ links' \in Seq(People \X Chars)
      /\ IsInjective(links')
      /\ ToSet(links') = ToSet(links) \cup {l}
      /\ Len(links') = IF l \in ToSet(links) THEN Len(links) ELSE Len(links) + 1
  BY Merging DEF TypeOK, StampLink, Stamped
<1>2. Len(links) \in Nat /\ stale \in 0..Len(links)
  BY LenProperties DEF TypeOK
<1>3. IsStale(l) => stale - 1 \in 0..Len(links)
  BY <1>2 DEF IsStale
<1>4. stale' \in 0..Len(links')
  BY <1>1, <1>2, <1>3 DEF StampLink
<1>. QED BY <1>1, <1>4

\* The links of a character are rows of the table.
LEMMA LinksTyped ==
  ASSUME TypeOK
  PROVE  /\ ToSet(links) \subseteq People \X Chars
         /\ \A c : LinksOf(c) \subseteq ToSet(links)
         /\ \A c : \A l \in LinksOf(c) : l[1] \in People /\ l = <<l[1], c>>
<1>1. ToSet(links) \subseteq People \X Chars
  BY ElementOfSeq, LenProperties DEF TypeOK, ToSet
<1>2. \A c : LinksOf(c) \subseteq ToSet(links)
  BY DEF LinksOf
<1>3. \A c : \A l \in LinksOf(c) : l \in People \X Chars /\ l[2] = c
  BY <1>1 DEF LinksOf
<1>. QED BY <1>1, <1>2, <1>3

\* The first state is well typed.
LEMMA TypeInit == Init => TypeOK
<1> SUFFICES ASSUME Init PROVE TypeOK
  OBVIOUS
<1>1. links \in Seq(People \X Chars) /\ IsInjective(links) /\ stale \in 0..Len(links)
  <2>1. CASE links = <<>>
    BY <2>1 DEF Init, IsInjective
  <2>2. CASE \E l \in Links : links = <<l>>
    <3>1. PICK l \in Links : links = <<l>>
      BY <2>2
    <3>2. l \in People \X Chars
      BY ScraperConstants
    <3>. QED BY <3>1, <3>2 DEF Init, IsInjective
  <2>. QED BY <2>1, <2>2 DEF Init
<1>2. tasks \in Seq(Chars) /\ IsInjective(tasks)
  BY DEF Init, IsInjective
<1>. QED BY <1>1, <1>2, ScraperConstants DEF Init, TypeOK, Resting, Round

LEMMA TypeNext == TypeOK /\ [Next]_vars => TypeOK'
<1> SUFFICES ASSUME TypeOK, [Next]_vars PROVE TypeOK'
  OBVIOUS
<1> USE DEF TypeOK
<1>1. CASE PickTask
  <2>1. Head(tasks) \in Chars
    BY <1>1, HeadTailProperties DEF PickTask
  <2>2. PersonsFor(Head(tasks)) \subseteq People \cup {Nobody}
    BY LinksTyped DEF PersonsFor
  <2>. QED BY <1>1, <2>1, <2>2 DEF PickTask, Round
<1>2. CASE PickLink
  <2>1. 1 \in 1..Len(links)
    BY <1>2, LenProperties DEF PickLink
  <2>2. links[1] \in People \X Chars
    BY <2>1, ElementOfSeq
  <2>. QED BY <1>2, <2>2 DEF PickLink, Round
<1>3. CASE NothingToDo
  BY <1>3 DEF NothingToDo, Resting, Round
<1>4. CASE PickFails
  BY <1>4 DEF PickFails, Resting, Round
<1>5. CASE Fetch
  BY <1>5 DEF Fetch, Moved
<1>6. CASE FetchFails
  BY <1>6 DEF FetchFails, Resting, Round, TasksAfterFailure
<1>7. CASE CacheSheet
  BY <1>7 DEF CacheSheet, Moved
<1>8. CASE StampFirst
  <2>1. /\ links' \in Seq(People \X Chars) /\ IsInjective(links')
        /\ stale' \in 0..Len(links')
    <3>1. CASE LinksOf(loop.char) = {}
      BY <1>8, <3>1 DEF StampFirst
    <3>2. CASE LinksOf(loop.char) # {}
      <4>1. PICK l \in LinksOf(loop.char) : StampLink(l)
        BY <1>8, <3>2 DEF StampFirst
      <4>2. l \in People \X Chars
        BY LinksTyped
      <4>. QED BY <4>1, <4>2, StampLinkKeeps
    <3>. QED BY <3>1, <3>2
  <2>. QED BY <1>8, <2>1 DEF StampFirst, Moved
<1>9. CASE StampPicked
  <2>1. /\ links' \in Seq(People \X Chars) /\ IsInjective(links')
        /\ stale' \in 0..Len(links')
    <3>1. CASE LinkToStamp = {}
      BY <1>9, <3>1 DEF StampPicked
    <3>2. CASE LinkToStamp # {}
      <4>1. PICK l \in LinkToStamp : StampLink(l)
        BY <1>9, <3>2 DEF StampPicked
      <4>2. l = <<loop.person, loop.char>> /\ loop.person # Nobody
        BY <3>2 DEF LinkToStamp
      <4>3. l \in People \X Chars
        BY <1>9, <4>2 DEF StampPicked
      <4>. QED BY <4>1, <4>3, StampLinkKeeps
    <3>. QED BY <3>1, <3>2
  <2>. QED BY <1>9, <2>1 DEF StampPicked, Moved
<1>10. CASE FinishRound
  <2>1. tasks' \in Seq(Chars) /\ IsInjective(tasks')
    BY <1>10, Without DEF FinishRound, TasksAfterRound
  <2>. QED BY <1>10, <2>1 DEF FinishRound
<1>11. CASE Crash
  BY <1>11, ScraperConstants DEF Crash, Resting, Round
<1>12. CASE LinkAges
  BY <1>12, LenProperties DEF LinkAges
<1>13. ASSUME NEW c \in Chars, SheetAges(c) PROVE TypeOK'
  BY <1>13 DEF SheetAges
<1>14. ASSUME NEW c \in Chars, Recheck(c) PROVE TypeOK'
  <2>1. tasks' \in Seq(Chars) /\ IsInjective(tasks')
    BY <1>14, Merging DEF Recheck
  <2>. QED BY <1>14, <2>1, ScraperConstants DEF Recheck
<1>15. ASSUME NEW l \in Links, SetLodestone(l) PROVE TypeOK'
  <2>1. l \in People \X Chars
    BY ScraperConstants
  <2>2. /\ links' \in Seq(People \X Chars) /\ IsInjective(links')
        /\ stale' \in 0..Len(links')
    BY <1>15, <2>1, StampLinkKeeps DEF SetLodestone
  <2>. QED BY <1>15, <2>1, <2>2 DEF SetLodestone
<1>16. CASE RoundAborts
  BY <1>16, ScraperConstants DEF RoundAborts, Resting, Round
<1>17. CASE UNCHANGED vars
  BY <1>17 DEF vars
<1>. QED
  BY <1>1, <1>2, <1>3, <1>4, <1>5, <1>6, <1>7, <1>8, <1>9, <1>10, <1>11, <1>12, <1>13, <1>14,
     <1>15, <1>16, <1>17 DEF Next, Work

\* Every table the scraper shares with the members stays well formed: one row for a
\* character's task and for a link, whatever is merged and deleted in between.
THEOREM TypeCorrect == FairSpec => []TypeOK
<1>1. FairSpec => Init /\ [][Next]_vars
  BY PTL DEF FairSpec
<1>. QED BY <1>1, TypeInit, TypeNext, PTL

---------------------------------------------------------------------------
(* Tasks                                                                   *)

\* One step of the scraper or of a member deletes no task but the one of the round that
\* ends with it.
LEMMA TaskStep ==
  ASSUME TypeOK, [Next]_vars, NEW c \in Chars, c \in ToSet(tasks), c \notin ToSet(tasks')
  PROVE  loop.at = "posting" /\ loop.char = c
<1>1. CASE FinishRound
  <2>1. tasks' = tasks \/ ToSet(tasks') = ToSet(tasks) \ {loop.char}
    BY <1>1, Without DEF FinishRound, TasksAfterRound, TypeOK
  <2>. QED BY <1>1, <2>1 DEF FinishRound
<1>2. ASSUME NEW d \in Chars, Recheck(d) PROVE FALSE
  <2>1. ToSet(tasks') = ToSet(tasks) \cup {d}
    BY <1>2, Merging DEF Recheck, TypeOK
  <2>. QED BY <2>1
<1>3. CASE UNCHANGED tasks
  BY <1>3
<1>4. \/ FinishRound
      \/ \E d \in Chars : Recheck(d)
      \/ UNCHANGED tasks
  BY DEF Next, Work, PickTask, PickLink, NothingToDo, PickFails, Fetch, FetchFails,
         TasksAfterFailure, CacheSheet, StampFirst, StampPicked, RoundAborts, Crash, LinkAges,
         SheetAges,
         SetLodestone, vars
<1>. QED BY <1>1, <1>2, <1>3, <1>4

\* A task leaves the table only with the end of its own round, whatever fails, whoever
\* dies and however often it is asked for again meanwhile.
THEOREM TasksSurvive == FairSpec => TaskSurvives
<1>1. FairSpec => [][Next]_vars
  BY PTL DEF FairSpec
<1>2. TypeOK /\ [Next]_vars =>
        [\A c \in Chars : Queued(c) /\ ~Queued(c)' => loop.at = "posting" /\ loop.char = c]_vars
  BY TaskStep DEF Queued
<1>. QED BY <1>1, <1>2, TypeCorrect, PTL DEF TaskSurvives

---------------------------------------------------------------------------
(* Links                                                                   *)

\* The person a round carries is linked to the round's character: since the links are
\* never deleted this stays so over the awaits of the round, and is why the merge at its
\* end inserts nothing.
PickedIsLinked ==
  loop.person # Nobody => <<loop.person, loop.char>> \in ToSet(links)

LEMMA PickedInit == Init => PickedIsLinked
BY DEF Init, PickedIsLinked, Resting, Round

\* The links only grow, and without /setlodestone they stay what they are.
LEMMA LinkStep ==
  ASSUME TypeOK, PickedIsLinked, [Next]_vars
  PROVE  /\ ToSet(links) \subseteq ToSet(links')
         /\ ToSet(links') # ToSet(links) => UNCHANGED loop
<1>1. CASE StampFirst
  <2>1. ASSUME NEW l \in LinksOf(loop.char), StampLink(l) PROVE ToSet(links') = ToSet(links)
    BY <2>1, LinksTyped, StampLinkKeeps
  <2>. QED BY <1>1, <2>1 DEF StampFirst
<1>2. CASE StampPicked
  <2>1. ASSUME NEW l \in LinkToStamp, StampLink(l) PROVE ToSet(links') = ToSet(links)
    <3>1. l = <<loop.person, loop.char>> /\ loop.person # Nobody
      BY <2>1 DEF LinkToStamp
    <3>2. l \in ToSet(links)
      BY <3>1 DEF PickedIsLinked
    <3>. QED BY <2>1, <3>2, LinksTyped, StampLinkKeeps
  <2>. QED BY <1>2, <2>1 DEF StampPicked
<1>3. ASSUME NEW l \in Links, SetLodestone(l)
      PROVE  ToSet(links) \subseteq ToSet(links') /\ UNCHANGED loop
  <2>1. l \in People \X Chars
    BY ScraperConstants
  <2>. QED BY <1>3, <2>1, StampLinkKeeps DEF SetLodestone
<1>4. CASE UNCHANGED links
  BY <1>4
<1>5. \/ StampFirst \/ StampPicked
      \/ \E l \in Links : SetLodestone(l)
      \/ UNCHANGED links
  BY DEF Next, Work, PickTask, PickLink, NothingToDo, PickFails, Fetch, FetchFails,
         CacheSheet, FinishRound, RoundAborts, Crash, LinkAges, SheetAges, Recheck, vars
<1>. QED BY <1>1, <1>2, <1>3, <1>4, <1>5

LEMMA PickedNext == TypeOK /\ PickedIsLinked /\ [Next]_vars => PickedIsLinked'
<1> SUFFICES ASSUME TypeOK, PickedIsLinked, [Next]_vars PROVE PickedIsLinked'
  OBVIOUS
<1>1. CASE PickTask
  <2>1. PICK p \in PersonsFor(Head(tasks)) : loop' = Round("fetching", Head(tasks), p, TRUE)
    BY <1>1 DEF PickTask
  <2>2. p # Nobody => <<p, Head(tasks)>> \in ToSet(links)
    BY LinksTyped DEF PersonsFor
  <2>. QED BY <1>1, <2>1, <2>2 DEF PickTask, PickedIsLinked, Round
<1>2. CASE PickLink
  <2>1. 1 \in DOMAIN links
    BY <1>2, LenProperties DEF PickLink, TypeOK
  <2>2. links[1] \in ToSet(links) /\ links[1] \in People \X Chars
    BY <2>1, LinksTyped DEF ToSet
  <2>3. links[1] = <<links[1][1], links[1][2]>>
    BY <2>2
  <2>. QED BY <1>2, <2>2, <2>3 DEF PickLink, PickedIsLinked, Round
<1>3. CASE loop'.person = Nobody
  BY <1>3 DEF PickedIsLinked
<1>4. CASE loop'.person = loop.person /\ loop'.char = loop.char
  BY <1>4, LinkStep DEF PickedIsLinked
<1>5. CASE NothingToDo \/ PickFails \/ FetchFails \/ RoundAborts \/ Crash
  BY <1>3, <1>5 DEF NothingToDo, PickFails, FetchFails, RoundAborts, Crash, Resting, Round
<1>6. CASE Fetch \/ CacheSheet \/ StampFirst \/ StampPicked \/ FinishRound
  BY <1>4, <1>6 DEF Fetch, CacheSheet, StampFirst, StampPicked, FinishRound, Moved, TypeOK
<1>7. CASE LinkAges \/ UNCHANGED vars
  BY <1>4, <1>7 DEF LinkAges, vars
<1>8. ASSUME NEW c \in Chars, SheetAges(c) \/ Recheck(c) PROVE PickedIsLinked'
  BY <1>4, <1>8 DEF SheetAges, Recheck
<1>9. ASSUME NEW l \in Links, SetLodestone(l) PROVE PickedIsLinked'
  BY <1>4, <1>9 DEF SetLodestone
<1>. QED BY <1>1, <1>2, <1>5, <1>6, <1>7, <1>8, <1>9 DEF Next, Work

\* No round of the scraper decides who is linked to whom.
THEOREM LinksAreMembersOwn == FairSpec => ScraperLinksNobody
<1>1. FairSpec => Init /\ [][Next]_vars
  BY PTL DEF FairSpec
<1>2. FairSpec => []PickedIsLinked
  BY <1>1, PickedInit, PickedNext, TypeCorrect, PTL
<1>3. TypeOK /\ PickedIsLinked /\ [Next]_vars =>
        [ToSet(links') # ToSet(links) => UNCHANGED loop]_vars
  BY LinkStep
<1>. QED BY <1>1, <1>2, <1>3, TypeCorrect, PTL DEF ScraperLinksNobody
================================================================================
