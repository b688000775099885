------------------------------- MODULE PartyPlan -------------------------------
(***************************************************************************)
(* Which parties a list of people can form (app/compute.py): each person   *)
(* takes one of the jobs they set, the constraints of the party decide     *)
(* which choices are allowed, and choices in which everybody keeps their   *)
(* role are shown once, by the best of them.                               *)
(*                                                                         *)
(* People are a sequence of records with a name and a list of entries, an  *)
(* entry being a job and a priority.  The progress reports of the stream   *)
(* and the order of the members within a party are left out.               *)
(***************************************************************************)
EXTENDS Integers, SequencesExt

(* The jobs (JOBS) *)

Tanks == {"pld", "war", "drk", "gnb"}
Pure == {"whm", "ast"}
Shield == {"sch", "sge"}
Melee == {"mnk", "drg", "nin", "sam", "vpr"}
Pranged == {"brd", "mch", "dnc"}
Caster == {"blm", "smn", "rdm", "pct"}
Selfish == {"mnk", "sam", "vpr", "mch", "blm", "pct"}
Healers == Pure \cup Shield
Dps == Melee \cup Pranged \cup Caster
Jobs == Tanks \cup Healers \cup Dps

Role(job) == IF job \in Tanks THEN "tank" ELSE IF job \in Healers THEN "healer" ELSE "dps"

\* What constraints_from_db and Constraints.from_dict give a party that saved none.
DefaultSettings ==
  [std_comp |-> TRUE, no_dupes |-> TRUE, heal_mix |-> FALSE,
   melee |-> 0..4, pranged |-> 0..4, caster |-> 0..4, selfish |-> 0..4, utility |-> 0..4,
   exclusions |-> {}]

---------------------------------------------------------------------------
(* The search                                                              *)

\* What the sequence has at these places, in its order.
Picked(s, places) ==
  LET upto[i \in 0..Len(s)] ==
        IF i = 0 THEN <<>>
        ELSE IF i \in places THEN Append(upto[i - 1], s[i])
        ELSE upto[i - 1]
  IN upto[Len(s)]

\* The sequence without what is not among JOBS.
Options(person) ==
  Picked(person.jobs, {i \in DOMAIN person.jobs : person.jobs[i].job \in Jobs})

\* Every choice of one option for each of the first n people, in the order in which the
\* depth-first search meets them.
AllChoices(people) ==
  LET upto[n \in 0..Len(people)] ==
        IF n = 0 THEN << <<>> >>
        ELSE LET earlier == upto[n - 1]
                 here == Options(people[n])
             IN FlattenSeq([k \in DOMAIN earlier |-> [o \in DOMAIN here |-> Append(earlier[k], here[o])]])
  IN upto[Len(people)]

CountIn(choice, jobs) == Cardinality({i \in DOMAIN choice : choice[i].job \in jobs})

JobsOf(choice) == {choice[i].job : i \in DOMAIN choice}

\* Mutant: one of the two healers is enough.
ValidUnmixed(s, choice) ==
  /\ s.std_comp => /\ CountIn(choice, Tanks) = 2 /\ CountIn(choice, Healers) = 2
                   /\ CountIn(choice, Dps) = 4
  /\ s.no_dupes => Cardinality(JobsOf(choice)) = Len(choice)
  /\ s.heal_mix => CountIn(choice, Pure) = 1 \/ CountIn(choice, Shield) = 1

Valid(s, choice) ==
  /\ s.std_comp => /\ CountIn(choice, Tanks) = 2 /\ CountIn(choice, Healers) = 2
                   /\ CountIn(choice, Dps) = 4
  /\ s.no_dupes => Cardinality(JobsOf(choice)) = Len(choice)
  /\ s.heal_mix => CountIn(choice, Pure) = 1 /\ CountIn(choice, Shield) = 1
  /\ \A group \in s.exclusions : group = {} \/ ~ group \subseteq JobsOf(choice)
  /\ CountIn(choice, Melee) \in s.melee
  /\ CountIn(choice, Pranged) \in s.pranged
  /\ CountIn(choice, Caster) \in s.caster
  /\ CountIn(choice, Selfish) \in s.selfish
  /\ CountIn(choice, Dps \ Selfish) \in s.utility

Score(choice) == SumFunction([i \in DOMAIN choice |-> choice[i].priority])

\* Who fills which role.
RoleGroup(people, choice) == {<<people[i].name, Role(choice[i].job)>> : i \in DOMAIN choice}

\* Mutant: the first choice met stands for its group.
FirstOf(choices) == choices[1]

\* max() returns the first of the best.
BestOf(choices) ==
  LET score == [k \in DOMAIN choices |-> Score(choices[k])]
      best == CHOOSE k \in DOMAIN choices :
        /\ \A j \in DOMAIN choices : score[j] <= score[k]
        /\ \A j \in 1..(k - 1) : score[j] < score[k]
  IN choices[best]

\* sort(key = score, reverse) keeps the order of equal scores.
ByScore(choices) ==
  LET score == [k \in DOMAIN choices |-> Score(choices[k])]
      ahead(i, j) == score[i] > score[j] \/ (score[i] = score[j] /\ i < j)
      rank(k) == Cardinality({j \in DOMAIN choices : ahead(j, k)})
      order == [n \in DOMAIN choices |-> CHOOSE k \in DOMAIN choices : rank(k) = n - 1]
  IN [n \in DOMAIN choices |-> choices[order[n]]]

\* The groups in the order in which their first choice was met.
CollapseByRoleGroup(people, choices) ==
  LET group == [k \in DOMAIN choices |-> RoleGroup(people, choices[k])]
      first == Picked([k \in DOMAIN choices |-> k],
                      {k \in DOMAIN choices : \A j \in 1..(k - 1) : group[j] # group[k]})
      OfGroup(g) == Picked(choices, {k \in DOMAIN choices : group[k] = g})
  IN ByScore([n \in DOMAIN first |-> BestOf(OfGroup(group[first[n]]))])

\* compute_parties_stream, when it is complete.
ComputePartiesStream(people, s, collapse) ==
  LET choices == AllChoices(people)
      results == Picked(choices, {k \in DOMAIN choices : Valid(s, choices[k])})
  IN [found |-> Len(results),
      distinct |-> Cardinality({RoleGroup(people, results[k]) : k \in DOMAIN results}),
      parties |-> IF collapse THEN CollapseByRoleGroup(people, results) ELSE results]

---------------------------------------------------------------------------
(* What a plan promises, in terms of who takes what                        *)

\* Every way to give each person one of their known entries that the settings allow.
Allowed(people, s) ==
  LET ids == DOMAIN people
      Takes(f, jobs) == {i \in ids : people[i].jobs[f[i]].job \in jobs}
      torn == {i \in ids : Len(people[i].jobs) > 1}
      picks == [torn -> UNION {DOMAIN people[i].jobs : i \in torn}]
      ways == {f \in {[i \in ids |-> IF i \in torn THEN g[i] ELSE 1] : g \in picks} :
                 \A i \in ids : f[i] \in DOMAIN people[i].jobs /\ people[i].jobs[f[i]].job \in Jobs}
      taken(f) == {people[i].jobs[f[i]].job : i \in ids}
  IN {f \in ways :
        /\ s.std_comp => <<2, 2, 4>> = <<Cardinality(Takes(f, Tanks)), Cardinality(Takes(f, Healers)),
                                         Cardinality(Takes(f, Dps))>>
        /\ s.no_dupes => \A i, j \in ids : i # j => people[i].jobs[f[i]].job # people[j].jobs[f[j]].job
        /\ s.heal_mix => Cardinality(Takes(f, Pure)) = 1 /\ Cardinality(Takes(f, Shield)) = 1
        /\ ~ \E group \in s.exclusions : group # {} /\ group \subseteq taken(f)
        /\ Cardinality(Takes(f, Melee)) \in s.melee /\ Cardinality(Takes(f, Pranged)) \in s.pranged
        /\ Cardinality(Takes(f, Caster)) \in s.caster /\ Cardinality(Takes(f, Selfish)) \in s.selfish
        /\ Cardinality(Takes(f, Dps) \ Takes(f, Selfish)) \in s.utility}

\* The plan counts every allowed choice, shows each division of the roles exactly once by
\* a choice no other of its kind beats, and the better ones first.
MeetsPromise(people, s, plan) ==
  LET allowed == Allowed(people, s)
      Roles(f) == {<<people[i].name, Role(people[i].jobs[f[i]].job)>> : i \in DOMAIN people}
      Taken(f) == [i \in DOMAIN people |-> people[i].jobs[f[i]]]
      Points(f) == SumFunction([i \in DOMAIN people |-> people[i].jobs[f[i]].priority])
      shown == plan.parties
      GroupOf(k) == {<<people[i].name, Role(shown[k][i].job)>> : i \in DOMAIN people}
  IN /\ plan.found = Cardinality(allowed)
     /\ plan.distinct = Cardinality({Roles(f) : f \in allowed})
     /\ {GroupOf(k) : k \in DOMAIN shown} = {Roles(f) : f \in allowed}
     /\ Len(shown) = plan.distinct
     /\ \A k \in DOMAIN shown : \E f \in allowed :
          /\ shown[k] = Taken(f)
          /\ \A g \in allowed : Roles(g) = Roles(f) => Points(g) <= Points(f)
     /\ \A k \in 2..Len(shown) : Score(shown[k]) <= Score(shown[k - 1])

================================================================================
