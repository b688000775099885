------------------------------- MODULE MCHomePost -------------------------------
(***************************************************************************)
(* Eight people who can just form a party, some of them in several ways,   *)
(* and one who has yet to register.                                        *)
(***************************************************************************)
EXTENDS HomePost

CONSTANTS raid, desk, laptop

MCRoll == <<"amy", "bob", "cat", "dan", "eve", "fox", "gil", "hal", "zoe">>

At5(list) == [i \in DOMAIN list |-> Entry(list[i], 5)]

MCJobs ==
  "amy" :> <<Entry("pld", 5), Entry("war", 8), Entry("blm", 5)>> @@ "bob" :> At5(<<"gnb">>)
    @@ "cat" :> At5(<<"whm", "sch">>) @@ "dan" :> At5(<<"sge">>) @@ "eve" :> At5(<<"mnk", "drk">>)
    @@ "fox" :> At5(<<"drg">>) @@ "gil" :> At5(<<"brd">>) @@ "hal" :> At5(<<"smn">>)
    @@ "zoe" :> Absent

MCOffered == {<<"drk", "war">>}

MCSettings ==
  {[DefaultSettings EXCEPT !.exclusions = {{"pld", "sch"}, {}}],
   [DefaultSettings EXCEPT !.std_comp = FALSE, !.heal_mix = TRUE, !.melee = 2..4]}

\* The two dashboards do the same things.
Symmetry == Permutations(Dashboards)

MCJoined == [p \in Parties |-> IF p = Default THEN {"amy", "bob"} ELSE Names \ {"zoe"}]
================================================================================
