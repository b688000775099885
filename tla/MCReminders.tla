----------------------------- MODULE MCReminders -----------------------------
(***************************************************************************)
(* A week of two days of two minutes; a daily and a weekly reminder that   *)
(* may fall on the same minute.                                            *)
(***************************************************************************)
EXTENDS Reminders

CONSTANTS q1, alice, bob

MCEntries == {<<q1, alice>>, <<q1, bob>>}

MCMovers == {<<q1, alice>>}

Choice(frequency, minute, day) == [frequency |-> frequency, minute |-> minute, day |-> day]

Daily == Choice("daily", 1, Everyday)

\* A weekly reminder, one whose day is missing, and a time that does not exist.
MCChoices == {Choice("weekly", 1, 1), Choice("weekly", 1, -1), Choice("daily", 2, 0)}
==============================================================================
