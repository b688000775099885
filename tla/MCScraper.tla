------------------------------- MODULE MCScraper -------------------------------
(***************************************************************************)
(* Two people share a character; one of them may link a second one, and    *)
(* may have been linked to a third, which is gone.                         *)
(***************************************************************************)
EXTENDS Scraper

CONSTANTS ann, ben, c1, c2, lost

MCLinks == {<<ann, c1>>, <<ben, c1>>, <<ben, c2>>, <<ben, lost>>}
================================================================================
