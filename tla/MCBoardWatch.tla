----------------------------- MODULE MCBoardWatch -----------------------------
(***************************************************************************)
(* One worker of the deployed kind, which serves one request at a time,    *)
(* and one that gives every request a thread, as app.py does; or, as       *)
(* deploy/ffxiv-flask.service starts them, two of the first kind.          *)
(***************************************************************************)
EXTENDS BoardWatch, TLC

CONSTANTS sync, sync2, threaded

MCWorkers == {sync, threaded}

MCSlots == (sync :> 1) @@ (threaded :> 12)

Deployed == {sync, sync2}

DeployedSlots == [w \in Deployed |-> 1]
===============================================================================
