----------------------------- MODULE MCFrontend -----------------------------
(***************************************************************************)
(* The front end with three events from the server, of every kind, at any  *)
(* time after its window is made; and a window that changes either its     *)
(* width or its height.                                                    *)
(***************************************************************************)
EXTENDS Frontend

MCWindowSize == <<2, 2>>
MCSizes == {<<2, 2>>, <<2, 5>>, <<3, 2>>}
MCFrame == <<2, 3>>

\* The program ends, or waits for a key that is never pressed.
Ended == at \in {"exit", "killed"} /\ UNCHANGED vars

MCNext == Next \/ Ended
MCSpec == Init /\ [][MCNext]_vars /\ WF_vars(Loop \/ Teardown)
=============================================================================
