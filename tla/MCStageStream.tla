---------------------------- MODULE MCStageStream ---------------------------
(***************************************************************************)
(* An instance of StageStream for TLC.                                     *)
(***************************************************************************)
EXTENDS StageStream

\* The tab sends nothing more and every turn is over; only here may the system
\* stop.  (Whether the streams end as well is StreamsEnd's to say.)
Quiet ==
  /\ ~sending
  /\ \A t \in Turns : turn[t] \in {"idle", "stored", "raised"}
  /\ UNCHANGED vars

MCSpec == Init /\ [][Next \/ Quiet]_vars /\ Fairness
=============================================================================
