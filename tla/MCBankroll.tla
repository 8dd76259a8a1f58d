----------------------------- MODULE MCBankroll -----------------------------
(* Values for model checking Bankroll on small instances.                  *)
EXTENDS Bankroll

\* Two picks on one match, as two pipelines meet them; the score wins one of
\* them and loses the other.
MCMatchOf == [k1 |-> "m1", k2 |-> "m1"]
MCMarketOf == [k1 |-> "fullTimeResult", k2 |-> "total_goals_over_under"]
MCSelectionOf == [k1 |-> "home", k2 |-> "over"]
MCScores == {<<2, 0>>}

\* The market name the football generator publishes.
MCPublishedMarketOf == [k1 |-> "match_outcome", k2 |-> "match_outcome"]
MCPublishedSelectionOf == [k1 |-> "home", k2 |-> "away"]

MCAllOn == {DefaultSettings}
MCOnOff == MCAllOn \cup {[DefaultSettings EXCEPT !.enabled = FALSE]}
=============================================================================
