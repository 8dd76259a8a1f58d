------------------------------ MODULE MCRecords ------------------------------
(* The privacy requests and the feed of a match in one run.  They share no    *)
(* variable and every property is about one of them, so each is explored      *)
(* alone: the feed while no request has been submitted, the requests when     *)
(* nothing is scheduled and the match is long over.  Every behaviour of a     *)
(* component is a behaviour of Spec.                                          *)
EXTENDS PrivacyRequests, MatchFeed

recordVars == <<privacyVars, feedVars>>

\* The reconciling poll of football_data beside another sync, or nothing.
Beside(provider) == {<<"reconcile", Polled>>, <<"results", provider>>}
MCCastings == {{}} \cup {Beside(p) : p \in Providers}
MCReliability == [p \in Providers |-> IF p = Polled THEN 95 ELSE 100]

Init == PrivacyInit /\ FeedInit

FeedAlone ==
    /\ PrivacyInit /\ kind = "data_access" /\ held = FALSE
    /\ FeedNext /\ UNCHANGED privacyVars

PrivacyAlone ==
    /\ cast = {} /\ clock = "stale"
    /\ PrivacyNext /\ UNCHANGED feedVars

\* With nothing scheduled, only time passes.
TimePasses == cast = {} /\ Tick /\ UNCHANGED privacyVars

Next == FeedAlone \/ PrivacyAlone \/ TimePasses

Spec == Init /\ [][Next]_recordVars /\ FeedFairness

RecordsTypeOK == PrivacyTypeOK /\ FeedTypeOK
=============================================================================
