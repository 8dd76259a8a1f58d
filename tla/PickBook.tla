------------------------------ MODULE PickBook ------------------------------
(***************************************************************************)
(* What the selection engine promises about the live picks of one match,   *)
(* with no settings, pointers, retries or readers: a pick is approved only *)
(* when its tuple is free of other picks once it is in and the match has   *)
(* room for it, a forced pick is always added, and picks only ever leave   *)
(* because a candidate of their own tuple pushed them out.                 *)
(***************************************************************************)
EXTENDS Naturals, FiniteSets

CONSTANTS Tuples, Caps

VARIABLES
    picks,   \* the live picks
    issued   \* decisions issued so far: a pick's number is never reused

bookVars == <<picks, issued>>

On(tuple) == {pick \in picks : pick.tuple = tuple}

BookInit == picks = {} /\ issued = 0

\* A new approved pick takes its tuple over; the picks before it leave it room.
Approve(tuple, cap) ==
    /\ Cardinality(picks) < cap
    /\ issued' = issued + 1
    /\ picks' = (picks \ On(tuple)) \cup {[id |-> issued + 1, tuple |-> tuple, forced |-> FALSE]}

Force(tuple) ==
    /\ issued' = issued + 1
    /\ picks' = picks \cup {[id |-> issued + 1, tuple |-> tuple, forced |-> TRUE]}

\* A decision that is not a pick; it may still push the picks of its tuple out.
Decline(tuple) ==
    /\ issued' = issued + 1
    /\ \/ picks' = picks
       \/ picks' = picks \ On(tuple)

BookNext ==
    \E tuple \in Tuples :
        \/ \E cap \in Caps : Approve(tuple, cap)
        \/ Force(tuple)
        \/ Decline(tuple)

BookSpec == BookInit /\ [][BookNext]_bookVars

=============================================================================
