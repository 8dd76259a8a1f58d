----------------------------- MODULE ServingView -----------------------------
(* What the serving aliases of src/apps/api/src/modules/predictions promise    *)
(* the code that resolves a champion, whatever is cached where: only a change  *)
(* in the database adds a model to those a resolution may return, and only the *)
(* model that change names or the one it uncovers; every other one is          *)
(* forgotten in the end and does not come back by itself.  AliasCache          *)
(* implements this promise; ModelLifecycle is built on it.                     *)
CONSTANTS Models, NoChampion
VARIABLES champion,     \* the model of the CHAMPION row, or NoChampion
          fallback,     \* the newest active model version
          aliasing,     \* championAliasResolutionEnabled
          servable      \* the models a resolution may return

viewVars == <<champion, fallback, aliasing, servable>>

\* The model a resolution finds if it asks the database for everything.
Current == IF aliasing /\ champion # NoChampion THEN champion ELSE fallback

ViewInit ==
    /\ champion \in Models \cup {NoChampion}
    /\ fallback \in Models
    /\ aliasing \in BOOLEAN
    /\ servable = {Current}

\* The database changed and Current' is its model now.  Some copies of earlier
\* models are kept for a while; the others are gone.
Keep(models) == \E kept \in SUBSET models : servable' = kept \cup {Current'}

\* The CHAMPION row becomes m.
Crown(m) ==
    /\ champion' = m
    /\ UNCHANGED <<fallback, aliasing>>
    /\ Keep(servable \cup {m})

\* The newest active model version becomes m.
Activate(m) ==
    /\ fallback' = m
    /\ UNCHANGED <<champion, aliasing>>
    /\ Keep(servable \cup {m})

\* An administrator turns the resolution by alias on or off.
Toggle ==
    /\ aliasing' = ~aliasing
    /\ UNCHANGED <<champion, fallback>>
    /\ Keep(servable)

\* Some copies of earlier models expire or are invalidated.
ForgetOld ==
    /\ \E kept \in SUBSET (servable \ {Current}) :
          /\ kept # servable \ {Current}
          /\ servable' = kept \cup {Current}
    /\ UNCHANGED <<champion, fallback, aliasing>>

ViewNext == ForgetOld \/ Toggle \/ \E m \in Models : Crown(m) \/ Activate(m)

ViewSpec == ViewInit /\ [][ViewNext]_viewVars /\ WF_viewVars(ForgetOld)
=============================================================================
