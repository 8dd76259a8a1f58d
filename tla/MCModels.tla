------------------------------ MODULE MCModels ------------------------------
(* The three components of the model lifecycle in one run: the caches of the  *)
(* serving alias, the retraining flows and the research flows.  They share no *)
(* variable and every property is about one of them, so each is explored      *)
(* alone, while the other two rest in an initial state: every behaviour of a  *)
(* component is a behaviour of Spec, and nothing is counted twice.            *)
EXTENDS AliasCache, ModelLifecycle, ResearchLab

modelVars == <<cacheVars, lifecycleVars, labVars>>

\* The versions are alike: the first fallback is one of them, and a row that is
\* there from the start names another.
Init == /\ CacheInit /\ LifecycleInit /\ ResearchInit
        /\ base = CHOOSE v \in Versions : TRUE
        /\ alias # base /\ (enabled \/ alias # NoModel)

\* The processes are alike as well: the one change is made at one of them.
ChangedAt == CHOOSE p \in Processes : TRUE
ChangedThere == \A p \in Processes : purge'[p] # "none" => p = ChangedAt

CacheRests == CacheInit /\ alias = NoModel

CacheAlone == LifecycleInit /\ ResearchInit /\ CacheNext /\ ChangedThere
              /\ UNCHANGED <<lifecycleVars, labVars>>
LifecycleAlone == CacheRests /\ ResearchInit /\ LifecycleNext /\ UNCHANGED <<cacheVars, labVars>>
ResearchAlone == CacheRests /\ LifecycleInit /\ ResearchNext /\ UNCHANGED <<cacheVars, lifecycleVars>>

Next == CacheAlone \/ LifecycleAlone \/ ResearchAlone

Spec == Init /\ [][Next]_modelVars
        /\ CacheFairness /\ LifecycleFairness /\ ResearchFairness

ModelsTypeOK == CacheTypeOK /\ LifecycleTypeOK /\ ResearchTypeOK
=============================================================================
