-------------------------- MODULE AliasCacheProofs --------------------------
(* Proofs about AliasCache, for any set of processes and versions and any     *)
(* number of switches, and in the end about MCModels, which puts it beside    *)
(* ModelLifecycle and ResearchLab.                                            *)
EXTENDS MCModels, ModelLifecycleProofs, ResearchLabProofs, TLAPS

USE CacheAssumption

\* ServingView without its fairness.
ViewSafety == View!ViewInit /\ [][View!ViewNext]_(View!viewVars)

\* A step of the caches that leaves the database alone and makes no new model
\* servable, forgets some old ones or none.
Forgets == UNCHANGED <<alias, base, enabled>> /\ Servable' \subseteq Servable

\* The environment and the two caches as time goes by.
TimeStep == ExpireRedis \/ ForgetFlags \/ \E p \in Processes : ExpireMemory(p) \/ RedisEvent(p)

-----------------------------------------------------------------------------
(* Types.                                                                     *)

LEMMA FillSteps ==
    /\ \A at \in {"none"} \cup Waiting : Waits(at) \in Fills
    /\ \A at \in Holding, v \in Versions : Holds(at, v) \in Fills
BY DEF Fills, Waits, Holds

LEMMA FillFields ==
    /\ \A at : Waits(at).at = at /\ Waits(at).model = NoModel
    /\ \A at, m : Holds(at, m).at = at /\ Holds(at, m).model = m
    /\ NoFill.at = "none" /\ NoFill.model = NoModel
BY DEF NoFill, Waits, Holds

LEMMA FillModels ==
    ASSUME NEW f \in Fills
    PROVE  /\ f.model \in Copies
           /\ f.at \in Holding => f.model \in Versions
BY DEF Fills, Copies, Waiting, Holding

LEMMA InitTypes == CacheInit => CacheTypeOK
<1>. SUFFICES ASSUME CacheInit PROVE CacheTypeOK
  OBVIOUS
<1>1. NoFill \in Fills /\ "none" \in Purges /\ NoModel \in Copies
  BY FillSteps DEF NoFill, Purges, Copies
<1>2. fill \in [Processes -> Fills] /\ purge \in [Processes -> Purges] /\ memory \in [Processes -> Copies]
  BY <1>1 DEF CacheInit
<1>3. tagged \in [Processes -> BOOLEAN] /\ online \in [Processes -> BOOLEAN] /\ redisTagged \in BOOLEAN
  BY DEF CacheInit
<1>4. base \in Versions /\ nSwitches \in 0..MaxSwitches /\ alias \in Copies /\ redis \in Copies
  BY <1>1 DEF CacheInit
<1>5. enabled \in BOOLEAN /\ enabled \in flagViews /\ flagViews \subseteq BOOLEAN
  BY DEF CacheInit
<1>. QED BY <1>1, <1>2, <1>3, <1>4, <1>5 DEF CacheTypeOK

\* A step that only moves a resolution on.
LEMMA PendingTypes ==
    ASSUME CacheTypeOK, NEW p \in Processes, NEW step \in Fills, Pending(p, step)
    PROVE  fill' \in [Processes -> Fills]
BY DEF CacheTypeOK, Pending

LEMMA StartTypes ==
    ASSUME CacheTypeOK, NEW p \in Processes, StartResolution(p)
    PROVE  CacheTypeOK'
<1>1. /\ Waits("direct") \in Fills /\ Waits("alias") \in Fills
      /\ redis # NoModel => Holds("copied", redis) \in Fills
  BY FillSteps DEF Waiting, Holding, CacheTypeOK, Copies
<1>2. fill' \in [Processes -> Fills]
  BY <1>1, PendingTypes DEF StartResolution
<1>. QED BY <1>2 DEF CacheTypeOK, StartResolution, databaseVars

LEMMA ResumeTypes ==
    ASSUME CacheTypeOK, NEW p \in Processes, Resume(p)
    PROVE  CacheTypeOK'
<1>1. /\ NoFill \in Fills /\ Waits("fallback") \in Fills /\ Holds("read", base) \in Fills
      /\ alias # NoModel => Holds("read", alias) \in Fills
  BY FillSteps DEF NoFill, Waiting, Holding, CacheTypeOK, Copies
<1>2. fill[p] \in Fills /\ (fill[p].at \in Holding => fill[p].model \in Versions)
  BY FillModels DEF CacheTypeOK
<1>3. CASE CopyFromRedis(p)
  <2>1. fill' \in [Processes -> Fills]
    BY <1>1, <1>3, PendingTypes DEF CopyFromRedis
  <2>2. memory' \in [Processes -> Copies]
    BY <1>2, <1>3 DEF CopyFromRedis, CacheTypeOK, Holding, Copies
  <2>. QED BY <1>3, <2>1, <2>2 DEF CacheTypeOK, CopyFromRedis, databaseVars
<1>4. CASE ReadAlias(p)
  <2>1. fill' \in [Processes -> Fills]
    BY <1>1, <1>4, PendingTypes DEF ReadAlias
  <2>. QED BY <1>4, <2>1 DEF CacheTypeOK, ReadAlias, databaseVars
<1>5. CASE ReadFallback(p)
  <2>1. fill' \in [Processes -> Fills]
    BY <1>1, <1>5, PendingTypes DEF ReadFallback
  <2>. QED BY <1>5, <2>1 DEF CacheTypeOK, ReadFallback, databaseVars
<1>6. CASE WriteEntry(p)
  <2>1. fill[p].model \in Versions
    BY <1>2, <1>6 DEF WriteEntry, Holding
  <2>2. Holds("written", fill[p].model) \in Fills
    BY <2>1, FillSteps DEF Holding
  <2>3. fill' \in [Processes -> Fills]
    BY <1>1, <1>6, <2>2, PendingTypes DEF WriteEntry
  <2>4. memory' \in [Processes -> Copies] /\ redis' \in Copies /\ tagged' \in [Processes -> BOOLEAN]
    BY <1>6, <2>1 DEF CacheTypeOK, WriteEntry, Copies
  <2>. QED BY <1>6, <2>3, <2>4 DEF CacheTypeOK, WriteEntry, databaseVars
<1>7. CASE WriteTag(p)
  <2>1. fill' \in [Processes -> Fills]
    BY <1>1, <1>7, PendingTypes DEF WriteTag
  <2>2. PICK ok \in BOOLEAN : redisTagged' = (redisTagged \/ ok) /\ online' = [online EXCEPT ![p] = online[p] /\ ok]
    BY <1>7 DEF WriteTag
  <2>3. redisTagged' \in BOOLEAN /\ online' \in [Processes -> BOOLEAN]
    BY <2>2 DEF CacheTypeOK
  <2>. QED BY <1>7, <2>1, <2>3 DEF CacheTypeOK, WriteTag, databaseVars
<1>. QED BY <1>3, <1>4, <1>5, <1>6, <1>7 DEF Resume

LEMMA PurgeTypes ==
    ASSUME CacheTypeOK, NEW p \in Processes, Purge(p)
    PROVE  CacheTypeOK'
<1>1. CASE PurgeMemory(p)
  <2>1. memory' \in [Processes -> Copies] /\ tagged' \in [Processes -> BOOLEAN]
    BY <1>1 DEF CacheTypeOK, PurgeMemory, Copies
  <2>2. purge' \in [Processes -> Purges]
    BY <1>1 DEF CacheTypeOK, PurgeMemory, Purges
  <2>. QED BY <1>1, <2>1, <2>2 DEF CacheTypeOK, PurgeMemory, databaseVars
<1>2. CASE ListTag(p)
  BY <1>2 DEF CacheTypeOK, ListTag, Purges, databaseVars
<1>3. CASE PurgeEntries(p)
  BY <1>3 DEF CacheTypeOK, PurgeEntries, Purges, Copies, databaseVars
<1>4. CASE PurgeTag(p)
  <2>1. redisTagged' \in BOOLEAN
    BY <1>4 DEF CacheTypeOK, PurgeTag
  <2>. QED BY <1>4, <2>1 DEF CacheTypeOK, PurgeTag, Purges, databaseVars
<1>. QED BY <1>1, <1>2, <1>3, <1>4 DEF Purge

LEMMA SwitchTypes ==
    ASSUME CacheTypeOK, NEW m \in Versions,
           (\E p \in Processes : SwitchAlias(p, m)) \/ ActivateModel(m)
    PROVE  CacheTypeOK'
BY DEF CacheTypeOK, SwitchAlias, ActivateModel, Copies, Purges

LEMMA FlagTypes ==
    ASSUME CacheTypeOK, NEW p \in Processes, SetFlag(p)
    PROVE  CacheTypeOK'
<1>1. enabled' \in BOOLEAN /\ enabled' \in flagViews' /\ flagViews' \subseteq BOOLEAN
  BY DEF CacheTypeOK, SetFlag
<1>2. purge' \in [Processes -> Purges] /\ nSwitches' \in 0..MaxSwitches
  BY DEF CacheTypeOK, SetFlag, Purges
<1>. QED BY <1>1, <1>2 DEF CacheTypeOK, SetFlag

LEMMA TimeTypes ==
    ASSUME CacheTypeOK, TimeStep
    PROVE  CacheTypeOK'
<1>1. CASE ExpireRedis
  BY <1>1 DEF CacheTypeOK, ExpireRedis, Copies, databaseVars
<1>2. CASE ForgetFlags
  BY <1>2 DEF CacheTypeOK, ForgetFlags, databaseVars
<1>3. CASE \E p \in Processes : ExpireMemory(p)
  BY <1>3 DEF CacheTypeOK, ExpireMemory, Copies, databaseVars
<1>4. CASE \E p \in Processes : RedisEvent(p)
  BY <1>4 DEF CacheTypeOK, RedisEvent, databaseVars
<1>. QED BY <1>1, <1>2, <1>3, <1>4 DEF TimeStep

LEMMA NextTypes == CacheTypeOK /\ [CacheNext]_cacheVars => CacheTypeOK'
<1>. SUFFICES ASSUME CacheTypeOK, [CacheNext]_cacheVars PROVE CacheTypeOK'
  OBVIOUS
<1>1. CASE CacheNext
  BY <1>1, StartTypes, ResumeTypes, PurgeTypes, SwitchTypes, FlagTypes, TimeTypes DEF CacheNext, TimeStep
<1>2. CASE UNCHANGED cacheVars
  BY <1>2 DEF cacheVars, databaseVars, CacheTypeOK
<1>. QED BY <1>1, <1>2

\* The alias, its copies and the steps of every process have their types.
THEOREM CacheTypes == CacheSpec => []CacheTypeOK
BY InitTypes, NextTypes, PTL DEF CacheSpec

-----------------------------------------------------------------------------
(* The caches implement ServingView.                                          *)

\* The model the database names now can be resolved: its row or the fallback
\* will be read by the next resolution that trusts the flag as it is.
LEMMA CurrentIsServable == CacheTypeOK => View!Current \in Servable /\ Servable \subseteq Versions
<1>. SUFFICES ASSUME CacheTypeOK PROVE View!Current \in Servable /\ Servable \subseteq Versions
  OBVIOUS
<1>1. \A p \in Processes : fill[p].model \in Copies
  BY FillModels DEF CacheTypeOK
<1>2. Servable \subseteq Versions
  BY <1>1 DEF CacheTypeOK, Servable, Copies
<1>3. CASE enabled /\ alias # NoModel
  <2>1. View!Current = alias /\ AsksAlias
    BY <1>3 DEF View!Current, AsksAlias, CacheTypeOK
  <2>. QED BY <1>2, <1>3, <2>1 DEF Servable
<1>4. CASE ~(enabled /\ alias # NoModel)
  <2>1. View!Current = base /\ base # NoModel
    BY <1>4 DEF View!Current, CacheTypeOK
  <2>2. AsksFallback
    BY <1>4 DEF AsksFallback, AsksAlias, CacheTypeOK
  <2>. QED BY <1>2, <2>1, <2>2 DEF Servable
<1>. QED BY <1>3, <1>4

LEMMA CurrentStaysServable == CacheTypeOK' => (View!Current \in Servable)'
BY CurrentIsServable, PTL

LEMMA InitView == CacheInit => View!ViewInit
<1>. SUFFICES ASSUME CacheInit PROVE View!ViewInit
  OBVIOUS
<1>1. \A p \in Processes : memory[p] = NoModel /\ fill[p].model = NoModel /\ fill[p].at = "none"
  BY DEF CacheInit, NoFill, Waits
<1>2. ~Asks("alias") /\ ~Asks("fallback") /\ ~Asks("direct")
  BY <1>1 DEF Asks
<1>3. AsksAlias <=> enabled
  BY <1>2 DEF AsksAlias, CacheInit
<1>4. AsksFallback <=> ~(enabled /\ alias # NoModel)
  BY <1>2, <1>3 DEF AsksFallback, CacheInit
<1>5. Servable = {View!Current}
  <2>1. Servable = ((IF AsksAlias THEN {alias} ELSE {}) \cup (IF AsksFallback THEN {base} ELSE {})) \ {NoModel}
    BY <1>1 DEF Servable, CacheInit
  <2>2. base # NoModel
    BY DEF CacheInit
  <2>. QED BY <1>3, <1>4, <2>1, <2>2 DEF View!Current
<1>. QED BY <1>5 DEF View!ViewInit, CacheInit, Copies

\* What a step may hold afterwards, and what it may still ask for, decides
\* whether it forgets.
LEMMA HoldingNothingNew ==
    ASSUME UNCHANGED <<alias, base, enabled>>,
           AsksAlias' => AsksAlias, AsksFallback' => AsksFallback,
           redis' \in Servable \cup {NoModel},
           \A q \in Processes : memory'[q] \in Servable \cup {NoModel},
           \A q \in Processes : fill'[q].model \in Servable \cup {NoModel}
    PROVE  Forgets
<1>1. AsksAlias' => alias' \in Servable \cup {NoModel}
  BY DEF Servable
<1>2. AsksFallback' => base' \in Servable \cup {NoModel}
  BY DEF Servable
<1>. QED BY <1>1, <1>2 DEF Forgets, Servable

LEMMA HeldIsServable ==
    /\ redis \in Servable \cup {NoModel}
    /\ \A q \in Processes : memory[q] \in Servable \cup {NoModel}
    /\ \A q \in Processes : fill[q].model \in Servable \cup {NoModel}
    /\ AsksAlias => alias \in Servable \cup {NoModel}
    /\ AsksFallback => base \in Servable \cup {NoModel}
BY DEF Servable

\* A resolution starts to ask only for what its flag lets it ask.
LEMMA StartForgets ==
    ASSUME CacheTypeOK, NEW p \in Processes, StartResolution(p)
    PROVE  Forgets
<1>1. UNCHANGED <<alias, base, enabled, flagViews, memory, redis>>
  BY DEF StartResolution, databaseVars
<1>2. PICK step : /\ fill' = [fill EXCEPT ![p] = step]
                  /\ \/ FALSE \in flagViews /\ step = Waits("direct")
                     \/ TRUE \in flagViews /\ step = Holds("copied", redis)
                     \/ TRUE \in flagViews /\ step = Waits("alias")
  BY DEF StartResolution, Pending
<1>3. \A q \in Processes : fill'[q] = IF q = p THEN step ELSE fill[q]
  BY <1>2 DEF CacheTypeOK
<1>4. /\ step.model \in {redis, NoModel} /\ step.at \in {"direct", "copied", "alias"}
      /\ step.at = "direct" => FALSE \in flagViews
      /\ step.at = "alias" => TRUE \in flagViews
  <2>1. CASE step = Waits("direct") /\ FALSE \in flagViews
    BY <2>1 DEF Waits
  <2>2. CASE step = Holds("copied", redis)
    BY <2>2 DEF Holds
  <2>3. CASE step = Waits("alias") /\ TRUE \in flagViews
    BY <2>3 DEF Waits
  <2>. QED BY <1>2, <2>1, <2>2, <2>3
<1>5. AsksAlias' => AsksAlias
  BY <1>1, <1>3, <1>4 DEF AsksAlias, Asks
<1>6. AsksFallback' => AsksFallback
  <2>1. Asks("fallback")' => Asks("fallback")
    BY <1>3, <1>4 DEF Asks
  <2>2. Asks("direct")' => Asks("direct") \/ FALSE \in flagViews
    BY <1>3, <1>4 DEF Asks
  <2>. QED BY <1>1, <1>5, <2>1, <2>2 DEF AsksFallback
<1>7. \A q \in Processes : fill'[q].model \in Servable \cup {NoModel}
  BY <1>3, <1>4, HeldIsServable
<1>. QED BY <1>1, <1>5, <1>6, <1>7, HeldIsServable, HoldingNothingNew

\* A resolution that goes on holds what it asked for.
LEMMA ResumeForgets ==
    ASSUME CacheTypeOK, NEW p \in Processes, Resume(p)
    PROVE  Forgets
<1>1. UNCHANGED <<alias, base, enabled, flagViews>>
  BY DEF Resume, CopyFromRedis, ReadAlias, ReadFallback, WriteEntry, WriteTag, databaseVars
<1>2. PICK step : /\ fill' = [fill EXCEPT ![p] = step]
                  /\ \/ step = NoFill
                     \/ step = Holds("written", fill[p].model)
                     \/ fill[p].at = "alias" /\ alias # NoModel /\ step = Holds("read", alias)
                     \/ fill[p].at = "alias" /\ alias = NoModel /\ step = Waits("fallback")
                     \/ fill[p].at = "fallback" /\ step = Holds("read", base)
  BY DEF Resume, CopyFromRedis, ReadAlias, ReadFallback, WriteEntry, WriteTag, Pending
<1>3. \A q \in Processes : fill'[q] = IF q = p THEN step ELSE fill[q]
  BY <1>2 DEF CacheTypeOK
<1>4. step.at \in {"none", "written", "read", "fallback"}
  BY <1>2, FillFields
<1>5. AsksAlias' => AsksAlias
  BY <1>1, <1>3, <1>4 DEF AsksAlias, Asks
<1>6. fill[p].at = "alias" => AsksAlias
  BY DEF AsksAlias, Asks
<1>7. fill[p].at = "fallback" => AsksFallback
  BY DEF AsksFallback, Asks
<1>8. AsksFallback' => AsksFallback
  <2>1. step.at = "fallback" => AsksFallback
    <3>1. CASE fill[p].at = "alias" /\ alias = NoModel
      BY <3>1, <1>6 DEF AsksFallback
    <3>2. CASE step = NoFill \/ step = Holds("written", fill[p].model)
      BY <3>2 DEF NoFill, Waits, Holds
    <3>3. CASE step = Holds("read", alias) \/ step = Holds("read", base)
      BY <3>3 DEF Holds
    <3>. QED BY <1>2, <3>1, <3>2, <3>3
  <2>2. Asks("fallback")' => Asks("fallback") \/ AsksFallback
    BY <1>3, <2>1 DEF Asks
  <2>3. Asks("direct")' => Asks("direct")
    BY <1>3, <1>4 DEF Asks
  <2>. QED BY <1>1, <1>5, <2>2, <2>3 DEF AsksFallback
<1>9. step.model \in Servable \cup {NoModel}
  BY <1>2, <1>6, <1>7, HeldIsServable, FillFields
<1>10. \A q \in Processes : fill'[q].model \in Servable \cup {NoModel}
  BY <1>3, <1>9, HeldIsServable
<1>11. \A q \in Processes : memory'[q] \in {memory[q], fill[p].model}
  BY DEF Resume, CopyFromRedis, ReadAlias, ReadFallback, WriteEntry, WriteTag, CacheTypeOK
<1>12. redis' \in {redis, fill[p].model}
  BY DEF Resume, CopyFromRedis, ReadAlias, ReadFallback, WriteEntry, WriteTag
<1>. QED BY <1>1, <1>5, <1>8, <1>10, <1>11, <1>12, HeldIsServable, HoldingNothingNew

LEMMA PurgeForgets ==
    ASSUME CacheTypeOK, NEW p \in Processes, Purge(p)
    PROVE  Forgets
<1>1. UNCHANGED <<alias, base, enabled, flagViews, fill>>
  BY DEF Purge, PurgeMemory, ListTag, PurgeEntries, PurgeTag, databaseVars
<1>2. \A q \in Processes : memory'[q] \in {memory[q], NoModel}
  BY DEF Purge, PurgeMemory, ListTag, PurgeEntries, PurgeTag, CacheTypeOK
<1>3. redis' \in {redis, NoModel}
  BY DEF Purge, PurgeMemory, ListTag, PurgeEntries, PurgeTag
<1>4. AsksAlias' = AsksAlias /\ AsksFallback' = AsksFallback
  BY <1>1 DEF AsksAlias, AsksFallback, Asks
<1>. QED BY <1>1, <1>2, <1>3, <1>4, HeldIsServable, HoldingNothingNew

LEMMA TimeForgets ==
    ASSUME CacheTypeOK, TimeStep
    PROVE  Forgets
<1>1. UNCHANGED <<alias, base, enabled, fill>>
  BY DEF TimeStep, ExpireRedis, ForgetFlags, ExpireMemory, RedisEvent, databaseVars
<1>2. flagViews' \subseteq flagViews
  BY DEF TimeStep, ExpireRedis, ForgetFlags, ExpireMemory, RedisEvent, CacheTypeOK
<1>3. \A q \in Processes : memory'[q] \in {memory[q], NoModel}
  BY DEF TimeStep, ExpireRedis, ForgetFlags, ExpireMemory, RedisEvent, CacheTypeOK
<1>4. redis' \in {redis, NoModel}
  BY DEF TimeStep, ExpireRedis, ForgetFlags, ExpireMemory, RedisEvent
<1>5. (AsksAlias' => AsksAlias) /\ (AsksFallback' => AsksFallback)
  BY <1>1, <1>2 DEF AsksAlias, AsksFallback, Asks
<1>. QED BY <1>1, <1>3, <1>4, <1>5, HeldIsServable, HoldingNothingNew

\* Forgetting is a step of the abstract specification or none at all.
LEMMA ForgettingIsAbstract ==
    ASSUME CacheTypeOK, CacheTypeOK', Forgets
    PROVE  [View!ViewNext]_(View!viewVars)
<1>1. CASE Servable' = Servable
  BY <1>1 DEF Forgets, View!viewVars
<1>2. CASE Servable' # Servable
  <2>1. View!Current \in Servable /\ View!Current' \in Servable' /\ View!Current' = View!Current
    BY CurrentIsServable, CurrentStaysServable DEF Forgets, View!Current
  <2>2. PICK kept : kept = Servable' \ {View!Current}
    OBVIOUS
  <2>3. kept \in SUBSET (Servable \ {View!Current})
    BY <2>2 DEF Forgets
  <2>4. kept # Servable \ {View!Current} /\ Servable' = kept \cup {View!Current}
    BY <1>2, <2>1, <2>2
  <2>5. View!ForgetOld
    BY <2>3, <2>4 DEF View!ForgetOld, Forgets
  <2>. QED BY <2>5 DEF View!ViewNext
<1>. QED BY <1>1, <1>2

\* Whoever changes the row or the fallback adds at most the model he names.
LEMMA SwitchingIsAbstract ==
    ASSUME CacheTypeOK, CacheTypeOK', NEW m \in Versions,
           (\E p \in Processes : SwitchAlias(p, m)) \/ ActivateModel(m)
    PROVE  View!ViewNext
<1>1. UNCHANGED <<enabled, flagViews, memory, redis, fill>>
  BY DEF SwitchAlias, ActivateModel
<1>2. \/ alias' = m /\ base' = base
      \/ alias' = alias /\ base' = m
  BY DEF SwitchAlias, ActivateModel
<1>3. AsksAlias' = AsksAlias
  BY <1>1 DEF AsksAlias, Asks
<1>4. AsksFallback' => AsksFallback
  BY <1>1, <1>2, <1>3 DEF AsksFallback, Asks
<1>5. Servable' \subseteq Servable \cup {m}
  <2>1. AsksAlias' => alias' \in Servable \cup {m, NoModel}
    BY <1>2, <1>3, HeldIsServable
  <2>2. AsksFallback' => base' \in Servable \cup {m, NoModel}
    BY <1>2, <1>4, HeldIsServable
  <2>. QED BY <1>1, <2>1, <2>2, HeldIsServable DEF Servable
<1>6. Servable' = Servable' \cup {View!Current'}
  BY CurrentStaysServable
<1>7. View!Keep(Servable \cup {m})
  BY <1>5, <1>6 DEF View!Keep
<1>8. View!Crown(m) \/ View!Activate(m)
  BY <1>1, <1>2, <1>7 DEF View!Crown, View!Activate
<1>. QED BY <1>8 DEF View!ViewNext

\* Turning the aliases on or off adds at most the model it uncovers.
LEMMA SettingTheFlagIsAbstract ==
    ASSUME CacheTypeOK, CacheTypeOK', NEW p \in Processes, SetFlag(p)
    PROVE  View!ViewNext
<1>1. UNCHANGED <<alias, base, memory, redis, fill>> /\ enabled' = ~enabled
  BY DEF SetFlag
<1>2. flagViews' = flagViews \cup {enabled'}
  BY DEF SetFlag
<1>3. AsksAlias' => AsksAlias \/ enabled'
  BY <1>1, <1>2 DEF AsksAlias, Asks
<1>4. AsksFallback' => AsksFallback \/ ~enabled' \/ alias = NoModel
  BY <1>1, <1>2, <1>3 DEF AsksFallback, Asks
<1>5. Servable' \subseteq Servable \cup {View!Current'}
  <2>1. AsksAlias' => alias' \in Servable \cup {View!Current', NoModel}
    BY <1>1, <1>3, HeldIsServable DEF View!Current
  <2>2. AsksFallback' => base' \in Servable \cup {View!Current', NoModel}
    BY <1>1, <1>4, HeldIsServable DEF View!Current
  <2>. QED BY <1>1, <2>1, <2>2, HeldIsServable DEF Servable
<1>6. PICK kept : kept = Servable' \cap Servable
  OBVIOUS
<1>7. kept \in SUBSET Servable /\ Servable' = kept \cup {View!Current'}
  BY <1>5, <1>6, CurrentStaysServable
<1>8. View!Keep(Servable)
  BY <1>7 DEF View!Keep
<1>. QED BY <1>1, <1>8 DEF View!ViewNext, View!Toggle

LEMMA StepsAreAbstract ==
    CacheTypeOK /\ CacheTypeOK' /\ [CacheNext]_cacheVars => [View!ViewNext]_(View!viewVars)
<1>. SUFFICES ASSUME CacheTypeOK, CacheTypeOK', [CacheNext]_cacheVars
              PROVE  [View!ViewNext]_(View!viewVars)
  OBVIOUS
<1>1. CASE Forgets
  BY <1>1, ForgettingIsAbstract
<1>2. CASE \E m \in Versions : (\E p \in Processes : SwitchAlias(p, m)) \/ ActivateModel(m)
  BY <1>2, SwitchingIsAbstract
<1>3. CASE \E p \in Processes : SetFlag(p)
  BY <1>3, SettingTheFlagIsAbstract
<1>4. CASE UNCHANGED cacheVars
  BY <1>4 DEF cacheVars, databaseVars, View!viewVars, Servable, AsksAlias, AsksFallback, Asks
<1>. QED BY <1>1, <1>2, <1>3, <1>4, StartForgets, ResumeForgets, PurgeForgets, TimeForgets
         DEF CacheNext, TimeStep

\* Whatever resolutions, invalidations and losses of Redis cross each other, and
\* whichever flags they have cached, a model that the database replaced and that
\* no copy and no resolution under way holds is never resolved again: the caches
\* implement ServingView, its liveness aside.
THEOREM CachesImplementServingView == CacheSpec => ViewSafety
BY InitView, CacheTypes, StepsAreAbstract, PTL DEF CacheSpec, ViewSafety

-----------------------------------------------------------------------------
(* The three components beside one another.                                   *)

\* Whatever one component does in MCModels, the other two see as a step of their
\* own or as nothing.
LEMMA StepsOfOne ==
    ASSUME [Next]_modelVars
    PROVE  [CacheNext]_cacheVars /\ [LifecycleNext]_lifecycleVars /\ [ResearchNext]_labVars
<1>1. CASE CacheAlone
  BY <1>1 DEF CacheAlone
<1>2. CASE LifecycleAlone
  BY <1>2 DEF LifecycleAlone
<1>3. CASE ResearchAlone
  BY <1>3 DEF ResearchAlone
<1>4. CASE UNCHANGED modelVars
  BY <1>4 DEF modelVars
<1>. QED BY <1>1, <1>2, <1>3, <1>4 DEF Next

\* Every behaviour of MCModels is one of each component, so that what is proved
\* of the components holds of the run that explores the three of them.
THEOREM ModelsAreTheirComponents == Spec => CacheSpec /\ LifecycleSpec /\ ResearchSpec
<1>1. Init => CacheInit /\ LifecycleInit /\ ResearchInit
  BY DEF Init
<1>2. [Next]_modelVars => [CacheNext]_cacheVars /\ [LifecycleNext]_lifecycleVars /\ [ResearchNext]_labVars
  BY StepsOfOne
<1>. QED BY <1>1, <1>2, PTL DEF Spec, CacheSpec, LifecycleSpec, ResearchSpec

\* The aliases, the retraining flows and the research flows have their types.
THEOREM ModelsTypes == Spec => []ModelsTypeOK
<1>1. CacheTypeOK /\ LifecycleTypeOK /\ ResearchTypeOK => ModelsTypeOK
  BY DEF ModelsTypeOK
<1>. QED BY <1>1, ModelsAreTheirComponents, CacheTypes, LifecycleTypes, ResearchTypes, PTL
=============================================================================
