----------------------------- MODULE AliasCache -----------------------------
(* The champion alias of one serving scope and the copies of it that          *)
(* ModelAliasService keeps in CacheService: one in the memory of every        *)
(* process (15 s or 30 s), one in Redis (30 s), both under the tag            *)
(* "model-lifecycle" that a switch of the alias invalidates.  An entry is     *)
(* only under the tag if the index says so: a copy that a process took from   *)
(* Redis is not, and in Redis the entry is written before the index.          *)
(* The flag that turns the aliases off is cached under the same tag; of its   *)
(* copies only the values are modelled.  Time is abstract: an entry may       *)
(* expire at any moment and expires in the end.  An active version exists.    *)
EXTENDS Naturals

CONSTANTS
    Processes,      \* the API and worker processes
    Versions,         \* the model versions
    NoModel,        \* no copy, no alias row
    MaxSwitches     \* bound: changes of the alias, the fallback or the flag

ASSUME CacheAssumption ==
    /\ NoModel \notin Versions
    /\ MaxSwitches \in Nat

VARIABLES
    alias,          \* the modelVersionId of the CHAMPION row, or NoModel
    base,           \* the newest active model version, served without a row
    enabled,        \* championAliasResolutionEnabled
    nSwitches,
    flagViews,      \* what getLifecycleFlags() may say of that flag somewhere
    memory,         \* process -> its copy of the resolution, or NoModel
    tagged,         \* process -> memoryTagIndex holds the key
    online,         \* process -> redisAvailable
    redis,          \* Redis' copy, or NoModel
    redisTagged,    \* the set cache:tag:model-lifecycle holds the key
    fill,           \* process -> the resolution that waits for an answer
    purge           \* process -> an invalidateTag() under way

databaseVars == <<alias, base, enabled, nSwitches>>
cacheVars == <<databaseVars, flagViews, memory, tagged, online, redis, redisTagged, fill, purge>>

\* A resolution waits for the alias row, for the fallback that it caches, for
\* the fallback that it returns at once, or holds a model: from Redis, from the
\* database, or written to both caches but not to Redis' tag set.
Waiting == {"alias", "fallback", "direct"}
Holding == {"copied", "read", "written"}

Copies == Versions \cup {NoModel}
Waits(at) == [at |-> at, model |-> NoModel]
Holds(at, m) == [at |-> at, model |-> m]
NoFill == Waits("none")
Fills == [at : {"none"} \cup Waiting, model : {NoModel}] \cup [at : Holding, model : Versions]
Purges == {"none", "due", "list", "found", "empty", "untag"}

CacheTypeOK ==
    /\ alias \in Copies /\ base \in Versions /\ enabled \in BOOLEAN
    /\ nSwitches \in 0..MaxSwitches
    /\ enabled \in flagViews /\ flagViews \subseteq BOOLEAN
    /\ memory \in [Processes -> Copies] /\ tagged \in [Processes -> BOOLEAN]
    /\ online \in [Processes -> BOOLEAN]
    /\ redis \in Copies /\ redisTagged \in BOOLEAN
    /\ fill \in [Processes -> Fills]
    /\ purge \in [Processes -> Purges]

CacheInit ==
    /\ alias \in Copies /\ base \in Versions /\ enabled \in BOOLEAN /\ nSwitches = 0
    /\ flagViews = {enabled}
    /\ memory = [p \in Processes |-> NoModel]
    /\ tagged = [p \in Processes |-> FALSE]
    /\ online = [p \in Processes |-> TRUE]
    /\ redis = NoModel /\ redisTagged = FALSE
    /\ fill = [p \in Processes |-> NoFill]
    /\ purge = [p \in Processes |-> "none"]

Pending(p, step) == fill' = [fill EXCEPT ![p] = step]

(* ---- resolveServingAlias() ---- *)

\* The flag, then memory, then Redis.  A copy in memory is returned at once.
StartResolution(p) ==
    /\ fill[p] = NoFill
    /\ \/ /\ FALSE \in flagViews
          /\ Pending(p, Waits("direct"))
       \/ /\ TRUE \in flagViews /\ memory[p] = NoModel
          /\ Pending(p, IF online[p] /\ redis # NoModel THEN Holds("copied", redis)
                                                      ELSE Waits("alias"))
    /\ UNCHANGED <<databaseVars, flagViews, memory, tagged, online, redis, redisTagged, purge>>

\* What Redis answered is kept in memory, without a tag.
CopyFromRedis(p) ==
    /\ fill[p].at = "copied"
    /\ memory' = [memory EXCEPT ![p] = fill[p].model]
    /\ Pending(p, NoFill)
    /\ UNCHANGED <<databaseVars, flagViews, tagged, online, redis, redisTagged, purge>>

\* Mutant of ReadAlias: the fallback is taken although there is an alias row.
ReadNoAlias(p) ==
    /\ fill[p].at = "alias"
    /\ Pending(p, Waits("fallback"))
    /\ UNCHANGED <<databaseVars, flagViews, memory, tagged, online, redis, redisTagged, purge>>

\* Mutant of ReadAlias: a scope without an alias row resolves to nothing.
ReadRowOnly(p) ==
    /\ fill[p].at = "alias"
    /\ Pending(p, Holds("read", alias))
    /\ UNCHANGED <<databaseVars, flagViews, memory, tagged, online, redis, redisTagged, purge>>

\* modelAlias.findMany(): the row's model, or on to the fallback.
ReadAlias(p) ==
    /\ fill[p].at = "alias"
    /\ Pending(p, IF alias # NoModel THEN Holds("read", alias) ELSE Waits("fallback"))
    /\ UNCHANGED <<databaseVars, flagViews, memory, tagged, online, redis, redisTagged, purge>>

\* fallbackActiveModel(): a query of its own, whatever the alias is by now.
ReadFallback(p) ==
    /\ \/ fill[p].at = "fallback" /\ Pending(p, Holds("read", base))
       \/ fill[p].at = "direct" /\ Pending(p, NoFill)
    /\ UNCHANGED <<databaseVars, flagViews, memory, tagged, online, redis, redisTagged, purge>>

\* cache.set(): the memory entry and its tag, then the Redis entry, which no
\* command of this process overtakes and no other process can tell from one step.
WriteEntry(p) ==
    /\ fill[p].at = "read"
    /\ memory' = [memory EXCEPT ![p] = fill[p].model]
    /\ tagged' = [tagged EXCEPT ![p] = TRUE]
    /\ redis' = IF online[p] THEN fill[p].model ELSE redis
    /\ Pending(p, IF online[p] THEN Holds("written", fill[p].model) ELSE NoFill)
    /\ UNCHANGED <<databaseVars, flagViews, online, redisTagged, purge>>

\* ... and last the tag set in Redis, if the command succeeds.
WriteTag(p) ==
    /\ fill[p].at = "written"
    /\ \E ok \in BOOLEAN :
          /\ redisTagged' = (redisTagged \/ ok)
          /\ online' = [online EXCEPT ![p] = online[p] /\ ok]
    /\ Pending(p, NoFill)
    /\ UNCHANGED <<databaseVars, flagViews, memory, tagged, redis, purge>>

(* ---- switchAlias() and setLifecycleFlags() ---- *)

\* The transaction that upserts the row and writes the history.
SwitchAlias(p, m) ==
    /\ purge[p] = "none" /\ nSwitches < MaxSwitches
    /\ alias' = m
    /\ purge' = [purge EXCEPT ![p] = "due"]
    /\ nSwitches' = nSwitches + 1
    /\ UNCHANGED <<base, enabled, flagViews, memory, tagged, online, redis, redisTagged, fill>>

\* The setting is upserted; the flags read before are cached as the aliases are.
SetFlag(p) ==
    /\ purge[p] = "none" /\ nSwitches < MaxSwitches
    /\ enabled' = ~enabled /\ flagViews' = flagViews \cup {~enabled}
    /\ purge' = [purge EXCEPT ![p] = "due"]
    /\ nSwitches' = nSwitches + 1
    /\ UNCHANGED <<alias, base, memory, tagged, online, redis, redisTagged, fill>>

\* invalidateTag() of either: the memory of this process and no other, ...
PurgeMemory(p) ==
    /\ purge[p] = "due"
    /\ memory' = [memory EXCEPT ![p] = IF tagged[p] THEN NoModel ELSE memory[p]]
    /\ tagged' = [tagged EXCEPT ![p] = FALSE]
    /\ purge' = [purge EXCEPT ![p] = IF online[p] THEN "list" ELSE "none"]
    /\ UNCHANGED <<databaseVars, flagViews, online, redis, redisTagged, fill>>

\* ... what Redis lists under the tag, ...
ListTag(p) ==
    /\ purge[p] = "list"
    /\ purge' = [purge EXCEPT ![p] = IF ~online[p] THEN "none"
                                     ELSE IF redisTagged THEN "found" ELSE "empty"]
    /\ UNCHANGED <<databaseVars, flagViews, memory, tagged, online, redis, redisTagged, fill>>

\* ... the entries listed, ...
PurgeEntries(p) ==
    /\ purge[p] \in {"found", "empty"}
    /\ redis' = IF online[p] /\ purge[p] = "found" THEN NoModel ELSE redis
    /\ purge' = [purge EXCEPT ![p] = IF online[p] THEN "untag" ELSE "none"]
    /\ UNCHANGED <<databaseVars, flagViews, memory, tagged, online, redisTagged, fill>>

\* ... and the tag set, with what was added to it meanwhile.
PurgeTag(p) ==
    /\ purge[p] = "untag"
    /\ redisTagged' = (redisTagged /\ ~online[p])
    /\ purge' = [purge EXCEPT ![p] = "none"]
    /\ UNCHANGED <<databaseVars, flagViews, memory, tagged, online, redis, fill>>

\* A model version is activated: nothing is invalidated.
ActivateModel(m) ==
    /\ nSwitches < MaxSwitches
    /\ base' = m
    /\ nSwitches' = nSwitches + 1
    /\ UNCHANGED <<alias, enabled, flagViews, memory, tagged, online, redis, redisTagged, fill, purge>>

(* ---- the environment ---- *)

\* Mutant of ExpireMemory: copies taken from Redis are kept without a TTL.
ExpireTagged(p) ==
    /\ memory[p] # NoModel /\ tagged[p]
    /\ memory' = [memory EXCEPT ![p] = NoModel]
    /\ UNCHANGED <<databaseVars, flagViews, tagged, online, redis, redisTagged, fill, purge>>

ExpireMemory(p) ==
    /\ memory[p] # NoModel
    /\ memory' = [memory EXCEPT ![p] = NoModel]
    /\ UNCHANGED <<databaseVars, flagViews, tagged, online, redis, redisTagged, fill, purge>>

ExpireRedis ==
    /\ redis # NoModel
    /\ redis' = NoModel /\ redisTagged' = FALSE
    /\ UNCHANGED <<databaseVars, flagViews, memory, tagged, online, fill, purge>>

\* The events "error", "close" and "ready" of the Redis client.
RedisEvent(p) ==
    /\ online' = [online EXCEPT ![p] = ~online[p]]
    /\ UNCHANGED <<databaseVars, flagViews, memory, tagged, redis, redisTagged, fill, purge>>

\* The copies of the flags read before the last change expire.
ForgetFlags ==
    /\ flagViews # {enabled}
    /\ flagViews' = {enabled}
    /\ UNCHANGED <<databaseVars, memory, tagged, online, redis, redisTagged, fill, purge>>

\* A resolution goes on with the answer it waits for.
Resume(p) == CopyFromRedis(p) \/ ReadAlias(p) \/ ReadFallback(p) \/ WriteEntry(p) \/ WriteTag(p)
Purge(p) == PurgeMemory(p) \/ ListTag(p) \/ PurgeEntries(p) \/ PurgeTag(p)

CacheNext ==
    \/ \E p \in Processes :
          \/ StartResolution(p) \/ Resume(p) \/ Purge(p)
          \/ SetFlag(p) \/ \E m \in Versions : SwitchAlias(p, m)
          \/ ExpireMemory(p) \/ RedisEvent(p)
    \/ \E m \in Versions : ActivateModel(m)
    \/ ExpireRedis \/ ForgetFlags

CacheSpec == CacheInit /\ [][CacheNext]_cacheVars

\* A resolution under way goes on and time passes; an invalidation under way
\* may stop anywhere, as it does when the process is gone.
CacheFairness ==
    /\ WF_cacheVars(ExpireRedis) /\ WF_cacheVars(ForgetFlags)
    /\ \A p \in Processes : WF_cacheVars(ExpireMemory(p)) /\ WF_cacheVars(Resume(p))

(* ---- what a resolution returns ---- *)

\* What the database gives a resolution that takes the flag for flag.
Resolved(flag) == IF flag /\ alias # NoModel THEN alias ELSE base

\* What a resolution in p returns if nothing changes before it ends.
Serves(p, flag) ==
    IF flag /\ memory[p] # NoModel THEN memory[p]
    ELSE IF flag /\ online[p] /\ redis # NoModel THEN redis ELSE Resolved(flag)

Asks(at) == \E p \in Processes : fill[p].at = at
AsksAlias == TRUE \in flagViews \/ Asks("alias")
AsksFallback == FALSE \in flagViews \/ Asks("fallback") \/ Asks("direct")
                \/ (AsksAlias /\ alias = NoModel)

\* Every model some resolution may still return before another change.
Servable == ({redis} \cup {memory[p] : p \in Processes} \cup {fill[p].model : p \in Processes}
                \cup (IF AsksAlias THEN {alias} ELSE {})
                \cup (IF AsksFallback THEN {base} ELSE {})) \ {NoModel}

View == INSTANCE ServingView WITH
            Models <- Versions, NoChampion <- NoModel,
            champion <- alias, fallback <- base, aliasing <- enabled, servable <- Servable

\* The caches keep the promise of ServingView: no fill, invalidation or loss of
\* Redis brings back a model that the last change of the database has replaced
\* and that no copy and no resolution under way holds, and every such model is
\* dropped in the end.
ImplementsServingView == View!ViewSpec

\* Whatever fills, invalidations and losses of Redis cross each other, once
\* the database no longer changes every process serves in the end what it
\* says, whichever flags it has cached.
ServedInTheEnd ==
    <>[](\A p \in Processes, flag \in flagViews : Serves(p, flag) = Resolved(enabled))
=============================================================================
