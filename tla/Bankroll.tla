------------------------------ MODULE Bankroll ------------------------------
(***************************************************************************)
(* The paper bankroll of modules/bankroll: BankrollOrchestrationService    *)
(* takes published selections through its stages, every stage one          *)
(* serializable transaction, so one action; between two stages of a        *)
(* pipeline anything may happen: other pipelines, the hourly settlement, a *)
(* match result, an administrator, a crash, a repeated delivery.           *)
(*                                                                         *)
(* Money is an integer number of 10^-6 units, the precision of round().    *)
(* The stages portfolioDecision, simulationAnalytics and roiGovernance     *)
(* touch none of this state and are skipped.                               *)
(***************************************************************************)
EXTENDS Integers, FiniteSets, Sequences, SequencesExt

CONSTANTS
    Keys,             \* buildBaseDedup(): one per tuple and selection
    Matches,
    MatchOf,          \* the match of each key
    MarketOf,         \* the market name the publisher handed over with the key
    SelectionOf,      \* the side it picks
    TwiceLine,        \* twice the goal line of a totals pick
    Odds,             \* the offered odds, above 1
    Scores,           \* final scores <<home, away>>
    Pipelines,        \* callers of processPublishedSelection() and their workers
    Start,            \* startingBalance
    MinStake, MaxStake,
    Recommendations,  \* stakes the profile's formula may recommend
    MatchPercent, TotalPercent, DayPercent, MaxConcurrent,  \* the seeded limits
    SettleLimit,      \* settlement's take
    SettingsSpace,    \* settings an administrator may store
    Nothing,          \* no row
    MaxRepeats        \* bound: repeated hand-overs and redelivered stages

Settings == [enabled : BOOLEAN, paper : BOOLEAN, exposure : BOOLEAN, correlation : BOOLEAN]
DefaultSettings == [enabled |-> TRUE, paper |-> TRUE, exposure |-> TRUE, correlation |-> TRUE]

ASSUME BankrollAssumption ==
    /\ IsFiniteSet(Keys)
    /\ \A k \in Keys : MatchOf[k] \in Matches
    /\ Scores \subseteq Nat \X Nat
    /\ Odds \in Nat /\ Odds > 1
    /\ TwiceLine \in Nat
    /\ Start \in Nat
    /\ MinStake \in Nat \ {0} /\ MaxStake \in Nat /\ MinStake <= MaxStake
    /\ Recommendations \subseteq Nat
    /\ {MatchPercent, TotalPercent, DayPercent} \subseteq 0 .. 100
    /\ {MaxConcurrent, SettleLimit} \subseteq Nat \ {0}
    /\ SettingsSpace \subseteq Settings
    /\ Nothing \notin [key : Keys, at : 1 .. 8]
    /\ MaxRepeats \in Nat

Stages == <<"stakeCandidateBuild", "stakeSizing", "exposureCheck", "correlationCheck",
            "ticketConstruction", "paperExecution", "settlement", "bankrollAccounting">>

VARIABLES
    settings,   \* the bankroll rows of system_settings
    match,      \* the status and final score of each match
    account,    \* the bankroll_accounts row
    recs,       \* stake_recommendations (and the same fields of stake_candidates)
    tickets,    \* ticket_decisions; leg: its single ticket_leg exists
    orders,     \* paper_orders
    recorded,   \* keys whose order has a settlement_record
    ledger,     \* bankroll_ledger in creation order
    pipe,       \* each pipeline's key and the stage it runs next
    repeats     \* repeated hand-overs and redelivered stages so far

vars == <<settings, match, account, recs, tickets, orders, recorded, ledger, pipe, repeats>>

Account == [available : Nat, reserved : Nat, realized : Int]
StakeStatuses == {"NONE", "CREATED", "SIZED", "CLIPPED", "NO_STAKE", "BLOCKED"}
TicketStatuses == {"CREATED", "CLIPPED", "BLOCKED", "SKIPPED", "EXECUTED_PAPER"}
OrderStatuses == {"NONE", "OPEN", "WON", "LOST", "PUSH", "VOID", "CANCELLED"}

Ticket == [status : TicketStatuses, stake : Nat, leg : BOOLEAN]
ASSUME NoTicketAssumption == Nothing \notin Ticket

Entry == [kind : {"open", "settle"}, key : Keys, after : Account]
NoRow == [status |-> "NONE", stake |-> 0]

TypeOK ==
    /\ settings \in Settings
    /\ match \in [Matches -> [status : {"scheduled", "finished", "cancelled"},
                             score : Scores \cup {Nothing}]]
    /\ account \in Account
    /\ recs \in [Keys -> [status : StakeStatuses, stake : Nat]]
    /\ tickets \in [Keys -> Ticket \cup {Nothing}]
    /\ orders \in [Keys -> [status : OrderStatuses, stake : Nat]]
    /\ recorded \in SUBSET Keys
    /\ ledger \in Seq(Entry)
    /\ pipe \in [Pipelines -> [key : Keys, at : DOMAIN Stages] \cup {Nothing}]
    /\ repeats \in 0 .. MaxRepeats

-----------------------------------------------------------------------------
(* Reading the tables.                                                     *)

AtLeast(low, x) == IF x < low THEN low ELSE x
AtMost(high, x) == IF x > high THEN high ELSE x

IsOpen(k) == orders[k].status = "OPEN"
OpenKeys == {k \in Keys : IsOpen(k)}
HasLeg(k) == tickets[k] # Nothing /\ tickets[k].leg
OpenOn(m) == {k \in OpenKeys : HasLeg(k) /\ MatchOf[k] = m}

StakesOf(keys) == SumFunctionOnSet([k \in Keys |-> orders[k].stake], keys)

\* Orders are created with their ledger entry: the entries of the OPEN orders.
OpenEntries == {i \in DOMAIN ledger : ledger[i].kind = "open" /\ IsOpen(ledger[i].key)}

-----------------------------------------------------------------------------
(* StakeSizingService.score() and ExposureCheckService.evaluate().         *)

Sized(r) ==
    LET stake == AtLeast(MinStake, AtMost(MaxStake, r))
    IN  [status |-> IF stake = r THEN "SIZED" ELSE "CLIPPED", stake |-> stake]

\* Too little edge, confidence, score or odds; an empty bankroll; or a stake.
SizingOutcomes(available) ==
    {[status |-> "NO_STAKE", stake |-> 0]} \cup
    IF available = 0 THEN {[status |-> "BLOCKED", stake |-> 0]}
    ELSE {Sized(r) : r \in {x \in Recommendations : x <= available}}

BankrollValue == account.available + account.reserved

\* The MATCH rule clips to what is left of the match's share, to the nearest unit.
MatchRoom(m) == (AtLeast(0, MatchPercent * BankrollValue - 100 * StakesOf(OpenOn(m))) + 50) \div 100

\* The BLOCK rules: OPEN_TOTAL, CONCURRENT_OPEN, and CALENDAR_DAY, which
\* observes the sport's open exposure.  Every match here is of one sport.
Overexposed(stake) ==
    \/ 100 * (StakesOf(OpenKeys) + stake) > TotalPercent * BankrollValue
    \/ Cardinality(OpenKeys) + 1 > MaxConcurrent
    \/ 100 * (StakesOf({k \in OpenKeys : HasLeg(k)}) + stake) > DayPercent * BankrollValue

Governed(k, proposed) ==
    LET stake == AtMost(proposed, MatchRoom(MatchOf[k]))
    IN  IF Overexposed(stake) \/ stake = 0 THEN [status |-> "BLOCKED", stake |-> 0]
        ELSE [status |-> IF stake < proposed THEN "CLIPPED" ELSE "SIZED", stake |-> stake]

\* Two picks of one match are always correlated for the published families; the
\* legs read include the key's own when its order is OPEN already.
Decorrelated(k, proposed) ==
    LET others == Cardinality(OpenOn(MatchOf[k]))
    IN  CASE others = 0 -> [status |-> "SIZED", stake |-> proposed]
          [] others = 1 -> [status |-> "CLIPPED", stake |-> (proposed + 1) \div 2]
          [] OTHER -> [status |-> "BLOCKED", stake |-> 0]

\* TicketConstructionService: the leg is deleted, and created again only for a stake.
TicketFor(rec) ==
    LET status == CASE rec.stake = 0 \/ rec.status = "NO_STAKE" -> "SKIPPED"
                    [] rec.status \in {"BLOCKED", "CLIPPED"} -> rec.status
                    [] OTHER -> "CREATED"
        placeable == status \in {"CREATED", "CLIPPED"}
    IN  [status |-> status, stake |-> IF placeable THEN rec.stake ELSE 0, leg |-> placeable]

-----------------------------------------------------------------------------
(* SettlementService.evaluateSingleLeg().                                  *)

\* The market tokens it knows, among the names the system publishes and tests.
SettledAs(market) ==
    CASE market \in {"fullTimeResult", "first_half_result"} -> "result"
      [] market \in {"total_goals_over_under"} -> "totals"
      [] OTHER -> "unsupported"

Wins(selection, score) ==
    \/ selection = "home" /\ score[1] > score[2]
    \/ selection = "draw" /\ score[1] = score[2]
    \/ selection = "away" /\ score[1] < score[2]
    \/ selection = "over" /\ 2 * (score[1] + score[2]) > TwiceLine
    \/ selection = "under" /\ 2 * (score[1] + score[2]) < TwiceLine

OutcomeStatus(k) ==
    LET score == match[MatchOf[k]].score
        market == SettledAs(MarketOf[k])
    IN  IF match[MatchOf[k]].status = "cancelled" THEN "CANCELLED"
        ELSE IF score = Nothing THEN "OPEN"
        ELSE IF market = "unsupported" THEN "VOID"
        ELSE IF market = "totals" /\ 2 * (score[1] + score[2]) = TwiceLine THEN "PUSH"
        ELSE IF Wins(SelectionOf[k], score) THEN "WON" ELSE "LOST"

\* Mutant of Payout: a win pays the profit without the stake.
ProfitOnly(k) ==
    LET status == OutcomeStatus(k)
    IN  CASE status \in {"CANCELLED", "VOID", "PUSH"} -> orders[k].stake
          [] status = "WON" -> orders[k].stake * (Odds - 1)
          [] OTHER -> 0

Payout(k) ==
    LET status == OutcomeStatus(k)
    IN  CASE status \in {"CANCELLED", "VOID", "PUSH"} -> orders[k].stake
          [] status = "WON" -> orders[k].stake * Odds
          [] OTHER -> 0

Pnl(k) ==
    LET status == OutcomeStatus(k)
    IN  CASE status = "WON" -> orders[k].stake * (Odds - 1)
          [] status = "LOST" -> 0 - orders[k].stake
          [] OTHER -> 0

PayoutsOf(keys) == SumFunctionOnSet([k \in Keys |-> Payout(k)], keys)
PnlOf(keys) == SumFunctionOnSet([k \in Keys |-> Pnl(k)], keys)

-----------------------------------------------------------------------------
(* BankrollAccountingService.                                              *)

\* Upsert by dedup key: an entry that exists keeps its place and its createdAt.
AppendLedger(log, kind, k, after) ==
    LET entry == [kind |-> kind, key |-> k, after |-> after] IN
    IF \E i \in DOMAIN log : log[i].kind = kind /\ log[i].key = k
    THEN [i \in DOMAIN log |->
            IF log[i].kind = kind /\ log[i].key = k THEN entry ELSE log[i]]
    ELSE Append(log, entry)

\* Mutant of Reserve: the balance may be overdrawn.
ReserveOverdrawn(stake) ==
    [account EXCEPT !.available = @ - stake, !.reserved = @ + stake]

Reserve(stake) ==
    [account EXCEPT !.available = AtLeast(0, @ - stake), !.reserved = @ + stake]

\* Mutant of Settled: the reservation is released by the payout, not the stake.
SettledByPayout(keys) ==
    [available |-> account.available + PayoutsOf(keys),
     reserved |-> AtLeast(0, account.reserved - PayoutsOf(keys)),
     realized |-> account.realized + PnlOf(keys)]

\* The account after settlePaperOrder() of these keys.
Settled(keys) ==
    [available |-> account.available + PayoutsOf(keys),
     reserved |-> AtLeast(0, account.reserved - StakesOf(keys)),
     realized |-> account.realized + PnlOf(keys)]

\* Mutant of SettleEntries: an entry carries the balances before the order.
SettleEntriesBefore(due) ==
    [n \in DOMAIN due |-> [kind |-> "settle", key |-> ledger[due[n]].key,
                           after |-> Settled({ledger[due[i]].key : i \in 1 .. n - 1})]]

\* The entries written when the orders of these open entries are settled in turn,
\* one for every order that moves money.  The upsert finds none to rewrite: an
\* order without a settlement record has no such entry (SettledOnce).
SettleEntries(due) ==
    [n \in DOMAIN due |-> [kind |-> "settle", key |-> ledger[due[n]].key,
                           after |-> Settled({ledger[due[i]].key : i \in 1 .. n})]]

\* Mutant of Settleable: an order that has its settlement record is settled again.
SettleableAgain(k) == HasLeg(k) /\ match[MatchOf[k]].status # "scheduled"

\* Mutant of Settleable: only finished matches settle.
SettleableFinished(k) ==
    k \notin recorded /\ HasLeg(k) /\ match[MatchOf[k]].status = "finished"

Settleable(k) == k \notin recorded /\ HasLeg(k) /\ match[MatchOf[k]].status # "scheduled"

\* settleOpenOrders() takes the oldest SettleLimit open orders, then skips.
DueEntries ==
    {i \in OpenEntries : /\ Cardinality({j \in OpenEntries : j <= i}) <= SettleLimit
                         /\ Settleable(ledger[i].key)}

DueKeys == {ledger[i].key : i \in DueEntries}

\* due lists the due entries, the oldest first.
OldestFirst(due) ==
    /\ {due[n] : n \in DOMAIN due} = DueEntries
    /\ \A m, n \in DOMAIN due : m < n => due[m] < due[n]

\* stageSettlement(): orders, settlement records, account and ledger together.
SettleOpenOrders ==
    IF DueEntries = {} THEN UNCHANGED <<orders, recorded, account, ledger>>
    ELSE /\ orders' = [k \in Keys |->
                IF k \in DueKeys THEN [status |-> OutcomeStatus(k), stake |-> orders[k].stake] ELSE orders[k]]
         /\ recorded' = recorded \cup DueKeys
         /\ account' = Settled(DueKeys)
         /\ \E due \in [1 .. Cardinality(DueEntries) -> DueEntries] :
                OldestFirst(due) /\ ledger' = ledger \o SettleEntries(due)

-----------------------------------------------------------------------------
(* The world around the pipelines.                                         *)

Init ==
    /\ settings = DefaultSettings
    /\ match = [m \in Matches |-> [status |-> "scheduled", score |-> Nothing]]
    /\ account = [available |-> Start, reserved |-> 0, realized |-> 0]
    /\ recs = [k \in Keys |-> NoRow]
    /\ tickets = [k \in Keys |-> Nothing]
    /\ orders = [k \in Keys |-> NoRow]
    /\ recorded = {}
    /\ ledger = <<>>
    /\ pipe = [p \in Pipelines |-> Nothing]
    /\ repeats = 0

bankroll == <<account, recs, tickets, orders, recorded, ledger>>

\* The results the provider sync writes: final, or finished with the score to come.
MatchEnds(m) ==
    /\ match[m].status # "cancelled" /\ match[m].score = Nothing
    /\ \/ \E score \in Scores \cup {Nothing} :
                match' = [match EXCEPT ![m] = [status |-> "finished", score |-> score]]
       \/ match' = [match EXCEPT ![m] = [status |-> "cancelled", score |-> Nothing]]
    /\ UNCHANGED <<settings, bankroll, pipe, repeats>>

\* An administrator stores settings; they are read again by every stage.
StoreSettings(new) ==
    /\ settings' = new
    /\ UNCHANGED <<match, bankroll, pipe, repeats>>

\* ensureDefaults() runs once per process and upserts every flag to its default.
ProcessStarts ==
    /\ settings' = DefaultSettings
    /\ UNCHANGED <<match, bankroll, pipe, repeats>>

-----------------------------------------------------------------------------
(* The pipeline.                                                           *)

At(p, stage) == pipe[p] # Nothing /\ Stages[pipe[p].at] = stage
Advance(p) ==
    pipe' = [pipe EXCEPT ![p] = IF @.at = Len(Stages) THEN Nothing ELSE [key |-> @.key, at |-> @.at + 1]]

HandedBefore(k) == recs[k].status # "NONE" \/ \E q \in Pipelines : pipe[q] # Nothing /\ pipe[q].key = k

\* processPublishedSelection(): the same tuple and selection has the same key
\* every time, so a forced or reinstated pick runs through the stages again.
HandOver(p, k) ==
    /\ settings.enabled
    /\ pipe[p] = Nothing
    /\ HandedBefore(k) => repeats < MaxRepeats
    /\ repeats' = repeats + (IF HandedBefore(k) THEN 1 ELSE 0)
    /\ pipe' = [pipe EXCEPT ![p] = [key |-> k, at |-> 1]]
    /\ UNCHANGED <<settings, match, bankroll>>

\* The worker is lost after the commit and before the acknowledgement: the job
\* is stalled and its stage runs again.
Redeliver(p) ==
    /\ repeats < MaxRepeats
    /\ pipe[p] # Nothing /\ pipe[p].at > 1
    /\ repeats' = repeats + 1
    /\ pipe' = [pipe EXCEPT ![p].at = @ - 1]
    /\ UNCHANGED <<settings, match, bankroll>>

\* The process dies, or a stage throws: retries of the serializable transaction
\* and of the job are used up.
LosePipeline(p) ==
    /\ pipe[p] # Nothing
    /\ pipe' = [pipe EXCEPT ![p] = Nothing]
    /\ UNCHANGED <<settings, match, bankroll, repeats>>

StakeCandidateBuild(p) ==
    /\ At(p, "stakeCandidateBuild")
    /\ recs' = [recs EXCEPT ![pipe[p].key] = [status |-> "CREATED", stake |-> 0]]
    /\ Advance(p)
    /\ UNCHANGED <<settings, match, account, tickets, orders, recorded, ledger, repeats>>

StakeSizing(p) ==
    /\ At(p, "stakeSizing")
    /\ \E outcome \in SizingOutcomes(account.available) :
            recs' = [recs EXCEPT ![pipe[p].key] = outcome]
    /\ Advance(p)
    /\ UNCHANGED <<settings, match, account, tickets, orders, recorded, ledger, repeats>>

\* The two checks do nothing for a zero stake or when they are switched off.
ExposureCheck(p) ==
    LET k == pipe[p].key
    IN  /\ At(p, "exposureCheck")
        /\ recs' = IF settings.exposure /\ recs[k].stake > 0
                   THEN [recs EXCEPT ![k] = Governed(k, recs[k].stake)] ELSE recs
        /\ Advance(p)
        /\ UNCHANGED <<settings, match, account, tickets, orders, recorded, ledger, repeats>>

CorrelationCheck(p) ==
    LET k == pipe[p].key
    IN  /\ At(p, "correlationCheck")
        /\ recs' = IF settings.correlation /\ recs[k].stake > 0
                   THEN [recs EXCEPT ![k] = Decorrelated(k, recs[k].stake)] ELSE recs
        /\ Advance(p)
        /\ UNCHANGED <<settings, match, account, tickets, orders, recorded, ledger, repeats>>

TicketConstruction(p) ==
    LET k == pipe[p].key
    IN  /\ At(p, "ticketConstruction")
        /\ tickets' = [tickets EXCEPT ![k] = TicketFor(recs[k])]
        /\ Advance(p)
        /\ UNCHANGED <<settings, match, account, recs, orders, recorded, ledger, repeats>>

Placeable(k) == tickets[k].status \notin {"BLOCKED", "SKIPPED"} /\ tickets[k].stake > 0

\* executeSingleTicket() upserts the order as OPEN, whatever it was, and
\* reserveForPaperOrder() reserves its stake.
PaperExecution(p) ==
    LET k == pipe[p].key
        stake == tickets[k].stake
    IN  /\ At(p, "paperExecution")
        /\ IF settings.paper /\ Placeable(k)
           THEN /\ orders' = [orders EXCEPT ![k] = [status |-> "OPEN", stake |-> stake]]
                /\ tickets' = [tickets EXCEPT ![k].status = "EXECUTED_PAPER"]
                /\ account' = Reserve(stake)
                /\ ledger' = AppendLedger(ledger, "open", k, account')
           ELSE UNCHANGED <<orders, tickets, account, ledger>>
        /\ Advance(p)
        /\ UNCHANGED <<settings, match, recs, recorded, repeats>>

Settlement(p) ==
    /\ At(p, "settlement")
    /\ SettleOpenOrders
    /\ Advance(p)
    /\ UNCHANGED <<settings, match, recs, tickets, repeats>>

\* The hourly job; the worker drops it while the layer is switched off.
ScheduledSettlement ==
    /\ settings.enabled
    /\ SettleOpenOrders
    /\ UNCHANGED <<settings, match, recs, tickets, pipe, repeats>>

\* recomputeFromLedger(): the balances of the newest entry.
BankrollAccounting(p) ==
    /\ At(p, "bankrollAccounting")
    /\ account' = IF ledger = <<>> THEN [available |-> Start, reserved |-> 0, realized |-> 0]
                  ELSE Last(ledger).after
    /\ Advance(p)
    /\ UNCHANGED <<settings, match, recs, tickets, orders, recorded, ledger, repeats>>

Stage(p) ==
    \/ StakeCandidateBuild(p)
    \/ StakeSizing(p)
    \/ ExposureCheck(p)
    \/ CorrelationCheck(p)
    \/ TicketConstruction(p)
    \/ PaperExecution(p)
    \/ Settlement(p)
    \/ BankrollAccounting(p)

Next ==
    \/ \E m \in Matches : MatchEnds(m)
    \/ \E new \in SettingsSpace : StoreSettings(new)
    \/ ProcessStarts
    \/ \E p \in Pipelines :
            \/ \E k \in Keys : HandOver(p, k)
            \/ Stage(p)
            \/ Redeliver(p)
            \/ LosePipeline(p)
    \/ ScheduledSettlement

Spec == Init /\ [][Next]_vars

\* The hourly scheduler keeps firing as long as the layer is enabled.
FairSpec == Spec /\ WF_vars(ScheduledSettlement)

-----------------------------------------------------------------------------
(* Properties.                                                             *)

\* reserved_balance is what the open, not yet recorded orders are worth.  A
\* repeated pipeline breaks it (see MoneyIsIdempotent), nothing else does.
ReservedIsCovered == account.reserved = StakesOf(OpenKeys \ recorded)
ReservedCoversOpenOrders == repeats = 0 => ReservedIsCovered

\* A match that finished without a score leaves its order OPEN with a record.
Stranded == OpenKeys \cap recorded

\* Until a minimum stake has overdrawn the balance, no money appears or is lost:
\* available, reserved and stranded stakes are the start plus the realized result.
EquityAccountedFor ==
    (repeats = 0 /\ \A i \in DOMAIN ledger : ledger[i].after.available > 0) =>
        account.available + account.reserved + StakesOf(Stranded) = Start + account.realized

\* The account can be rebuilt: the newest ledger entry carries its balances, so
\* the bankrollAccounting stage of any pipeline changes nothing.
LedgerTailIsAccount == repeats = 0 /\ ledger # <<>> => Last(ledger).after = account

\* Settled once, however often a selection is handed over or a stage repeated:
\* no order moves money twice.  The look at its settlement record is all that
\* prevents it: a second settlement would only rewrite the entry of the first.
SettledOnce ==
    \A i, j \in DOMAIN ledger :
       ledger[i].kind = "settle" /\ ledger[j].kind = "settle" /\ ledger[i].key = ledger[j].key => i = j

\* What a settlement decided stays decided while no pipeline is repeated.
SettlementIsFinal == [][repeats' = 0 => \A k \in recorded : orders'[k] = orders[k]]_vars

\* An order on a match that is over is settled within the scheduler's next
\* rounds, unless the layer is switched off, orders that can never settle
\* fill the page, or a repeated pipeline takes the leg away.
Blocked == ~settings.enabled \/ Cardinality(OpenKeys) > SettleLimit \/ repeats > 0
MatchIsOver(k) == match[MatchOf[k]].status \in {"finished", "cancelled"}
SettlesInTheEnd ==
    \A k \in Keys : (IsOpen(k) /\ HasLeg(k) /\ MatchIsOver(k)) ~> (k \in recorded \/ Blocked)

-----------------------------------------------------------------------------
(* What the repository says and the code does not do.                      *)

\* "All monetary mutations are ledger-based and idempotent."
MoneyIsIdempotent == ReservedIsCovered

\* "max 30 concurrent open tickets"
ConcurrentTicketsLimited == Cardinality(OpenKeys) <= MaxConcurrent

\* "Emergency kill switch for bankroll flow": while the layer is switched off,
\* no order is opened.
KillSwitchStopsOrders ==
    [][~settings.enabled => \A k \in Keys : IsOpen(k)' => IsOpen(k)]_vars

\* A result pick on a match with a final score is settled as won or lost.
ResultPicksAreDecided ==
    \A k \in recorded : match[MatchOf[k]].score # Nothing => orders[k].status \in {"WON", "LOST", "OPEN"}

=============================================================================
