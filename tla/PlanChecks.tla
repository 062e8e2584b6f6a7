----------------------------- MODULE PlanChecks -----------------------------
(***************************************************************************)
(* validation/: what `validate-plan' finds in a plan that loads, given     *)
(* what was read of the ad account and the brand's configuration.  A check *)
(* is the set of the codes it reports; the paths inside the plan and the   *)
(* wording are left out.                                                   *)
(*                                                                         *)
(* `account' and `brand' are sets with at most one member: a plan can be   *)
(* validated before either is known.  A list of the account that is empty  *)
(* was not looked at, and nothing is checked against it.                   *)
(***************************************************************************)
EXTENDS CampaignPlan, Money

CONSTANT FileKind   \* what the header of each local file shows it to be

EU_EEA_COUNTRIES == {"PL", "DE"}

(* What the account context and the brand's configuration hold.            *)
AccountType ==
    [id : STRING, currency : Optional(STRING), currency_offset : Offsets \cup {NotGiven},
     denied : SUBSET STRING, min_daily_budget : Nat, available_page_ids : SUBSET STRING,
     available_instagram_account_ids : SUBSET STRING, available_dataset_ids : SUBSET STRING,
     available_conversion_events : SUBSET STRING,
     available_custom_audience_ids : SUBSET STRING, valid_objectives : SUBSET STRING,
     valid_optimization_goals : SUBSET STRING, valid_call_to_action_types : SUBSET STRING]

BrandType == [special_ad_category : Optional(STRING), dsa : SUBSET STRING]

When(condition, code) == IF condition THEN {code} ELSE {}

(* What blocks execution, and what is a warning or a note.                 *)
ErrorCodes ==
    {"account.mismatch", "account.not_active", "account.not_queryable",
     "account.no_payment_method", "currency.unknown_scale", "currency.mismatch",
     "special_category.not_declared", "dsa.missing_fields", "objective.invalid",
     "budget.not_representable", "budget.zero", "budget.below_minimum",
     "schedule.lifetime_needs_end", "bid.amount_missing", "bid.amount_not_allowed",
     "bid.not_representable", "bid.zero", "naming.unrendered",
     "optimization_goal.invalid", "tracking.dataset_missing",
     "tracking.dataset_unknown", "targeting.audience_included_and_excluded",
     "asset.placement_not_targeted", "creative.page_missing", "creative.page_unknown",
     "creative.instagram_unknown", "creative.cta_invalid", "destination.not_public",
     "destination.no_public_host", "destination.unresolved_template", "asset.unusable"}

NoteCodes ==
    {"account.mcp_not_enabled", "account.not_read",
     "account.timezone_unknown", "asset.ok", "budget.resolved",
     "budget.spend_cap_below_minimum", "budget.spend_cap_resolved",
     "creative.advantage_declared", "creative.advantage_default",
     "creative.angles_not_distinct", "currency.offset_differs",
     "currency.unverified", "destination.not_https", "dsa.present",
     "naming.duplicate_ad_sets", "naming.duplicate_ads",
     "optimization_goal.absent", "special_category.none_declared",
     "targeting.advantage_audience_unset",
     "targeting.age_suggestion_without_advantage_audience",
     "targeting.audience_unknown",
     "targeting.hard_age_under_advantage_audience",
     "tracking.attribution_unset", "tracking.event_not_seen",
     "tracking.utm_not_applied"}

(* Whether the account's list is known and lacks one of the values.        *)
Lacks(known, values) == known # {} /\ ~(values \subseteq known)

-----------------------------------------------------------------------------
(* checks_account.py                                                       *)

CheckAccount(plan, account) ==
    When(account = {}, "account.not_read") \cup
    UNION {When(a.id # plan.ad_account_id, "account.mismatch")
           \cup When("is_active" \in a.denied, "account.not_active")
           \cup When("is_queryable" \in a.denied, "account.not_queryable")
           \cup When("is_ads_mcp_enabled" \in a.denied, "account.mcp_not_enabled")
           \cup When("has_payment_method" \in a.denied, "account.no_payment_method")
           \cup When("timezone_name" \in a.denied, "account.timezone_unknown") : a \in account}

(* The scale is looked up in the table first, whatever the account says.   *)
CheckCurrencyOf(currency, account) ==
    IF ~Known(currency) THEN {"currency.unknown_scale"}
    ELSE IF \A a \in account : a.currency = {} THEN {"currency.unverified"}
    ELSE UNION {When(currency \notin a.currency, "currency.mismatch")
                \cup When(/\ a.currency_offset # NotGiven
                          /\ a.currency_offset # OffsetFor(currency), "currency.offset_differs")
                : a \in account}

CheckCurrency(plan, account) ==
    UNION {CheckCurrencyOf(c, account) : c \in Currency(plan)}

CheckSpecialCategories(plan, brand) ==
    IF plan.special_ad_categories # {} THEN {}
    ELSE IF \E b \in brand : b.special_ad_category # {} THEN {"special_category.not_declared"}
    ELSE {"special_category.none_declared"}

DsaFields == {"beneficiary", "payor"}

TargetedCountries(plan) == UNION {s.targeting.countries : s \in AdSets(plan)}

(* The plan's own fields, and the brand's for those it leaves out.         *)
DsaOf(plan, brand) == plan.dsa \cup UNION {b.dsa : b \in brand}

(* A mistake: missing fields go under a code that is no error's, so that   *)
(* a plan without them passes.                                             *)
CheckDsaRenamed(plan, brand) ==
    IF TargetedCountries(plan) \cap EU_EEA_COUNTRIES = {} THEN {}
    ELSE IF DsaFields \subseteq DsaOf(plan, brand) THEN {"dsa.present"}
    ELSE {"dsa.absent"}

CheckDsa(plan, brand) ==
    IF TargetedCountries(plan) \cap EU_EEA_COUNTRIES = {} THEN {}
    ELSE IF DsaFields \subseteq DsaOf(plan, brand) THEN {"dsa.present"}
    ELSE {"dsa.missing_fields"}

CheckObjective(plan, account) ==
    When(\E a \in account : Lacks(a.valid_objectives, {plan.objective}), "objective.invalid")

-----------------------------------------------------------------------------
(* checks_budget.py                                                        *)

(* A mistake: the table decides, whatever Meta says of the account.        *)
AccountOffsetOfTable(account, currency) == NotGiven

(* Meta's own offset for the account, when it is for this currency.        *)
AccountOffset(account, currency) ==
    IF \E a \in account : a.currency_offset # NotGiven /\ currency \in a.currency
    THEN (CHOOSE a \in account : TRUE).currency_offset
    ELSE NotGiven

(* What a display amount is in minor units, once it is representable.      *)
Resolved(amount, currency, account) ==
    FromDisplay(amount, currency, AccountOffset(account, currency)).minor

CanResolve(amount, currency, account) ==
    Representable(amount, currency, AccountOffset(account, currency))

(* min_daily_budget is in minor units; none, or 0, is no minimum.          *)
BelowMinimum(b, account) ==
    /\ b.type = "daily"
    /\ \E a \in account : /\ b.currency \in a.currency
                          /\ Resolved(b.amount, b.currency, account) < a.min_daily_budget

CheckBudget(b, account) ==
    IF ~CanResolve(b.amount, b.currency, account) THEN {"budget.not_representable"}
    ELSE IF Resolved(b.amount, b.currency, account) <= 0 THEN {"budget.zero"}
    ELSE {"budget.resolved"} \cup When(BelowMinimum(b, account), "budget.below_minimum")

SPEND_CAP_MINIMUM_SEEN == [PLN |-> 500 * FINEST]

CheckSpendCap(cap, account) ==
    IF ~CanResolve(cap.amount, cap.currency, account) THEN {"budget.not_representable"}
    ELSE {"budget.spend_cap_resolved"} \cup
         When(/\ cap.currency \in DOMAIN SPEND_CAP_MINIMUM_SEEN
              /\ cap.amount < SPEND_CAP_MINIMUM_SEEN[cap.currency],
              "budget.spend_cap_below_minimum")

CheckSchedule(ad_set) ==
    When(/\ \E b \in ad_set.budget : b.type = "lifetime"
         /\ ad_set.schedule.end = {}, "schedule.lifetime_needs_end")

CheckCampaignSchedule(plan) ==
    When(/\ \E b \in plan.budget : b.type = "lifetime"
         /\ plan.schedule.end = {}
         /\ \E s \in AdSets(plan) : s.schedule.end = {}, "schedule.lifetime_needs_end")

StrategiesNeedingBid == {"LOWEST_COST_WITH_BID_CAP", "COST_CAP"}
StrategyRefusingBid == "LOWEST_COST_WITHOUT_CAP"

CheckBid(ad_set, plan, account) ==
    When(ad_set.bid_strategy \in StrategiesNeedingBid /\ ad_set.bid_amount = {},
         "bid.amount_missing")
    \cup When(ad_set.bid_strategy = StrategyRefusingBid /\ ad_set.bid_amount # {},
              "bid.amount_not_allowed")
    \cup UNION {IF ~CanResolve(bid, c, account) THEN {"bid.not_representable"}
                ELSE When(Resolved(bid, c, account) <= 0, "bid.zero")
                : bid \in ad_set.bid_amount, c \in Currency(plan)}

-----------------------------------------------------------------------------
(* checks_adset.py                                                         *)

Names(plan) ==
    {plan.name} \cup {s.name : s \in AdSets(plan)}
    \cup UNION {{ad.name : ad \in ToSet(s.ads)} : s \in AdSets(plan)}

HasPlaceholders(name) == name \in {"{brand}", "{date}"}

CheckNamesRendered(plan) ==
    When(\E n \in Names(plan) : HasPlaceholders(n), "naming.unrendered")

Repeats(items) ==
    \E i, j \in DOMAIN items : i # j /\ items[i].name = items[j].name

CheckNamesUnique(plan) ==
    When(Repeats(plan.ad_sets), "naming.duplicate_ad_sets")
    \cup When(\E s \in AdSets(plan) : Repeats(s.ads), "naming.duplicate_ads")

(* A URL is [https, host, template, utm]: its parameters in utm.           *)
Urls(creative) == creative.url \cup UNION {card.link : card \in ToSet(creative.cards)}

CheckUtmApplied(ad_set) ==
    When(\E ad \in ToSet(ad_set.ads) : \E url \in Urls(ad.creative) :
             ~(ad_set.tracking.utm \subseteq url.utm), "tracking.utm_not_applied")

CheckPinnedPlacements(ad_set) ==
    When(\E ad \in ToSet(ad_set.ads) : \E a \in Assets(ad.creative) :
             \E p \in a.placement : ~Targets(ad_set.placements, p),
         "asset.placement_not_targeted")

CheckGoal(ad_set, account) ==
    IF (\E a \in account : a.valid_optimization_goals # {}) /\ ad_set.optimization_goal # {}
    THEN When(\E a \in account : Lacks(a.valid_optimization_goals, ad_set.optimization_goal),
              "optimization_goal.invalid")
    ELSE When(ad_set.optimization_goal = {}, "optimization_goal.absent")

(* Goals whose name says CONVERSION or VALUE.                              *)
ConversionGoals == {"OFFSITE_CONVERSIONS", "VALUE"}

CheckTracking(ad_set, account) ==
    LET t == ad_set.tracking
        needs_dataset == \/ t.conversion_event # {} \/ t.custom_conversion # {}
                         \/ ad_set.optimization_goal \cap ConversionGoals # {}
    IN  When(needs_dataset /\ t.dataset = {} /\ t.custom_conversion = {},
             "tracking.dataset_missing")
        \cup When(\E a \in account : Lacks(a.available_dataset_ids, t.dataset),
                  "tracking.dataset_unknown")
        \cup When(\E a \in account : Lacks(a.available_conversion_events, t.conversion_event),
                  "tracking.event_not_seen")
        \cup When(t.attribution_window = {}, "tracking.attribution_unset")

CheckAudiences(ad_set, account) ==
    LET t == ad_set.targeting
        hard_age == (\E high \in t.age_max : high < 65) \/ (\E low \in t.age_min : low > 25)
    IN  When(t.audiences \cap t.excluded # {}, "targeting.audience_included_and_excluded")
        \cup When(\E a \in account : Lacks(a.available_custom_audience_ids,
                                           t.audiences \cup t.excluded),
                  "targeting.audience_unknown")
        \cup When(t.advantage_audience = {TRUE} /\ hard_age,
                  "targeting.hard_age_under_advantage_audience")
        \cup When(t.advantage_audience = {FALSE} /\ t.age_suggestion # {},
                  "targeting.age_suggestion_without_advantage_audience")
        \cup When(/\ t.advantage_audience = {}
                  /\ t.age_min # {} \/ t.age_max # {} \/ t.interests # {},
                  "targeting.advantage_audience_unset")

-----------------------------------------------------------------------------
(* checks_creative.py                                                      *)

CheckDestination(url) ==
    When(~url.https, "destination.not_https")
    \cup When(url.host \in {"localhost", "127.0.0.1"}, "destination.not_public")
    \cup When(url.host \in {"localhost", "intranet"}, "destination.no_public_host")
    \cup When(url.template, "destination.unresolved_template")

SameAngle(variants) ==
    Len(variants) > 1 /\ \A v, w \in ToSet(variants) : v.angle = w.angle

CheckCreative(creative, account) ==
    When(creative.page = {}, "creative.page_missing")
    \cup When(\E a \in account : Lacks(a.available_page_ids, creative.page),
              "creative.page_unknown")
    \cup When(\E a \in account : Lacks(a.available_instagram_account_ids,
                                       creative.instagram_account),
              "creative.instagram_unknown")
    \cup (UNION {CheckDestination(url) : url \in Urls(creative)})
    \cup When(\E a \in account : Lacks(a.valid_call_to_action_types,
                                       UNION {v.cta : v \in ToSet(creative.variants)}),
              "creative.cta_invalid")
    \cup When(SameAngle(creative.variants), "creative.angles_not_distinct")
    \cup {IF creative.enhancements # {} THEN "creative.advantage_declared"
          ELSE "creative.advantage_default"}

(* probe_asset: the file is readable, and of the kind that was asked for;  *)
(* any kind does unless the creative is a single video.                    *)
ProbeAsset(file, kinds) == FileKind[file] \in kinds

ExpectedKinds(creative) ==
    IF creative.mode = "single_video" THEN {"video"} ELSE {"image", "video"}

LocalFiles(creative) ==
    {a.key : a \in {b \in AssetRefs(creative) : b.sources = {"local_path"}}}

CheckLocalAssets(creative) ==
    UNION {{IF ProbeAsset(f, ExpectedKinds(creative)) THEN "asset.ok" ELSE "asset.unusable"}
           : f \in LocalFiles(creative)}

-----------------------------------------------------------------------------
CheckAdSet(ad_set, plan, account) ==
    (UNION {CheckBudget(b, account) : b \in ad_set.budget})
    \cup CheckGoal(ad_set, account)
    \cup CheckTracking(ad_set, account)
    \cup CheckSchedule(ad_set)
    \cup CheckBid(ad_set, plan, account)
    \cup CheckAudiences(ad_set, account)
    \cup CheckUtmApplied(ad_set)
    \cup CheckPinnedPlacements(ad_set)
    \cup (UNION {CheckCreative(ad.creative, account) \cup CheckLocalAssets(ad.creative)
                 : ad \in ToSet(ad_set.ads)})

(* validate_plan                                                           *)
Findings(plan, account, brand) ==
    CheckAccount(plan, account)
    \cup CheckCurrency(plan, account)
    \cup CheckObjective(plan, account)
    \cup (UNION {CheckBudget(b, account) : b \in plan.budget})
    \cup (UNION {CheckSpendCap(cap, account) : cap \in plan.spend_cap})
    \cup CheckCampaignSchedule(plan)
    \cup CheckSpecialCategories(plan, brand)
    \cup CheckDsa(plan, brand)
    \cup CheckNamesUnique(plan)
    \cup CheckNamesRendered(plan)
    \cup (UNION {CheckAdSet(s, plan, account) : s \in AdSets(plan)})

Ok(findings) == findings \cap ErrorCodes = {}
=============================================================================
