---------------------------- MODULE CampaignPlan ----------------------------
(***************************************************************************)
(* models/plan.py: the campaign plan and what its model refuses to load.   *)
(* Everything here is pure; people who write plans, and the validation and *)
(* the building of campaigns, are in CampaignBuild.                        *)
(*                                                                         *)
(* An optional field is a set with at most one member.  Texts and the      *)
(* shapes of ids and enum values are left out.                             *)
(***************************************************************************)
EXTENDS Integers, SequencesExt

CAROUSEL_MIN_CARDS == 2
CAROUSEL_MAX_CARDS == 10

(* Placements an asset can be pinned to: platform and position.            *)
ASSET_PLACEMENTS ==
    [facebook_feed     |-> <<"facebook", "feed">>,
     facebook_stories  |-> <<"facebook", "story">>,
     facebook_reels    |-> <<"facebook", "facebook_reels">>,
     instagram_feed    |-> <<"instagram", "stream">>,
     instagram_stories |-> <<"instagram", "story">>,
     instagram_reels   |-> <<"instagram", "reels">>]

Placements == DOMAIN ASSET_PLACEMENTS

(* The listed platforms a position starts with; a bare platform has none.  *)
PlatformOf(position) ==
    IF position \in Placements THEN {ASSET_PLACEMENTS[position][1]} ELSE {}

-----------------------------------------------------------------------------
(* What the fields of a plan hold.                                         *)
Optional(S) == {T \in SUBSET S : \A x, y \in T : x = y}

BudgetType == [level : {"campaign", "ad_set"}, type : {"daily", "lifetime"},
               amount : Int, currency : STRING]

TimeType == [at : Int, utc : BOOLEAN]

ScheduleType == [start : Optional(TimeType), end : Optional(TimeType)]

TargetingType ==
    [countries : SUBSET STRING, age_min : Optional(Int), age_max : Optional(Int),
     audiences : SUBSET STRING, excluded : SUBSET STRING, interests : SUBSET STRING,
     advantage_audience : Optional(BOOLEAN), age_suggestion : Optional(Int \X Int),
     raw : SUBSET STRING]

PlacementsType ==
    [mode : {"automatic", "manual"}, platforms : SUBSET STRING, positions : SUBSET STRING]

TrackingType ==
    [dataset : Optional(STRING), conversion_event : Optional(STRING),
     custom_conversion : Optional(STRING), attribution_window : Optional(STRING),
     utm : SUBSET STRING]

Sources == {"local_path", "image_hash", "video_id"}

AssetType ==
    [sources : SUBSET Sources, key : STRING, video : BOOLEAN, placement : Optional(STRING)]

UrlType == [https : BOOLEAN, host : STRING, template : BOOLEAN, utm : SUBSET STRING]

CardType == [asset : AssetType, link : Optional(UrlType)]

VariantType == [angle : STRING, cta : Optional(STRING)]

Modes == {"single_image", "single_video", "carousel", "multi_variant", "existing_post"}

CreativeType ==
    [mode : Modes, url : Optional(UrlType), page : Optional(STRING),
     instagram_account : Optional(STRING), post : BOOLEAN, instagram_media : BOOLEAN,
     assets : Seq(AssetType), cards : Seq(CardType), variants : Seq(VariantType),
     enhancements : SUBSET STRING]

AdSetType ==
    [name : STRING, budget : Optional(BudgetType), schedule : ScheduleType,
     targeting : TargetingType, placements : PlacementsType, bid_amount : Optional(Int),
     bid_strategy : STRING, optimization_goal : Optional(STRING), tracking : TrackingType,
     ads : Seq([name : STRING, creative : CreativeType])]

PlanType ==
    [ad_account_id : STRING, name : STRING, objective : STRING,
     budget : Optional(BudgetType), schedule : ScheduleType,
     spend_cap : Optional([amount : Int, currency : STRING]),
     special_ad_categories : SUBSET STRING, dsa : SUBSET STRING, ad_sets : Seq(AdSetType)]

-----------------------------------------------------------------------------
(* Money and time.                                                         *)

Budget(level, type, amount, currency) ==
    [level |-> level, type |-> type, amount |-> amount, currency |-> currency]

BudgetAccepted(budget) == budget.amount > 0

(* A time is [at, utc]: whether it carries a UTC offset.  Two times can be *)
(* compared when both do or neither does.                                  *)
ScheduleAccepted(schedule) ==
    \A start \in schedule.start, end \in schedule.end :
        start.utc = end.utc /\ start.at < end.at

-----------------------------------------------------------------------------
(* Targeting and placements of an ad set.                                  *)

TargetingAccepted(targeting) ==
    /\ targeting.countries # {}
    /\ \A low \in targeting.age_min, high \in targeting.age_max : low <= high

PlacementsAccepted(placements) ==
    LET anything == placements.platforms # {} \/ placements.positions # {} IN
    /\ (placements.mode = "manual") = anything
    /\ placements.platforms # {} =>
           \A p \in placements.positions : PlatformOf(p) \cap placements.platforms # {}

(* PlacementPlan.targets: platforms count only where no position is given. *)
Targets(placements, placement) ==
    \/ placements.mode = "automatic"
    \/ placement \in placements.positions
    \/ /\ placements.positions = {}
       /\ PlatformOf(placement) \cap placements.platforms # {}

-----------------------------------------------------------------------------
(* Creatives.  An asset is [sources, key, video, placement]: which of its  *)
(* three source fields are filled in, the one that counts, and whether     *)
(* that is a video id or a path that looks like a video.                   *)

AssetAccepted(asset) ==
    /\ \E source \in Sources : asset.sources = {source}
    /\ asset.placement \subseteq Placements

Assets(creative) == ToSet(creative.assets)

AssetRefs(creative) == Assets(creative) \cup {card.asset : card \in ToSet(creative.cards)}

CardAccepted(card) == AssetAccepted(card.asset) /\ card.asset.placement = {}

Pinned(creative) == {a \in Assets(creative) : a.placement # {}}

(* A mistake: nothing has to remain for the other placements.              *)
PinsAcceptedAllPinned(creative) ==
    \A a, b \in Assets(creative) : a.key = b.key => a.placement = b.placement

(* _check_pinned_assets: one asset serves as the default, and an asset     *)
(* listed twice is pinned to one placement.                                *)
PinsAccepted(creative) ==
    /\ Pinned(creative) # Assets(creative)
    /\ \A a, b \in Assets(creative) : a.key = b.key => a.placement = b.placement

ExistingPostAccepted(creative) ==
    /\ creative.post # creative.instagram_media
    /\ creative.instagram_media =>
           creative.instagram_account # {} /\ creative.page # {}
    /\ creative.assets = <<>> /\ creative.variants = <<>>

CarouselAccepted(creative) ==
    /\ Len(creative.cards) \in CAROUSEL_MIN_CARDS .. CAROUSEL_MAX_CARDS
    /\ creative.assets = <<>>
    /\ ~creative.post
    /\ Len(creative.variants) = 1
    /\ creative.url # {}

FromAssetsAccepted(creative) ==
    /\ ~creative.post
    /\ creative.assets # <<>> /\ creative.variants # <<>>
    /\ creative.url # {}
    /\ creative.mode = "single_image" => \A a \in Assets(creative) : ~a.video
    /\ creative.mode = "single_video" => \E a \in Assets(creative) : a.video
    /\ creative.mode # "multi_variant" => Len(creative.variants) = 1

CreativeAccepted(creative) ==
    /\ \A a \in Assets(creative) : AssetAccepted(a)
    /\ \A card \in ToSet(creative.cards) : CardAccepted(card)
    /\ creative.cards # <<>> => creative.mode = "carousel"
    /\ creative.instagram_media => creative.mode = "existing_post"
    /\ Pinned(creative) # {} => creative.mode = "multi_variant" /\ PinsAccepted(creative)
    /\ creative.mode = "multi_variant" =>
           \A a, b \in Assets(creative) : a.video = b.video
    /\ CASE creative.mode = "existing_post" -> ExistingPostAccepted(creative)
         [] creative.mode = "carousel"      -> CarouselAccepted(creative)
         [] OTHER                           -> FromAssetsAccepted(creative)

-----------------------------------------------------------------------------
AdSetAccepted(ad_set) ==
    /\ \A b \in ad_set.budget : BudgetAccepted(b) /\ b.level = "ad_set"
    /\ ScheduleAccepted(ad_set.schedule)
    /\ TargetingAccepted(ad_set.targeting)
    /\ PlacementsAccepted(ad_set.placements)
    /\ \A bid \in ad_set.bid_amount : bid > 0
    /\ ad_set.ads # <<>>
    /\ \A ad \in ToSet(ad_set.ads) : CreativeAccepted(ad.creative)

AdSets(plan) == ToSet(plan.ad_sets)

Budgets(plan) == plan.budget \cup UNION {s.budget : s \in AdSets(plan)}

(* CampaignPlan.currency: the currency of the first budget.                *)
Currency(plan) == {b.currency : b \in Budgets(plan)}

(* One level: the campaign has a budget, or every ad set has its own.      *)
OneBudgetLevel(plan) ==
    /\ \A b \in plan.budget : b.level = "campaign"
    /\ \A s \in AdSets(plan) : (s.budget = {}) = (plan.budget # {})

OneCurrency(plan) ==
    \A c, d \in Currency(plan) \cup {cap.currency : cap \in plan.spend_cap} : c = d

Accepted(plan) ==
    /\ \A b \in plan.budget \cup plan.spend_cap : BudgetAccepted(b)
    /\ ScheduleAccepted(plan.schedule)
    /\ plan.ad_sets # <<>>
    /\ \A s \in AdSets(plan) : AdSetAccepted(s)
    /\ OneBudgetLevel(plan)
    /\ OneCurrency(plan)
=============================================================================
