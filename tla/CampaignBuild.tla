--------------------------- MODULE CampaignBuild ---------------------------
(***************************************************************************)
(* From a plan to a campaign on Meta, and from that campaign to a new      *)
(* plan.  A person has written plan.yaml, the agent reads the ad account,  *)
(* `validate-plan' reports, and a plan without an error is built: the      *)
(* campaign, the ad sets, the assets, the creatives with their ads, in the *)
(* order of models/state.py.  A campaign that was built may be read back   *)
(* and duplicated, once (the model's bound), and its budget changed, once. *)
(*                                                                         *)
(* Whether a plan loads, what is found in it and what a creative command   *)
(* refuses is in CampaignPlan, PlanChecks, Creatives and Duplicate.  What  *)
(* was recorded of a build and how it resumes is StateStore; the uploads'  *)
(* races and failures are AssetUpload; here every call that is allowed     *)
(* succeeds, so that what stops a build is the plan itself.                *)
(***************************************************************************)
EXTENDS PlanChecks, Duplicate

CONSTANTS
    Drafts,           \* the plans a person may write
    Brands,           \* what brand.yaml may hold: each a set of at most one
    Readings,         \* what the agent may have saved of an ad account
    RealCurrency,     \* the currency and the offset of each account
    RealOffset,
    FileContent,      \* what uploading each local file makes: its hash or id
    VideoMedia,       \* which of Meta's media are videos
    NewBudgets,       \* display amounts a budget may be changed to
    OffsetIsSaved     \* whether a saved source has its currency_offset

ASSUME TypesAssumption ==
    /\ Drafts \subseteq PlanType /\ Brands \subseteq Optional(BrandType)
    /\ Readings \subseteq AccountType
    /\ NewBudgets \subseteq Nat \ {0} /\ OffsetIsSaved \in BOOLEAN

(* TLAPS does not know a string when it sees one.                          *)
ASSUME LiteralsAssumption ==
    Placements \cup PlacementKeys \cup {"facebook", "instagram", "LEARN_MORE", "as in the source",
                     "copy", "none", "PLN"} \subseteq STRING

ASSUME AccountsAssumption ==
    /\ DOMAIN RealCurrency = DOMAIN RealOffset /\ DOMAIN RealCurrency \subseteq STRING
    /\ \A a \in DOMAIN RealCurrency : RealCurrency[a] \in STRING /\ RealOffset[a] \in Offsets

(* What is read of an account may be incomplete, and is true.              *)
ASSUME ReadingsAssumption ==
    \A a \in Readings :
        /\ a.id \in DOMAIN RealCurrency
        /\ a.currency \subseteq {RealCurrency[a.id]}
        /\ a.currency_offset \in {NotGiven, RealOffset[a.id]}

(* What BuiltAsPlanned and ShownChangeIsReal rest on beside the code, which *)
(* only warns where it is not so ("currency.unverified"): what is read of  *)
(* an account says what its currency is, and its scale where the table has *)
(* another.                                                                *)
AccountIsRead ==
    \A a \in Readings :
        /\ a.currency # {}
        /\ a.currency_offset = NotGiven => OffsetFor(RealCurrency[a.id]) = RealOffset[a.id]

(* And what CopyDeliversTheSame rests on: a saved source has the account's *)
(* scale where the table has another, and no platform is called what a     *)
(* placement is, which Meta would refuse and the plan's model does not.    *)
SourceScaleIsKnown ==
    OffsetIsSaved \/ \A a \in DOMAIN RealCurrency : OffsetFor(RealCurrency[a]) = RealOffset[a]

NoPlatformIsAPlacement ==
    \A p \in Drafts : \A s \in AdSets(p) : s.placements.platforms \cap Placements = {}

VARIABLES
    brand,       \* brand.yaml
    plan,        \* plan.yaml
    account,     \* the account context that was saved, a set of at most one
    report,      \* the codes of the last report
    stage,       \* how far the plan has come
    campaign,    \* what is on Meta, in the fields of a source of Duplicate
    media,       \* the images and videos on Meta
    ready,       \* the videos Meta has transcoded
    source,      \* the campaign this plan was duplicated from
    shown        \* the change of budget the last approval was about

vars == <<brand, plan, account, report, stage, campaign, media, ready, source, shown>>
meta == <<campaign, media, ready>>

Codes == ErrorCodes \cup NoteCodes
         \cup {"plan.unreadable", "duplicate.no_currency", "duplicate.refused"}

Stages == {"planned", "validated", "campaign_created", "ad_sets_created",
           "assets_uploaded", "ads_created", "stopped"}

(* Dates, ids and names that the model needs no more of.                   *)
NoCampaign == [account |-> "none", objective |-> "none", special_ad_categories |-> {},
               daily |-> 0, lifetime |-> 0, spend_cap |-> 0]

NotBuilt == [account |-> "none", campaign |-> NoCampaign, ad_sets |-> <<>>]

Remote(asset) ==
    IF asset.sources = {"local_path"} THEN FileContent[asset.key] ELSE asset.key

AllFiles(p) == UNION {UNION {LocalFiles(ad.creative) : ad \in ToSet(s.ads)} : s \in AdSets(p)}

AllRefs(p) == UNION {UNION {AssetRefs(ad.creative) : ad \in ToSet(s.ads)} : s \in AdSets(p)}

(* A file is an image or a video on Meta as its header says, and an id in  *)
(* a plan is one of the kind that its field names.                         *)
ASSUME KindsAssumption ==
    /\ \A f \in DOMAIN FileContent :
           /\ FileContent[f] \in STRING
           /\ (FileKind[f] = "video") = (FileContent[f] \in VideoMedia)
    /\ \A p \in Drafts : \A a \in AllRefs(p) :
           IF a.sources = {"local_path"} THEN a.key \in DOMAIN FileContent
           ELSE a.video = (a.key \in VideoMedia)

-----------------------------------------------------------------------------
(* The plan and its report.                                                *)

(* The schedule is what a copy lacks.                                      *)
SetEnd ==
    /\ stage = "planned" /\ source # NotBuilt
    /\ plan' = [plan EXCEPT !.ad_sets =
                   [i \in DOMAIN @ |-> [@[i] EXCEPT !.schedule.end = {[at |-> 2, utc |-> TRUE]}]]]
    /\ plan' # plan
    /\ UNCHANGED <<brand, account, report, stage, meta, source, shown>>

ReadAccount(a) ==
    /\ stage = "planned" /\ account = {}
    /\ account' = {a}
    /\ UNCHANGED <<brand, plan, report, stage, meta, source, shown>>

(* run_validate_plan: a plan that does not load is exit 2, an error exit 1.*)
ValidatePlan ==
    /\ stage = "planned"
    /\ LET findings == IF Accepted(plan) THEN Findings(plan, account, brand)
                       ELSE {"plan.unreadable"}
       IN  /\ report' = findings
           /\ stage' = IF Accepted(plan) /\ Ok(findings) THEN "validated" ELSE stage
    /\ UNCHANGED <<brand, plan, account, meta, source, shown>>

-----------------------------------------------------------------------------
(* Building, as the agent does it from the report: amounts are the minor   *)
(* units that validate-plan resolved, and everything is PAUSED.            *)

MinorOf(budgets, type) ==
    IF \E b \in budgets : b.type = type
    THEN LET b == CHOOSE b \in budgets : TRUE IN Resolved(b.amount, b.currency, account)
    ELSE 0

CreateCampaign ==
    /\ stage = "validated" /\ account # {}
    /\ campaign' =
         [account |-> plan.ad_account_id,
          campaign |->
             [account |-> plan.ad_account_id, objective |-> plan.objective,
              special_ad_categories |-> plan.special_ad_categories,
              daily |-> MinorOf(plan.budget, "daily"),
              lifetime |-> MinorOf(plan.budget, "lifetime"),
              spend_cap |-> IF plan.spend_cap = {} THEN 0
                            ELSE LET cap == CHOOSE c \in plan.spend_cap : TRUE
                                 IN  Resolved(cap.amount, cap.currency, account)],
          ad_sets |-> <<>>]
    /\ stage' = "campaign_created"
    /\ UNCHANGED <<brand, plan, account, report, media, ready, source, shown>>

(* Positions are sent with their platforms; platforms alone mean all.  What *)
(* `raw' says of placements gives way to the plan's own.                   *)
MetaTargeting(s) ==
    LET p == s.placements
        bare == p.positions \ Placements
    IN  [countries |-> s.targeting.countries,
         age_min |-> s.targeting.age_min, age_max |-> s.targeting.age_max,
         audiences |-> s.targeting.audiences, excluded |-> s.targeting.excluded,
         advantage_audience |-> s.targeting.advantage_audience,
         other |-> s.targeting.raw \ PlacementKeys,
         publisher_platforms |->
             IF p.positions = {} THEN p.platforms
             ELSE bare \cup UNION {PlatformOf(x) : x \in p.positions},
         positions |-> p.positions \cap Placements]

MetaAdSet(s) ==
    [name |-> s.name,
     daily |-> MinorOf(s.budget, "daily"), lifetime |-> MinorOf(s.budget, "lifetime"),
     bid_amount |-> IF s.bid_amount = {} THEN 0
                    ELSE LET bid == CHOOSE b \in s.bid_amount : TRUE
                             c == CHOOSE c \in Currency(plan) : TRUE
                         IN  Resolved(bid, c, account),
     bid_strategy |-> s.bid_strategy, optimization_goal |-> s.optimization_goal,
     targeting |-> MetaTargeting(s),
     promoted_object |-> [pixel_id |-> s.tracking.dataset,
                          custom_event_type |-> s.tracking.conversion_event,
                          custom_conversion_id |-> s.tracking.custom_conversion],
     dsa |-> DsaOf(plan, brand),
     end |-> s.schedule.end \cup plan.schedule.end,
     ads |-> <<>>]

CreateAdSets ==
    /\ stage = "campaign_created"
    /\ campaign' = [campaign EXCEPT !.ad_sets =
                       [i \in DOMAIN plan.ad_sets |-> MetaAdSet(plan.ad_sets[i])]]
    /\ stage' = "ad_sets_created"
    /\ UNCHANGED <<brand, plan, account, report, media, ready, source, shown>>

(* `api upload-image' or `api upload-video', chosen by the file's name;    *)
(* the file's header must agree.  Content that is there is not sent again. *)
UploadAsset(asset) ==
    /\ stage = "ad_sets_created"
    /\ asset.sources = {"local_path"} /\ Remote(asset) \notin media
    /\ LET kind == IF asset.video THEN "video" ELSE "image" IN
       IF ProbeAsset(asset.key, {kind})
       THEN media' = media \cup {Remote(asset)} /\ stage' = stage
       ELSE media' = media /\ stage' = "stopped"
    /\ UNCHANGED <<brand, plan, account, report, campaign, ready, source, shown>>

FinishUploads ==
    /\ stage = "ad_sets_created"
    /\ \A a \in AllRefs(plan) : Remote(a) \in media
    /\ stage' = "assets_uploaded"
    /\ UNCHANGED <<brand, plan, account, report, meta, source, shown>>

(* Meta transcodes the videos on its own time.                             *)
Transcode(x) ==
    /\ x \in (media \cap VideoMedia) \ ready
    /\ ready' = ready \cup {x}
    /\ UNCHANGED <<brand, plan, account, report, stage, campaign, media, source, shown>>

RequestAsset(asset) == [media |-> Remote(asset), placement |-> asset.placement]

(* How the agent asks `api create-creative' for a planned creative, its    *)
(* assets uploaded: a video with one --video-id and no images beside it.   *)
Request(creative) ==
    LET usable == IF creative.mode = "single_video"
                  THEN <<CHOOSE a \in Assets(creative) : a.video>> ELSE creative.assets
    IN  [mode |-> creative.mode, page |-> creative.page,
         instagram_account |-> creative.instagram_account, url |-> creative.url,
         post |-> creative.post, instagram_media |-> creative.instagram_media,
         variants |-> creative.variants,
         assets |-> [i \in DOMAIN usable |-> RequestAsset(usable[i])],
         cards |-> [i \in DOMAIN creative.cards |->
                       [media |-> Remote(creative.cards[i].asset),
                        link |-> creative.cards[i].link, still |-> FALSE]]]

(* The ad set whose next ad has no creative yet.                           *)
IsNext(i) ==
    /\ Len(campaign.ad_sets[i].ads) < Len(plan.ad_sets[i].ads)
    /\ \A j \in 1 .. i - 1 : Len(campaign.ad_sets[j].ads) = Len(plan.ad_sets[j].ads)

NextAd(i) == plan.ad_sets[i].ads[Len(campaign.ad_sets[i].ads) + 1]

AllAdsBuilt ==
    \A i \in DOMAIN plan.ad_sets :
        Len(campaign.ad_sets[i].ads) = Len(plan.ad_sets[i].ads)

(* run_create_creative, and the ad that uses the creative.                 *)
CreateAd(i) ==
    /\ stage = "assets_uploaded" /\ IsNext(i)
    /\ LET r == Request(NextAd(i).creative) IN
       /\ ~Refused(r, VideoMedia)
       /\ ~Waits(r, VideoMedia, ready)
       /\ campaign' = [campaign EXCEPT !.ad_sets[i].ads =
                          Append(@, [name |-> NextAd(i).name, creative |-> Created(r, ready)])]
    /\ UNCHANGED <<brand, plan, account, report, stage, media, ready, source, shown>>

CreateAdRefused(i) ==
    /\ stage = "assets_uploaded" /\ IsNext(i)
    /\ Refused(Request(NextAd(i).creative), VideoMedia)
    /\ stage' = "stopped"
    /\ UNCHANGED <<brand, plan, account, report, meta, source, shown>>

FinishBuild ==
    /\ stage = "assets_uploaded" /\ AllAdsBuilt
    /\ stage' = "ads_created"
    /\ UNCHANGED <<brand, plan, account, report, meta, source, shown>>

-----------------------------------------------------------------------------
(* What happens to a campaign that was built.                              *)

(* Its daily budget is changed: the approval shows describe_change.        *)
ChangeBudget(amount) ==
    LET currency == RealCurrency[plan.ad_account_id]
        offset == AccountOffset(account, currency)
        old == FromMinor(campaign.campaign.daily, currency, offset)
        new == FromDisplay(amount, currency, offset)
    IN  /\ stage = "ads_created" /\ shown = {}
        /\ campaign.campaign.daily # 0
        /\ CanResolve(amount, currency, account) /\ SameKind(old, new)
        /\ shown' = {DescribeChange(old, new)}
        /\ campaign' = [campaign EXCEPT !.campaign.daily = new.minor]
        /\ UNCHANGED <<brand, plan, account, report, stage, media, ready, source>>

(* The agent saves what it reads: with the account's currency, or not.     *)
SavedSource(built, saved) ==
    [account |-> built.account,
     currency |-> IF saved THEN {RealCurrency[built.account]} ELSE {},
     currency_offset |-> IF OffsetIsSaved THEN RealOffset[built.account] ELSE NotGiven,
     campaign |-> built.campaign, ad_sets |-> built.ad_sets]

(* run_duplicate_plan: a new plan, to be validated and built like another. *)
DuplicateCampaign(saved, currency) ==
    /\ stage = "ads_created" /\ source = NotBuilt
    /\ IF DuplicateRefused(SavedSource(campaign, saved), currency, "copy", VideoMedia)
       THEN /\ report' = {IF Code(SavedSource(campaign, saved), currency) = {}
                          THEN "duplicate.no_currency" ELSE "duplicate.refused"}
            /\ UNCHANGED <<plan, account, stage, campaign, source, shown>>
       ELSE /\ plan' = CopiedPlan(SavedSource(campaign, saved), currency, "copy", VideoMedia)
            /\ source' = campaign /\ campaign' = NotBuilt
            /\ stage' = "planned"
            /\ account' = {} /\ report' = {} /\ shown' = {}
    /\ UNCHANGED <<brand, media, ready>>

-----------------------------------------------------------------------------
(* Media with an id of its own are on Meta from the start.                 *)
KnownMedia(p) == {a.key : a \in {b \in AllRefs(p) : b.sources # {"local_path"}}}

Init ==
    /\ brand \in Brands
    /\ plan \in Drafts
    /\ account = {} /\ report = {} /\ stage = "planned"
    /\ campaign = NotBuilt /\ source = NotBuilt /\ shown = {}
    /\ media = UNION {KnownMedia(p) : p \in Drafts}
    /\ ready = media \cap VideoMedia

Build ==
    \/ CreateCampaign \/ CreateAdSets \/ FinishUploads \/ FinishBuild
    \/ \E a \in AllRefs(plan) : UploadAsset(a)
    \/ \E i \in DOMAIN plan.ad_sets : CreateAd(i) \/ CreateAdRefused(i)

MetaWorks == \E x \in VideoMedia : Transcode(x)

Next ==
    \/ \E a \in Readings : ReadAccount(a)
    \/ SetEnd \/ ValidatePlan
    \/ Build \/ MetaWorks
    \/ \E amount \in NewBudgets : ChangeBudget(amount)
    \/ \E saved \in BOOLEAN, currency \in {{}, {"PLN"}} :
           DuplicateCampaign(saved, currency)

Spec == Init /\ [][Next]_vars

(* The agent goes on with a validated plan, and Meta with its videos.      *)
FairSpec == Spec /\ WF_vars(Build) /\ WF_vars(MetaWorks)

-----------------------------------------------------------------------------
(* What a finished, unchanged campaign is compared with.                   *)
Built == stage = "ads_created" /\ shown = {}

BudgetFields(obj) == {<<type, obj[type]>> : type \in {t \in {"daily", "lifetime"} : obj[t] # 0}}

(* A budget as the account will be charged for it.                         *)
ChargedAs(b, a) ==
    <<b.type, (b.amount * RealOffset[a]) \div FINEST>>

(* Every variable keeps its type.                                          *)
TypeOK ==
    /\ stage \in Stages
    /\ report \subseteq Codes
    /\ plan \in PlanType /\ brand \in Optional(BrandType)
    /\ account \in Optional(Readings)
    /\ campaign \in MetaCampaignType /\ source \in MetaCampaignType
    /\ media \subseteq STRING /\ ready \subseteq media \cap VideoMedia
    /\ Len(campaign.ad_sets) \in {0, Len(plan.ad_sets)}
    /\ shown \in Optional(ChangeType)

(* models/plan.py:99 "a budget number without a currency is how a PLN plan *)
(* becomes a USD charge": what a built campaign is charged is the amount   *)
(* of the plan, to the unit, in the account's own currency and scale, for  *)
(* every budget on every level.                                            *)
ChargedIsPlanned ==
    Built =>
        LET a == campaign.account IN
        /\ a = plan.ad_account_id
        /\ Currency(plan) = {RealCurrency[a]}
        /\ BudgetFields(campaign.campaign) = {ChargedAs(b, a) : b \in plan.budget}
        /\ \A i \in DOMAIN plan.ad_sets :
               BudgetFields(campaign.ad_sets[i]) = {ChargedAs(b, a) : b \in plan.ad_sets[i].budget}

(* A lifetime budget on Meta always has a day by which it is spent.        *)
LifetimeBudgetsEnd ==
    campaign.ad_sets # <<>> =>
        \A s \in ToSet(campaign.ad_sets) :
            s.lifetime # 0 \/ campaign.campaign.lifetime # 0 => s.end # {}

(* One level pays: no ad set on Meta has a budget of its own under a       *)
(* campaign that has one, and none is left without.                        *)
OneLevelPays ==
    \A s \in ToSet(campaign.ad_sets) :
        (BudgetFields(s) = {}) = (BudgetFields(campaign.campaign) # {})

(* Nothing is built for the EU that does not name who pays and who         *)
(* benefits, also when it is a copy.                                       *)
EuNamesWhoPays ==
    \A s \in ToSet(campaign.ad_sets) :
        TargetedCountries(plan) \cap EU_EEA_COUNTRIES # {} => DsaFields \subseteq s.dsa

(* The four together: nothing on Meta spends, or reaches the EU, other     *)
(* than the plan that was approved says (validation/plan_validator.py:8).  *)
BuiltAsPlanned == ChargedIsPlanned /\ LifetimeBudgetsEnd /\ OneLevelPays /\ EuNamesWhoPays

(* Where an ad set on Meta delivers.                                       *)
Delivers(targeting) ==
    {p \in Placements :
        \/ targeting.publisher_platforms = {}
        \/ p \in targeting.positions
        \/ /\ PlatformOf(p) \subseteq targeting.publisher_platforms
           /\ \A q \in targeting.positions : PlatformOf(q) # PlatformOf(p)}

PinnedTo(creative, placement) ==
    {Remote(a) : a \in {b \in Assets(creative) : b.placement = {placement}}}

Unpinned(creative) == {Remote(a) : a \in {b \in Assets(creative) : b.placement = {}}}

(* What of an ad set decides whom it reaches, for how much and with what.  *)
Delivery(s) ==
    [daily |-> s.daily, lifetime |-> s.lifetime, bid |-> s.bid_amount,
     strategy |-> s.bid_strategy, goal |-> s.optimization_goal,
     countries |-> s.targeting.countries, where |-> Delivers(s.targeting),
     ages |-> <<s.targeting.age_min, s.targeting.age_max>>,
     audiences |-> <<s.targeting.audiences, s.targeting.excluded>>,
     advantage |-> s.targeting.advantage_audience, other |-> s.targeting.other,
     promoted |-> s.promoted_object,
     shows |-> [j \in DOMAIN s.ads |->
                   <<s.ads[j].creative.media, s.ads[j].creative.cards, s.ads[j].creative.url,
                     s.ads[j].creative.page, s.ads[j].creative.shape>>]]

(* duplicate.py:6 "the same again": a copy that is built spends what the   *)
(* source spends, reaches whom it reaches and shows what it shows.         *)
CopyDeliversTheSame ==
    Built /\ source # NotBuilt =>
        /\ BudgetFields(campaign.campaign) = BudgetFields(source.campaign)
        /\ [i \in DOMAIN campaign.ad_sets |-> Delivery(campaign.ad_sets[i])]
             = [i \in DOMAIN source.ad_sets |-> Delivery(source.ad_sets[i])]

(* What an approval shows of a change, and what becomes of the account.    *)
ChargesAsShown(change) ==
    LET unit == SmallestUnit(RealOffset[campaign.account])
        from == campaign.campaign.daily * unit
        to == campaign'.campaign.daily * unit
    IN  /\ change.currency = RealCurrency[campaign.account]
        /\ change.from = from /\ change.to = to /\ change.delta = to - from
        /\ (change.direction = "increase") = (to > from)
        /\ \A pct \in change.pct : 2 * (pct * from - 1000 * (to - from)) \in -from .. from

(* money.py:342 "Summary of a budget change, for an approval prompt": the  *)
(* change that is shown is the change of what the account is charged, and  *)
(* its percentage is right to the tenth.                                   *)
ShownChangeIsReal == [][\A change \in shown' \ shown : ChargesAsShown(change)]_vars

-----------------------------------------------------------------------------
(* What stops a plan that validated.                                       *)

(* A file whose name says image and whose header says video, or the other  *)
(* way round: the check of a plan asks for either.                         *)
Misnamed(p) ==
    \E a \in AllRefs(p) :
        a.sources = {"local_path"} /\ (FileKind[a.key] = "video") # a.video

(* Two files of one content, planned for different placements, are one     *)
(* hash with one pin.                                                      *)
Twins(creative) ==
    \E a, b \in Assets(creative) : Remote(a) = Remote(b) /\ a.placement # b.placement

PlannedCreatives(p) == UNION {{ad.creative : ad \in ToSet(s.ads)} : s \in AdSets(p)}

SeveralVideos(creative) ==
    creative.mode = "multi_variant" /\ Cardinality({Remote(a) : a \in Assets(creative)} \cap VideoMedia) > 1

(* validation/plan_validator.py:8 "Everything that could make a write fail *)
(* halfway is checked here": with three exceptions, a plan that validated  *)
(* is never refused once its campaign exists.                              *)
StopsAreKnown ==
    stage = "stopped" =>
        Misnamed(plan) \/ \E c \in PlannedCreatives(plan) : Twins(c) \/ SeveralVideos(c)

(* The same without the exceptions.                                        *)
ValidatedIsNotStopped == stage # "stopped"

(* A build that begins ends: no ad waits for ever.                         *)
BuildsEnd == stage = "campaign_created" ~> stage \in {"ads_created", "stopped"}

(* models/plan.py:338 "Serve this asset only in one placement": wherever   *)
(* its ad set delivers, a multi-variant creative shows the assets pinned   *)
(* to that placement, and the unpinned ones where none is; and a placement *)
(* an asset is pinned to is one the ad set delivers to.  Files of the same *)
(* content that are planned apart are Twins.                               *)
ServesAsPlanned ==
    \A i \in DOMAIN campaign.ad_sets : \A j \in DOMAIN campaign.ad_sets[i].ads :
        LET wanted == plan.ad_sets[i].ads[j].creative
            made == campaign.ad_sets[i].ads[j].creative
            where == Delivers(campaign.ad_sets[i].targeting)
        IN  wanted.mode = "multi_variant" /\ ~Twins(wanted) =>
                /\ UNION {a.placement : a \in Assets(wanted)} \subseteq where
                /\ \A p \in where :
                       Serves(made, p) = IF PinnedTo(wanted, p) = {} THEN Unpinned(wanted)
                                         ELSE PinnedTo(wanted, p)

(* duplicate-input.md: "`object_story_id`, `source_instagram_media_id` ->  *)
(* an existing-post ad": a campaign of existing posts can be duplicated.   *)
PostsAreDuplicated ==
    report = {"duplicate.refused"} =>
        \E s \in ToSet(campaign.ad_sets) : \E ad \in ToSet(s.ads) :
            ad.creative.shape \notin {"post", "instagram_post"}

(* models/plan.py:261 "Whether a named placement is in this plan": the     *)
(* plan knows where its ad sets deliver.                                   *)
TargetsIsWhereItDelivers ==
    \A i \in DOMAIN campaign.ad_sets :
        Delivers(campaign.ad_sets[i].targeting)
            = {p \in Placements : Targets(plan.ad_sets[i].placements, p)}
=============================================================================
