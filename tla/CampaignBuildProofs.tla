------------------------ MODULE CampaignBuildProofs ------------------------
(***************************************************************************)
(* Proofs about CampaignBuild: what is built is what was planned, for any  *)
(* plans, accounts and brands of their types.                              *)
(***************************************************************************)
EXTENDS CampaignBuild, TLAPS, SequenceTheorems, FiniteSetTheorems,
        WellFoundedInduction

-----------------------------------------------------------------------------
(* Amounts: what holds of every amount and every offset.                   *)

(* A whole number of units, times or over the unit.                        *)
LEMMA UnitsCancel ==
    ASSUME NEW u \in {10000, 1000, 100, 10, 1}, NEW n \in Int
    PROVE  /\ (n * u) % u = 0 /\ (n * u) \div u = n
           /\ n % u = 0 => (n \div u) * u = n
  OBVIOUS

LEMMA UnitIsPower ==
    ASSUME NEW offset \in Offsets
    PROVE  SmallestUnit(offset) \in {10000, 1000, 100, 10, 1}
  BY DEF Offsets, SmallestUnit, FINEST

(* What a person wrote is what the prompt shows, whatever the currency and *)
(* whether or not the account has an offset of its own: an amount that is  *)
(* accepted loses nothing on its way to Meta and back (money.py, display). *)
THEOREM AcceptedAmountIsShown ==
    ASSUME NEW amount \in Int, NEW currency, NEW offset,
           Representable(amount, currency, offset)
    PROVE  Display(FromDisplay(amount, currency, offset)) = amount
  <1> DEFINE u == SmallestUnit(Scale(currency, offset))
  <1>1. Scale(currency, offset) \in Offsets /\ amount % u = 0
    BY DEF Representable, HasScale
  <1>2. u \in {10000, 1000, 100, 10, 1}
    BY <1>1, UnitIsPower
  <1>3. Display(FromDisplay(amount, currency, offset)) = (amount \div u) * u
    BY DEF Display, FromDisplay, FromMinor
  <1>4. (amount \div u) * u = amount
    <2> HIDE DEF u
    <2>1. QED BY <1>1, <1>2, UnitsCancel
  <1>5. QED
    BY <1>3, <1>4

(* What Meta charges can be written down: every minor amount is shown as   *)
(* an amount that is accepted and that is sent as the same minor amount.   *)
THEOREM ChargeCanBeWritten ==
    ASSUME NEW minor \in Int, NEW currency, NEW offset, HasScale(currency, offset)
    PROVE  LET seen == Display(FromMinor(minor, currency, offset)) IN
           /\ Representable(seen, currency, offset)
           /\ FromDisplay(seen, currency, offset) = FromMinor(minor, currency, offset)
  <1> DEFINE u == SmallestUnit(Scale(currency, offset))
             seen == Display(FromMinor(minor, currency, offset))
  <1>1. u \in {10000, 1000, 100, 10, 1}
    BY UnitIsPower DEF HasScale
  <1>2. seen = minor * u
    BY DEF Display, FromMinor
  <1>3. seen % u = 0 /\ seen \div u = minor
    <2> HIDE DEF u
    <2>1. (minor * u) % u = 0 /\ (minor * u) \div u = minor
      BY <1>1, UnitsCancel
    <2>2. QED
      BY <1>2, <2>1
  <1>4. QED
    BY <1>3 DEF Representable, FromDisplay

(* The prompt's direction is that of what will be charged: an increase is  *)
(* called one exactly when the account pays more, and the delta shown is   *)
(* the difference of the amounts shown (money.py, describe_change).        *)
THEOREM IncreaseIsCalledOne ==
    ASSUME NEW old \in Money, NEW new \in Money, SameKind(old, new)
    PROVE  LET seen == DescribeChange(old, new) IN
           /\ seen.direction = "increase" <=> seen.to > seen.from
           /\ seen.direction = "decrease" <=> seen.to < seen.from
           /\ seen.from + seen.delta = seen.to
  <1> DEFINE u == SmallestUnit(old.offset)
  <1>1. u \in {10000, 1000, 100, 10, 1} /\ SmallestUnit(new.offset) = u
    BY UnitIsPower DEF SameKind, Money
  <1>2. old.minor \in Int /\ new.minor \in Int
    BY DEF Money
  <1>3. Display(old) = old.minor * u /\ Display(new) = new.minor * u
    BY <1>1 DEF Display
  <1>4. /\ Display(new) > Display(old) <=> new.minor > old.minor
        /\ Display(new) < Display(old) <=> new.minor < old.minor
        /\ Display(old) \in Int /\ Display(new) \in Int
    <2> HIDE DEF u
    <2>1. QED BY <1>1, <1>2, <1>3
  <1>5. /\ Direction(old, new) = "increase" <=> new.minor > old.minor
        /\ Direction(old, new) = "decrease" <=> new.minor < old.minor
    BY <1>2 DEF Direction
  <1>6. QED
    BY <1>4, <1>5 DEF DescribeChange

-----------------------------------------------------------------------------
(* The inductive invariant.                                                *)

Started == {"campaign_created", "ad_sets_created", "assets_uploaded", "ads_created", "stopped"}

(* Nothing is on Meta before it is made, and no change of it was shown.    *)
NotAheadOfStage ==
    /\ stage \notin Started => campaign = NotBuilt
    /\ stage = "campaign_created" => campaign.ad_sets = <<>>
    /\ shown # {} => stage = "ads_created"

(* A plan that is past planning is the plan that validated: the account    *)
(* and the brand it was validated with are still those that are read.      *)
StillValid ==
    stage # "planned" => Accepted(plan) /\ Ok(Findings(plan, account, brand))

CampaignIsPlanned ==
    stage \in Started =>
        /\ account # {}
        /\ campaign.account = plan.ad_account_id
        /\ campaign.campaign.lifetime = MinorOf(plan.budget, "lifetime")
        /\ campaign.campaign.daily >= 0
        /\ campaign.campaign.daily = 0 <=> MinorOf(plan.budget, "daily") = 0
        /\ shown = {} => campaign.campaign.daily = MinorOf(plan.budget, "daily")

(* Each ad set is what the plan makes of it, but for its ads, of which the *)
(* first ones are there.                                                   *)
AdSetsArePlanned ==
    stage \in Started \ {"campaign_created"} =>
        /\ Len(campaign.ad_sets) = Len(plan.ad_sets)
        /\ \A i \in DOMAIN plan.ad_sets :
              /\ [campaign.ad_sets[i] EXCEPT !.ads = <<>>] = MetaAdSet(plan.ad_sets[i])
              /\ Len(campaign.ad_sets[i].ads) <= Len(plan.ad_sets[i].ads)

(* The ads that are there are what was asked for, with the stills that     *)
(* there were.                                                             *)
AdsArePlanned ==
    \A i \in DOMAIN campaign.ad_sets : \A j \in DOMAIN campaign.ad_sets[i].ads :
        LET r == Request(plan.ad_sets[i].ads[j].creative) IN
        /\ ~Refused(r, VideoMedia)
        /\ \E videos \in SUBSET VideoMedia :
               campaign.ad_sets[i].ads[j].creative = Created(r, videos)

(* An id in the plan is of the kind it is used as.                         *)
KindsAreKept ==
    \A a \in AllRefs(plan) :
        IF a.sources = {"local_path"} THEN a.key \in DOMAIN FileContent
        ELSE a.video = (a.key \in VideoMedia)

IInv ==
    /\ TypeOK
    /\ NotAheadOfStage
    /\ StillValid
    /\ CampaignIsPlanned
    /\ AdSetsArePlanned
    /\ AdsArePlanned
    /\ KindsAreKept
    /\ StopsAreKnown

-----------------------------------------------------------------------------
(* What no error in the report says of a plan.                             *)

LEMMA NoErrorInAPart ==
    ASSUME NEW findings, NEW part, part \subseteq findings, Ok(findings)
    PROVE  \A code \in ErrorCodes : code \notin part
  BY DEF Ok

LEMMA WhenSays ==
    ASSUME NEW condition \in BOOLEAN, NEW code, code \notin When(condition, code)
    PROVE  ~condition
  BY DEF When

(* A budget without a finding is a number of the account's units.          *)
BudgetIsSound(b, a) ==
    CanResolve(b.amount, b.currency, a) /\ Resolved(b.amount, b.currency, a) > 0

LEMMA ResolvedIsWhole ==
    ASSUME NEW amount \in Int, NEW currency, NEW a, CanResolve(amount, currency, a)
    PROVE  /\ Resolved(amount, currency, a) \in Int
           /\ Scale(currency, AccountOffset(a, currency)) \in Offsets
  <1> DEFINE scale == Scale(currency, AccountOffset(a, currency))
  <1>1. scale \in Offsets
    BY DEF CanResolve, Representable, HasScale
  <1>2. SmallestUnit(scale) \in {10000, 1000, 100, 10, 1}
    BY <1>1, UnitIsPower
  <1>3. Resolved(amount, currency, a) = amount \div SmallestUnit(scale)
    BY DEF Resolved, FromDisplay, FromMinor
  <1>4. amount \div SmallestUnit(scale) \in Int
    <2> HIDE DEF scale
    <2>1. QED BY <1>2
  <1>5. QED
    BY <1>1, <1>3, <1>4

LEMMA SoundBudget ==
    ASSUME NEW b \in BudgetType, NEW a,
           \A code \in ErrorCodes : code \notin CheckBudget(b, a)
    PROVE  BudgetIsSound(b, a)
  <1>1. {"budget.not_representable", "budget.zero"} \subseteq ErrorCodes
    BY DEF ErrorCodes
  <1>2. CanResolve(b.amount, b.currency, a)
    BY <1>1 DEF CheckBudget
  <1>3. ~(Resolved(b.amount, b.currency, a) <= 0)
    BY <1>1, <1>2 DEF CheckBudget
  <1>4. Resolved(b.amount, b.currency, a) \in Int
    BY <1>2, ResolvedIsWhole DEF BudgetType
  <1>5. QED
    BY <1>2, <1>3, <1>4 DEF BudgetIsSound

(* The parts of the report that the proofs below read.                     *)
LEMMA PartsOfTheReport ==
    ASSUME NEW p, NEW a, NEW br
    PROVE  /\ CheckAccount(p, a) \subseteq Findings(p, a, br)
           /\ CheckCurrency(p, a) \subseteq Findings(p, a, br)
           /\ CheckCampaignSchedule(p) \subseteq Findings(p, a, br)
           /\ CheckDsa(p, br) \subseteq Findings(p, a, br)
           /\ \A b \in p.budget : CheckBudget(b, a) \subseteq Findings(p, a, br)
           /\ \A cap \in p.spend_cap : CheckSpendCap(cap, a) \subseteq Findings(p, a, br)
           /\ \A s \in AdSets(p) : CheckAdSet(s, p, a) \subseteq Findings(p, a, br)
  <1> DEFINE B == UNION {CheckBudget(b, a) : b \in p.budget}
             C == UNION {CheckSpendCap(cap, a) : cap \in p.spend_cap}
             S == UNION {CheckAdSet(s, p, a) : s \in AdSets(p)}
  <1>1. Findings(p, a, br) =
            CheckAccount(p, a) \cup CheckCurrency(p, a) \cup CheckObjective(p, a)
            \cup B \cup C \cup CheckCampaignSchedule(p) \cup CheckSpecialCategories(p, br)
            \cup CheckDsa(p, br) \cup CheckNamesUnique(p) \cup CheckNamesRendered(p) \cup S
    BY Zenon DEF Findings
  <1>2. /\ \A b \in p.budget : CheckBudget(b, a) \subseteq B
        /\ \A cap \in p.spend_cap : CheckSpendCap(cap, a) \subseteq C
        /\ \A s \in AdSets(p) : CheckAdSet(s, p, a) \subseteq S
    OBVIOUS
  <1> HIDE DEF B, C, S
  <1>3. QED
    BY <1>1, <1>2

LEMMA PartsOfAnAdSet ==
    ASSUME NEW p, NEW a, NEW s
    PROVE  /\ \A b \in s.budget : CheckBudget(b, a) \subseteq CheckAdSet(s, p, a)
           /\ CheckSchedule(s) \subseteq CheckAdSet(s, p, a)
           /\ CheckBid(s, p, a) \subseteq CheckAdSet(s, p, a)
           /\ CheckPinnedPlacements(s) \subseteq CheckAdSet(s, p, a)
           /\ \A ad \in ToSet(s.ads) :
                  /\ CheckCreative(ad.creative, a) \subseteq CheckAdSet(s, p, a)
                  /\ CheckLocalAssets(ad.creative) \subseteq CheckAdSet(s, p, a)
  <1> DEFINE B == UNION {CheckBudget(b, a) : b \in s.budget}
             A == UNION {CheckCreative(ad.creative, a) \cup CheckLocalAssets(ad.creative)
                         : ad \in ToSet(s.ads)}
  <1>1. CheckAdSet(s, p, a) =
            B \cup CheckGoal(s, a) \cup CheckTracking(s, a) \cup CheckSchedule(s)
            \cup CheckBid(s, p, a) \cup CheckAudiences(s, a) \cup CheckUtmApplied(s)
            \cup CheckPinnedPlacements(s) \cup A
    BY Zenon DEF CheckAdSet
  <1>2. \A b \in s.budget : CheckBudget(b, a) \subseteq B
    OBVIOUS
  <1>3. ASSUME NEW ad \in ToSet(s.ads)
        PROVE  CheckCreative(ad.creative, a) \subseteq A /\ CheckLocalAssets(ad.creative) \subseteq A
    OBVIOUS
  <1> HIDE DEF A, B
  <1>4. QED
    BY <1>1, <1>2, <1>3

(* What a plan that validated satisfies, of what an account is charged.    *)
PlanIsSound(p, a) ==
    /\ \A b \in Budgets(p) : BudgetIsSound(b, a)
    /\ \A cap \in p.spend_cap : CanResolve(cap.amount, cap.currency, a)
    /\ \A s \in AdSets(p), c \in Currency(p) : \A bid \in s.bid_amount : CanResolve(bid, c, a)
    /\ \A x \in a : x.id = p.ad_account_id
    /\ \A c \in Currency(p) : Known(c) /\ \A x \in a : x.currency # {} => c \in x.currency

LEMMA ValidatedIsSound ==
    ASSUME NEW p \in PlanType, NEW a \in Optional(AccountType), NEW br,
           Ok(Findings(p, a, br))
    PROVE  PlanIsSound(p, a)
  <1> DEFINE F == Findings(p, a, br)
  <1> USE NoErrorInAPart, PartsOfTheReport
  <1>0. {"budget.not_representable", "bid.not_representable", "account.mismatch",
         "currency.unknown_scale", "currency.mismatch"} \subseteq ErrorCodes
    BY DEF ErrorCodes
  <1>1. ASSUME NEW s \in AdSets(p)
        PROVE  \A part : part \subseteq CheckAdSet(s, p, a) => \A code \in ErrorCodes : code \notin part
    BY DEF Ok
  <1>2. \A s \in AdSets(p) : s \in AdSetType
    BY DEF PlanType, AdSets, ToSet
  <1>3. ASSUME NEW b \in Budgets(p) PROVE BudgetIsSound(b, a)
    <2>1. b \in BudgetType
      BY <1>2 DEF Budgets, PlanType, AdSetType, Optional
    <2>2. \A code \in ErrorCodes : code \notin CheckBudget(b, a)
      <3>1. CASE b \in p.budget
        BY <3>1
      <3>2. CASE \E s \in AdSets(p) : b \in s.budget
        BY <3>2, <1>1, PartsOfAnAdSet
      <3>3. QED BY <3>1, <3>2 DEF Budgets
    <2>3. QED BY <2>1, <2>2, SoundBudget
  <1>4. ASSUME NEW cap \in p.spend_cap PROVE CanResolve(cap.amount, cap.currency, a)
    <2>1. "budget.not_representable" \notin CheckSpendCap(cap, a)
      BY <1>0
    <2>2. QED BY <2>1 DEF CheckSpendCap
  <1>5. ASSUME NEW s \in AdSets(p), NEW c \in Currency(p), NEW bid \in s.bid_amount
        PROVE  CanResolve(bid, c, a)
    <2>1. "bid.not_representable" \notin CheckBid(s, p, a)
      BY <1>0, <1>1, PartsOfAnAdSet
    <2>2. ~CanResolve(bid, c, a) => "bid.not_representable" \in CheckBid(s, p, a)
      <3> DEFINE Of(x, y) == IF ~CanResolve(x, y, a) THEN {"bid.not_representable"}
                             ELSE When(Resolved(x, y, a) <= 0, "bid.zero")
      <3>1. UNION {Of(x, y) : x \in s.bid_amount, y \in Currency(p)} \subseteq CheckBid(s, p, a)
        BY DEF CheckBid
      <3>2. Of(bid, c) \subseteq CheckBid(s, p, a)
        <4> HIDE DEF Of
        <4>1. QED BY <3>1
      <3>3. QED BY <3>2
    <2>3. QED BY <2>1, <2>2
  <1>6. ASSUME NEW x \in a PROVE x.id = p.ad_account_id
    <2>1. "account.mismatch" \notin CheckAccount(p, a)
      BY <1>0
    <2>2. QED BY <2>1 DEF CheckAccount, When
  <1>7. ASSUME NEW c \in Currency(p)
        PROVE  Known(c) /\ \A x \in a : x.currency # {} => c \in x.currency
    <2>1. {"currency.unknown_scale", "currency.mismatch"} \cap CheckCurrencyOf(c, a) = {}
      BY <1>0 DEF CheckCurrency
    <2>2. Known(c)
      BY <2>1 DEF CheckCurrencyOf
    <2>3. ASSUME NEW x \in a, x.currency # {} PROVE c \in x.currency
      BY <2>1, <2>2, <2>3 DEF CheckCurrencyOf, When
    <2>4. QED BY <2>2, <2>3
  <1>8. QED
    BY <1>3, <1>4, <1>5, <1>6, <1>7 DEF PlanIsSound

-----------------------------------------------------------------------------
(* Types of what is built.                                                 *)

LEMMA MembersOfSequence ==
    ASSUME NEW S, NEW s \in Seq(S)
    PROVE  /\ DOMAIN s = 1 .. Len(s) /\ Len(s) \in Nat
           /\ \A i \in DOMAIN s : s[i] \in S
           /\ ToSet(s) \subseteq S
           /\ s # <<>> => 1 \in DOMAIN s /\ Head(s) = s[1] /\ Head(s) \in S
  BY DEF ToSet

LEMMA FunctionIsSequence ==
    ASSUME NEW n \in Nat, NEW S, NEW f \in [1 .. n -> S]
    PROVE  f \in Seq(S) /\ Len(f) = n
  <1>1. f \in Seq(S)
    BY SeqDef
  <1>2. 1 .. Len(f) = 1 .. n /\ Len(f) \in Nat
    BY <1>1, MembersOfSequence
  <1>3. QED
    BY <1>1, <1>2

(* What a budget comes to, in the account's units.                         *)
LEMMA MinorOfBudget ==
    ASSUME NEW budgets \in Optional(BudgetType), NEW type,
           \A b \in budgets : BudgetIsSound(b, account)
    PROVE  /\ MinorOf(budgets, type) \in Nat
           /\ MinorOf(budgets, type) # 0 <=> \E b \in budgets : b.type = type
           /\ \A b \in budgets : b.type = type =>
                  MinorOf(budgets, type) = Resolved(b.amount, b.currency, account)
  <1>1. \A b \in budgets : /\ Resolved(b.amount, b.currency, account) \in Int
                           /\ Resolved(b.amount, b.currency, account) > 0
    BY ResolvedIsWhole DEF BudgetIsSound, Optional, BudgetType
  <1>2. ASSUME NEW b \in budgets, b.type = type
        PROVE  MinorOf(budgets, type) = Resolved(b.amount, b.currency, account)
    <2>1. (CHOOSE x \in budgets : TRUE) = b
      BY DEF Optional
    <2>2. QED BY <2>1, <1>2 DEF MinorOf
  <1>3. QED
    BY <1>1, <1>2 DEF MinorOf

LEMMA BudgetsOfPlan ==
    ASSUME NEW p \in PlanType, NEW a, PlanIsSound(p, a)
    PROVE  /\ p.budget \in Optional(BudgetType)
           /\ \A b \in p.budget : BudgetIsSound(b, a)
           /\ \A s \in AdSets(p) : /\ s \in AdSetType
                                   /\ s.budget \in Optional(BudgetType)
                                   /\ \A b \in s.budget : BudgetIsSound(b, a)
  <1>1. \A s \in AdSets(p) : s \in AdSetType
    BY DEF PlanType, AdSets, ToSet
  <1>2. QED
    BY <1>1 DEF PlanType, AdSetType, PlanIsSound, Budgets

LEMMA SomebodyPays ==
    ASSUME NEW p \in PlanType, Accepted(p)
    PROVE  Currency(p) # {}
  <1>1. PICK s \in AdSets(p) : TRUE
    <2>1. p.ad_sets # <<>> /\ p.ad_sets \in Seq(AdSetType)
      BY DEF Accepted, PlanType
    <2>2. 1 \in DOMAIN p.ad_sets
      BY <2>1, MembersOfSequence
    <2>3. QED
      BY <2>2 DEF AdSets, ToSet
  <1>2. (s.budget = {}) = (p.budget # {})
    BY DEF Accepted, OneBudgetLevel
  <1>3. Budgets(p) # {}
    BY <1>2 DEF Budgets
  <1>4. QED
    BY <1>3 DEF Currency

LEMMA PlacementsListed ==
    /\ Placements = {"facebook_feed", "facebook_stories", "facebook_reels",
                     "instagram_feed", "instagram_stories", "instagram_reels"}
    /\ \A p \in Placements : ASSET_PLACEMENTS[p][1] \in {"facebook", "instagram"}
  BY DEF Placements, ASSET_PLACEMENTS

LEMMA TargetingIsTyped ==
    ASSUME NEW s \in AdSetType
    PROVE  MetaTargeting(s) \in MetaTargetingType
  <1>1. s.targeting \in TargetingType /\ s.placements \in PlacementsType
    BY DEF AdSetType
  <1>2. ASSUME NEW x PROVE PlatformOf(x) \subseteq STRING
    <2>1. CASE x \in Placements
      <3>1. PlatformOf(x) = {ASSET_PLACEMENTS[x][1]}
        BY <2>1 DEF PlatformOf
      <3>2. ASSET_PLACEMENTS[x][1] \in STRING
        BY <2>1, PlacementsListed, LiteralsAssumption
      <3>3. QED BY <3>1, <3>2
    <2>2. CASE x \notin Placements
      BY <2>2 DEF PlatformOf
    <2>3. QED BY <2>1, <2>2
  <1>3. (s.placements.positions \ Placements) \cup (UNION {PlatformOf(x) : x \in s.placements.positions})
            \subseteq STRING
    BY <1>1, <1>2 DEF PlacementsType
  <1>4. MetaTargeting(s).publisher_platforms \subseteq STRING
    BY <1>1, <1>3 DEF MetaTargeting, PlacementsType
  <1>5. QED
    BY <1>1, <1>4 DEF MetaTargeting, MetaTargetingType, TargetingType

LEMMA AdSetIsTyped ==
    ASSUME plan \in PlanType, brand \in Optional(BrandType), Accepted(plan),
           PlanIsSound(plan, account), NEW s \in AdSets(plan)
    PROVE  MetaAdSet(s) \in MetaAdSetType
  <1>1. /\ s \in AdSetType /\ s.budget \in Optional(BudgetType)
        /\ \A b \in s.budget : BudgetIsSound(b, account)
    BY BudgetsOfPlan
  <1>2. MinorOf(s.budget, "daily") \in Int /\ MinorOf(s.budget, "lifetime") \in Int
    BY <1>1, MinorOfBudget
  <1>3. MetaAdSet(s).bid_amount \in Int
    <2>1. CASE s.bid_amount = {}
      BY <2>1 DEF MetaAdSet
    <2>2. CASE s.bid_amount # {}
      <3> DEFINE bid == CHOOSE b \in s.bid_amount : TRUE
                 c == CHOOSE c \in Currency(plan) : TRUE
      <3>1. bid \in s.bid_amount /\ bid \in Int
        BY <2>2, <1>1 DEF AdSetType, Optional
      <3>2. c \in Currency(plan)
        BY SomebodyPays
      <3>3. CanResolve(bid, c, account)
        BY <3>1, <3>2 DEF PlanIsSound
      <3>4. Resolved(bid, c, account) \in Int
        BY <3>1, <3>3, ResolvedIsWhole
      <3>5. MetaAdSet(s).bid_amount = Resolved(bid, c, account)
        BY <2>2 DEF MetaAdSet
      <3>6. QED BY <3>4, <3>5
    <2>3. QED BY <2>1, <2>2
  <1>4. MetaTargeting(s) \in MetaTargetingType
    BY <1>1, TargetingIsTyped
  <1>5. DsaOf(plan, brand) \subseteq STRING
    BY DEF DsaOf, PlanType, Optional, BrandType
  <1>6. s.schedule.end \cup plan.schedule.end \subseteq TimeType
    BY <1>1 DEF AdSetType, PlanType, ScheduleType, Optional
  <1>7. MetaAdSet(s).promoted_object \in
            [pixel_id : Optional(STRING), custom_event_type : Optional(STRING),
             custom_conversion_id : Optional(STRING)]
    BY <1>1 DEF MetaAdSet, AdSetType, TrackingType
  <1>8. <<>> \in Seq([name : STRING, creative : MadeCreativeType])
    BY EmptySeq
  <1>9. QED
    BY <1>1, <1>2, <1>3, <1>4, <1>5, <1>6, <1>7, <1>8 DEF MetaAdSet, MetaAdSetType, AdSetType

(***************************************************************************)
(* Creatives.                                                              *)
(***************************************************************************)
RequestType ==
    [mode : Modes, page : Optional(STRING), instagram_account : Optional(STRING),
     url : Optional(UrlType), post : BOOLEAN, instagram_media : BOOLEAN,
     variants : Seq(VariantType),
     assets : Seq([media : STRING, placement : Optional(STRING)]),
     cards : Seq([media : STRING, link : Optional(UrlType), still : BOOLEAN])]

(* What a local file makes on Meta has a name.                             *)
Uploadable(creative) ==
    \A a \in AssetRefs(creative) :
        IF a.sources = {"local_path"} THEN a.key \in DOMAIN FileContent
        ELSE a.video = (a.key \in VideoMedia)

LEMMA RemoteIsString ==
    ASSUME NEW a \in AssetType, a.sources = {"local_path"} => a.key \in DOMAIN FileContent
    PROVE  Remote(a) \in STRING
  BY KindsAssumption DEF Remote, AssetType

LEMMA RefsAreTyped ==
    ASSUME NEW c \in CreativeType
    PROVE  /\ \A i \in DOMAIN c.assets : c.assets[i] \in AssetRefs(c) /\ c.assets[i] \in Assets(c)
           /\ \A i \in DOMAIN c.cards : c.cards[i].asset \in AssetRefs(c)
           /\ AssetRefs(c) \subseteq AssetType
           /\ Assets(c) \subseteq AssetRefs(c)
  <1>1. c.assets \in Seq(AssetType) /\ c.cards \in Seq(CardType)
    BY DEF CreativeType
  <1>2. ToSet(c.assets) \subseteq AssetType /\ ToSet(c.cards) \subseteq CardType
    BY <1>1, MembersOfSequence
  <1>3. /\ \A i \in DOMAIN c.assets : c.assets[i] \in ToSet(c.assets)
        /\ \A i \in DOMAIN c.cards : c.cards[i] \in ToSet(c.cards)
    BY DEF ToSet
  <1>4. QED
    BY <1>2, <1>3 DEF AssetRefs, Assets, CardType

LEMMA RequestIsTyped ==
    ASSUME NEW c \in CreativeType, CreativeAccepted(c), Uploadable(c)
    PROVE  /\ Request(c) \in RequestType
           /\ c.mode \in {"single_image", "single_video", "multi_variant"} => Request(c).assets # <<>>
  <1> DEFINE video == CHOOSE a \in Assets(c) : a.video
             usable == IF c.mode = "single_video" THEN <<video>> ELSE c.assets
             assets == [i \in DOMAIN usable |-> RequestAsset(usable[i])]
             cards == [i \in DOMAIN c.cards |->
                          [media |-> Remote(c.cards[i].asset), link |-> c.cards[i].link, still |-> FALSE]]
             Asset == [media : STRING, placement : Optional(STRING)]
             Card == [media : STRING, link : Optional(UrlType), still : BOOLEAN]
  <1>1. Request(c) = [mode |-> c.mode, page |-> c.page, instagram_account |-> c.instagram_account,
                      url |-> c.url, post |-> c.post, instagram_media |-> c.instagram_media,
                      variants |-> c.variants, assets |-> assets, cards |-> cards]
    BY Zenon DEF Request
  <1>2. \A a \in AssetRefs(c) : a \in AssetType /\ Remote(a) \in STRING
    BY RefsAreTyped, RemoteIsString DEF Uploadable
  <1>3. c.assets \in Seq(AssetType) /\ c.cards \in Seq(CardType)
    BY DEF CreativeType
  <1>4. cards \in Seq(Card)
    <2>1. DOMAIN c.cards = 1 .. Len(c.cards) /\ Len(c.cards) \in Nat
          /\ \A i \in DOMAIN c.cards : c.cards[i] \in CardType
      BY <1>3, MembersOfSequence
    <2>2. \A i \in DOMAIN c.cards :
             [media |-> Remote(c.cards[i].asset), link |-> c.cards[i].link, still |-> FALSE] \in Card
      BY <1>2, <2>1, RefsAreTyped DEF CardType
    <2>3. cards \in [1 .. Len(c.cards) -> Card]
      BY <2>1, <2>2
    <2>4. QED BY <2>1, <2>3, FunctionIsSequence
  <1>5. c.mode \in {"single_image", "single_video", "multi_variant"} => c.assets # <<>>
    BY DEF CreativeAccepted, FromAssetsAccepted
  <1>6. usable \in Seq(AssetType) /\ (\A i \in DOMAIN usable : usable[i] \in AssetRefs(c))
        /\ (c.mode \in {"single_image", "single_video", "multi_variant"} => usable # <<>>)
    <2>1. CASE c.mode = "single_video"
      <3>1. \E a \in Assets(c) : a.video
        BY <2>1 DEF CreativeAccepted, FromAssetsAccepted
      <3>2. video \in Assets(c)
        BY <3>1
      <3>3. video \in AssetRefs(c) /\ video \in AssetType
        BY <3>2, RefsAreTyped
      <3> HIDE DEF video
      <3>4. QED BY <2>1, <3>3
    <2>2. CASE c.mode # "single_video"
      BY <2>2, <1>3, <1>5, RefsAreTyped
    <2>3. QED BY <2>1, <2>2
  <1> HIDE DEF usable
  <1>7. assets \in Seq(Asset) /\ (usable # <<>> => assets # <<>>)
    <2>1. DOMAIN usable = 1 .. Len(usable) /\ Len(usable) \in Nat
          /\ (usable # <<>> => 1 \in DOMAIN usable)
      BY <1>6, MembersOfSequence
    <2>2. \A i \in DOMAIN usable : RequestAsset(usable[i]) \in Asset
      BY <1>2, <1>6 DEF RequestAsset, AssetType
    <2>3. assets \in [1 .. Len(usable) -> Asset]
      BY <2>1, <2>2
    <2>4. assets \in Seq(Asset) /\ Len(assets) = Len(usable)
      BY <2>1, <2>3, FunctionIsSequence
    <2>5. usable # <<>> => 1 \in DOMAIN assets
      BY <2>1
    <2>6. QED BY <2>4, <2>5
  <1> HIDE DEF assets, cards
  <1>8. QED
    BY <1>1, <1>4, <1>6, <1>7 DEF RequestType, CreativeType

LEMMA PlacementsAreFinite == IsFiniteSet(Placements)
  <1> DEFINE A == {"facebook_feed"} \cup {"facebook_stories"}
             B == {"facebook_reels"} \cup {"instagram_feed"}
             C == {"instagram_stories"} \cup {"instagram_reels"}
  <1>1. IsFiniteSet(A) /\ IsFiniteSet(B) /\ IsFiniteSet(C)
    BY FS_Singleton, FS_AddElement
  <1>2. IsFiniteSet((A \cup B) \cup C)
    BY <1>1, FS_Union
  <1>3. Placements = (A \cup B) \cup C
    BY PlacementsListed
  <1>4. QED
    BY <1>2, <1>3

LEMMA ListOfSet ==
    ASSUME NEW S, IsFiniteSet(S)
    PROVE  /\ SetToSeq(S) \in [1 .. Cardinality(S) -> S] /\ Cardinality(S) \in Nat
           /\ \A x \in S : \E i \in 1 .. Cardinality(S) : SetToSeq(S)[i] = x
  <1> DEFINE list == SetToSeq(S)
             n == Cardinality(S)
  <1>1. n \in Nat /\ ExistsBijection(1 .. n, S)
    BY FS_CardinalityType
  <1>2. PICK f : f \in Bijection(1 .. n, S)
    BY <1>1 DEF ExistsBijection
  <1>3. f \in [1 .. n -> S] /\ IsInjective(f)
    BY <1>2 DEF Bijection, Injection, IsInjective
  <1>4. list \in [1 .. n -> S] /\ IsInjective(list)
    BY <1>1, <1>3 DEF SetToSeq
  <1> HIDE DEF list
  <1>5. list \in Injection(1 .. n, S)
    BY <1>4 DEF Injection, IsInjective
  <1>6. Cardinality(1 .. n) = n
    BY <1>1, FS_Interval
  <1>7. list \in Surjection(1 .. n, S)
    BY <1>5, <1>6, FS_Injection
  <1>8. QED
    BY <1>1, <1>4, <1>7 DEF Surjection, list

LEMMA RulesAreTyped ==
    ASSUME NEW pinned, \A x \in DOMAIN pinned : pinned[x] \in Placements
    PROVE  CustomizationRules(pinned) \in Seq(SUBSET Placements)
  <1> DEFINE S == {pinned[x] : x \in DOMAIN pinned}
             named == SetToSeq(S)
             rules == [i \in DOMAIN named |-> {named[i]}]
  <1>1. IsFiniteSet(S) /\ S \subseteq Placements
    <2>1. S \subseteq Placements
      OBVIOUS
    <2>2. QED BY <2>1, PlacementsAreFinite, FS_Subset
  <1>2. named \in [1 .. Cardinality(S) -> S] /\ Cardinality(S) \in Nat
    BY <1>1, ListOfSet
  <1>3. CustomizationRules(pinned) = IF DOMAIN pinned = {} THEN <<>> ELSE Append(rules, {})
    BY Zenon DEF CustomizationRules
  <1> HIDE DEF S, named
  <1>4. rules \in [1 .. Cardinality(S) -> SUBSET Placements]
    BY <1>1, <1>2
  <1>5. rules \in Seq(SUBSET Placements)
    BY <1>2, <1>4, FunctionIsSequence
  <1> HIDE DEF rules
  <1>6. Append(rules, {}) \in Seq(SUBSET Placements)
    BY <1>5, AppendProperties
  <1>7. QED
    BY <1>3, <1>6

LEMMA FeedIsTyped ==
    ASSUME NEW r \in RequestType, ~FeedRefused(r, VideoMedia)
    PROVE  FeedCreative(r) \in MadeCreativeType
  <1> DEFINE pinned == ParsePlacements(r.assets)
             Medium == [media : STRING, label : Optional(Placements)]
  <1>1. \A x \in DOMAIN pinned : pinned[x] \in Placements
    BY Zenon DEF FeedRefused
  <1>2. CustomizationRules(pinned) \in Seq(SUBSET Placements)
    BY <1>1, RulesAreTyped
  <1>3. \A x : Label(x, pinned) \in Optional(Placements)
    BY <1>1 DEF Label, Optional
  <1>4. FeedCreative(r) = [Blank(r.page, r.instagram_account) EXCEPT
            !.shape = "feed", !.url = r.url, !.variants = r.variants,
            !.media = Labelled(r.assets, pinned), !.rules = CustomizationRules(pinned)]
    BY Zenon DEF FeedCreative
  <1> HIDE DEF pinned
  <1>5. Labelled(r.assets, pinned) \in Seq(Medium)
    <2>1. r.assets \in Seq([media : STRING, placement : Optional(STRING)])
      BY DEF RequestType
    <2>2. /\ DOMAIN r.assets = 1 .. Len(r.assets) /\ Len(r.assets) \in Nat
          /\ \A i \in DOMAIN r.assets : r.assets[i] \in [media : STRING, placement : Optional(STRING)]
      BY <2>1, MembersOfSequence
    <2>3. Labelled(r.assets, pinned) \in [1 .. Len(r.assets) -> Medium]
      BY <2>2, <1>3 DEF Labelled
    <2>4. QED BY <2>2, <2>3, FunctionIsSequence
  <1>6. FeedCreative(r) =
            [shape |-> "feed", page |-> r.page, instagram_account |-> r.instagram_account,
             media |-> Labelled(r.assets, pinned), cards |-> <<>>, variants |-> r.variants,
             url |-> r.url, still |-> FALSE, rules |-> CustomizationRules(pinned)]
    BY <1>4 DEF Blank
  <1>7. <<>> \in Seq([media : STRING, link : Optional(UrlType)])
    BY EmptySeq
  <1>8. QED
    BY <1>2, <1>5, <1>6, <1>7 DEF MadeCreativeType, RequestType

LEMMA HeadIsTyped ==
    ASSUME NEW variants \in Seq(VariantType), variants # <<>>
    PROVE  <<[Head(variants) EXCEPT !.cta = CtaOr(DefaultCta, Head(variants))]>> \in Seq(VariantType)
  <1>1. Head(variants) \in VariantType
    BY MembersOfSequence
  <1>2. CtaOr(DefaultCta, Head(variants)) \in Optional(STRING)
    BY <1>1, LiteralsAssumption DEF CtaOr, DefaultCta, Optional, VariantType
  <1>3. [Head(variants) EXCEPT !.cta = CtaOr(DefaultCta, Head(variants))] \in VariantType
    BY <1>1, <1>2 DEF VariantType
  <1>4. QED
    BY <1>3

LEMMA CreatedIsTyped ==
    ASSUME NEW r \in RequestType, NEW videos, ~Refused(r, VideoMedia),
           r.mode \in {"single_image", "single_video"} => r.assets # <<>>
    PROVE  Created(r, videos) \in MadeCreativeType
  <1> DEFINE Medium == [media : STRING, label : Optional(Placements)]
             Card == [media : STRING, link : Optional(UrlType)]
  <1>0. /\ r.mode \in Modes /\ r.page \in Optional(STRING)
        /\ r.instagram_account \in Optional(STRING) /\ r.url \in Optional(UrlType)
        /\ r.variants \in Seq(VariantType) /\ {} \in Optional(STRING) /\ {} \in Optional(UrlType)
    BY DEF RequestType, Optional
  <1>1. r.mode # "existing_post" => r.variants # <<>>
    BY DEF Refused, OptionsGiven
  <1>2. /\ <<>> \in Seq(Medium) /\ <<>> \in Seq(Card) /\ <<>> \in Seq(SUBSET Placements)
        /\ <<>> \in Seq(VariantType)
    BY EmptySeq
  <1>3. r.mode \in {"single_image", "single_video"} => OneMedium(r) \in Seq(Medium)
    <2>1. r.assets # <<>> => r.assets[1].media \in STRING
      <3>1. r.assets \in Seq([media : STRING, placement : Optional(STRING)])
        BY DEF RequestType
      <3>2. r.assets # <<>> => r.assets[1] \in [media : STRING, placement : Optional(STRING)]
        BY <3>1, MembersOfSequence
      <3>3. QED BY <3>2
    <2>2. r.assets # <<>> => [media |-> r.assets[1].media, label |-> {}] \in Medium
      BY <2>1 DEF Optional
    <2>3. QED BY <2>2 DEF OneMedium
  <1>4. CASE r.mode = "single_image"
    <2>1. Created(r, videos) =
              [shape |-> "link", page |-> r.page, instagram_account |-> r.instagram_account,
               media |-> OneMedium(r), cards |-> <<>>, variants |-> r.variants,
               url |-> r.url, still |-> FALSE, rules |-> <<>>]
      BY <1>4 DEF Created, LinkCreative, Blank
    <2>2. QED BY <2>1, <1>0, <1>2, <1>3, <1>4 DEF MadeCreativeType
  <1>5. CASE r.mode = "single_video"
    <2> DEFINE variants == <<[Head(r.variants) EXCEPT !.cta = CtaOr(DefaultCta, Head(r.variants))]>>
               still == PickVideoThumbnail(r.assets[1].media, videos)
    <2>1. Created(r, videos) =
              [shape |-> "video", page |-> r.page, instagram_account |-> r.instagram_account,
               media |-> OneMedium(r), cards |-> <<>>, variants |-> variants,
               url |-> r.url, still |-> still, rules |-> <<>>]
      BY <1>5 DEF Created, VideoCreative, Blank
    <2>2. variants \in Seq(VariantType)
      BY <1>0, <1>1, <1>5, HeadIsTyped
    <2>3. still \in BOOLEAN
      BY DEF PickVideoThumbnail
    <2> HIDE DEF variants, still
    <2>4. QED BY <2>1, <2>2, <2>3, <1>0, <1>2, <1>3, <1>5 DEF MadeCreativeType
  <1>6. CASE r.mode = "existing_post"
    <2>1. \E shape \in {"post", "instagram_post"} : Created(r, videos) =
              [shape |-> shape, page |-> r.page, instagram_account |-> r.instagram_account,
               media |-> <<>>, cards |-> <<>>, variants |-> <<>>,
               url |-> {}, still |-> FALSE, rules |-> <<>>]
      BY <1>6 DEF Created, ExistingPostCreative, Blank
    <2>2. QED BY <2>1, <1>0, <1>2 DEF MadeCreativeType
  <1>7. CASE r.mode = "multi_variant"
    BY <1>7, FeedIsTyped DEF Created, Refused
  <1>8. CASE r.mode = "carousel"
    <2> DEFINE variants == <<[Head(r.variants) EXCEPT !.cta = CtaOr(DefaultCta, Head(r.variants))]>>
               cards == [i \in DOMAIN r.cards |->
                            [media |-> r.cards[i].media,
                             link |-> IF r.cards[i].link = {} THEN r.url ELSE r.cards[i].link]]
    <2>1. Created(r, videos) =
              [shape |-> "link", page |-> r.page, instagram_account |-> r.instagram_account,
               media |-> <<>>, cards |-> cards, variants |-> variants,
               url |-> r.url, still |-> FALSE, rules |-> <<>>]
      BY <1>8 DEF Created, CarouselCreative, Blank
    <2>2. variants \in Seq(VariantType)
      BY <1>0, <1>1, <1>8, HeadIsTyped
    <2>3. cards \in Seq(Card)
      <3>1. r.cards \in Seq([media : STRING, link : Optional(UrlType), still : BOOLEAN])
        BY DEF RequestType
      <3>2. /\ DOMAIN r.cards = 1 .. Len(r.cards) /\ Len(r.cards) \in Nat
            /\ \A i \in DOMAIN r.cards :
                   r.cards[i] \in [media : STRING, link : Optional(UrlType), still : BOOLEAN]
        BY <3>1, MembersOfSequence
      <3>3. cards \in [1 .. Len(r.cards) -> Card]
        BY <3>2, <1>0
      <3>4. QED BY <3>2, <3>3, FunctionIsSequence
    <2> HIDE DEF variants, cards
    <2>4. QED BY <2>1, <2>2, <2>3, <1>0, <1>2 DEF MadeCreativeType
  <1>9. QED
    BY <1>0, <1>4, <1>5, <1>6, <1>7, <1>8 DEF Modes

-----------------------------------------------------------------------------
(* The report.                                                             *)

LEMMA CodesOfABudget ==
    ASSUME NEW b, NEW a
    PROVE  CheckBudget(b, a) \subseteq ErrorCodes \cup NoteCodes
  BY DEF CheckBudget, When, ErrorCodes, NoteCodes

LEMMA CodesOfAnAdSet ==
    ASSUME NEW s, NEW p, NEW a
    PROVE  CheckAdSet(s, p, a) \subseteq ErrorCodes \cup NoteCodes
  <1> DEFINE B == UNION {CheckBudget(b, a) : b \in s.budget}
             A == UNION {CheckCreative(ad.creative, a) \cup CheckLocalAssets(ad.creative)
                         : ad \in ToSet(s.ads)}
             C == ErrorCodes \cup NoteCodes
  <1>1. CheckAdSet(s, p, a) =
            B \cup CheckGoal(s, a) \cup CheckTracking(s, a) \cup CheckSchedule(s)
            \cup CheckBid(s, p, a) \cup CheckAudiences(s, a) \cup CheckUtmApplied(s)
            \cup CheckPinnedPlacements(s) \cup A
    BY Zenon DEF CheckAdSet
  <1>2. B \subseteq C
    BY CodesOfABudget
  <1>3. CheckGoal(s, a) \subseteq C /\ CheckSchedule(s) \subseteq C
    BY DEF CheckGoal, CheckSchedule, When, ErrorCodes, NoteCodes
  <1>4. CheckTracking(s, a) \subseteq C
    BY DEF CheckTracking, When, ErrorCodes, NoteCodes
  <1>5. CheckUtmApplied(s) \subseteq C /\ CheckPinnedPlacements(s) \subseteq C
    BY DEF CheckUtmApplied, CheckPinnedPlacements, When, ErrorCodes, NoteCodes
  <1>6. CheckAudiences(s, a) \subseteq C
    BY DEF CheckAudiences, When, ErrorCodes, NoteCodes
  <1>7. CheckBid(s, p, a) \subseteq C
    BY DEF CheckBid, When, ErrorCodes, NoteCodes
  <1>8. ASSUME NEW creative PROVE CheckCreative(creative, a) \subseteq C
    <2>1. \A url : CheckDestination(url) \subseteq C
      BY DEF CheckDestination, When, ErrorCodes, NoteCodes
    <2>2. \A condition :
             /\ When(condition, "creative.page_missing") \subseteq C
             /\ When(condition, "creative.page_unknown") \subseteq C
             /\ When(condition, "creative.instagram_unknown") \subseteq C
             /\ When(condition, "creative.cta_invalid") \subseteq C
             /\ When(condition, "creative.angles_not_distinct") \subseteq C
      BY DEF When, ErrorCodes, NoteCodes
    <2>3. {"creative.advantage_declared", "creative.advantage_default"} \subseteq C
      BY DEF NoteCodes
    <2> DEFINE D == UNION {CheckDestination(url) : url \in Urls(creative)}
               E == {IF creative.enhancements # {} THEN "creative.advantage_declared"
                     ELSE "creative.advantage_default"}
               P == \E x \in a : Lacks(x.available_page_ids, creative.page)
               I == \E x \in a : Lacks(x.available_instagram_account_ids, creative.instagram_account)
               T == \E x \in a : Lacks(x.valid_call_to_action_types,
                                        UNION {v.cta : v \in ToSet(creative.variants)})
    <2>4. CheckCreative(creative, a) =
              When(creative.page = {}, "creative.page_missing")
              \cup When(P, "creative.page_unknown") \cup When(I, "creative.instagram_unknown")
              \cup D \cup When(T, "creative.cta_invalid")
              \cup When(SameAngle(creative.variants), "creative.angles_not_distinct") \cup E
      BY Zenon DEF CheckCreative
    <2>5. D \subseteq C /\ E \subseteq C
      BY <2>1, <2>3
    <2> HIDE DEF C, D, E, P, I, T
    <2>6. QED BY <2>2, <2>4, <2>5
  <1>9. \A creative : CheckLocalAssets(creative) \subseteq C
    BY DEF CheckLocalAssets, ErrorCodes, NoteCodes
  <1>10. A \subseteq C
    <2> HIDE DEF C
    <2>1. QED BY <1>8, <1>9
  <1> HIDE DEF A, B, C
  <1>11. QED
    BY <1>1, <1>2, <1>3, <1>4, <1>5, <1>6, <1>7, <1>10 DEF C

LEMMA FindingsAreCodes ==
    ASSUME NEW p, NEW a, NEW br
    PROVE  Findings(p, a, br) \subseteq Codes
  <1> DEFINE B == UNION {CheckBudget(b, a) : b \in p.budget}
             C == UNION {CheckSpendCap(cap, a) : cap \in p.spend_cap}
             S == UNION {CheckAdSet(s, p, a) : s \in AdSets(p)}
             Listed == ErrorCodes \cup NoteCodes
  <1>1. Findings(p, a, br) =
            CheckAccount(p, a) \cup CheckCurrency(p, a) \cup CheckObjective(p, a)
            \cup B \cup C \cup CheckCampaignSchedule(p) \cup CheckSpecialCategories(p, br)
            \cup CheckDsa(p, br) \cup CheckNamesUnique(p) \cup CheckNamesRendered(p) \cup S
    BY Zenon DEF Findings
  <1>2. B \subseteq Listed /\ S \subseteq Listed
    BY CodesOfABudget, CodesOfAnAdSet
  <1>3. C \subseteq Listed
    BY DEF CheckSpendCap, When, ErrorCodes, NoteCodes
  <1>4. CheckAccount(p, a) \subseteq Listed
    BY DEF CheckAccount, When, ErrorCodes, NoteCodes
  <1>5. CheckCurrency(p, a) \subseteq Listed
    <2>1. \A c : CheckCurrencyOf(c, a) \subseteq Listed
      BY DEF CheckCurrencyOf, When, ErrorCodes, NoteCodes
    <2> HIDE DEF Listed
    <2>2. QED BY <2>1 DEF CheckCurrency
  <1>6. CheckObjective(p, a) \subseteq Listed /\ CheckCampaignSchedule(p) \subseteq Listed
    BY DEF CheckObjective, CheckCampaignSchedule, When, ErrorCodes, NoteCodes
  <1>7. CheckSpecialCategories(p, br) \subseteq Listed /\ CheckDsa(p, br) \subseteq Listed
    BY DEF CheckSpecialCategories, CheckDsa, ErrorCodes, NoteCodes
  <1>8. CheckNamesUnique(p) \subseteq Listed /\ CheckNamesRendered(p) \subseteq Listed
    BY DEF CheckNamesUnique, CheckNamesRendered, When, ErrorCodes, NoteCodes
  <1> HIDE DEF B, C, S, Listed
  <1>9. Findings(p, a, br) \subseteq Listed
    BY <1>1, <1>2, <1>3, <1>4, <1>5, <1>6, <1>7, <1>8
  <1>10. QED
    BY <1>9 DEF Codes, Listed

-----------------------------------------------------------------------------
(* What the steps start from.                                              *)

LEMMA PlanParts ==
    ASSUME NEW p \in PlanType
    PROVE  /\ p.ad_sets \in Seq(AdSetType) /\ Len(p.ad_sets) \in Nat
           /\ DOMAIN p.ad_sets = 1 .. Len(p.ad_sets)
           /\ \A i \in DOMAIN p.ad_sets :
                 /\ p.ad_sets[i] \in AdSetType /\ p.ad_sets[i] \in AdSets(p)
                 /\ Len(p.ad_sets[i].ads) \in Nat
                 /\ DOMAIN p.ad_sets[i].ads = 1 .. Len(p.ad_sets[i].ads)
                 /\ \A j \in DOMAIN p.ad_sets[i].ads :
                        /\ p.ad_sets[i].ads[j] \in ToSet(p.ad_sets[i].ads)
                        /\ p.ad_sets[i].ads[j] \in [name : STRING, creative : CreativeType]
           /\ \A s \in AdSets(p) : \E i \in DOMAIN p.ad_sets : s = p.ad_sets[i]
  <1>1. p.ad_sets \in Seq(AdSetType)
    BY DEF PlanType
  <1>2. /\ DOMAIN p.ad_sets = 1 .. Len(p.ad_sets) /\ Len(p.ad_sets) \in Nat
        /\ \A i \in DOMAIN p.ad_sets : p.ad_sets[i] \in AdSetType
    BY <1>1, MembersOfSequence
  <1>3. ASSUME NEW i \in DOMAIN p.ad_sets
        PROVE  /\ Len(p.ad_sets[i].ads) \in Nat
               /\ DOMAIN p.ad_sets[i].ads = 1 .. Len(p.ad_sets[i].ads)
               /\ \A j \in DOMAIN p.ad_sets[i].ads :
                      p.ad_sets[i].ads[j] \in [name : STRING, creative : CreativeType]
    <2> DEFINE Ad == [name : STRING, creative : CreativeType]
               ads == p.ad_sets[i].ads
    <2>1. ads \in Seq(Ad)
      BY <1>2 DEF AdSetType
    <2> HIDE DEF Ad, ads
    <2>2. Len(ads) \in Nat /\ DOMAIN ads = 1 .. Len(ads) /\ \A j \in DOMAIN ads : ads[j] \in Ad
      BY <2>1, MembersOfSequence
    <2>3. QED BY <2>2 DEF Ad, ads
  <1>4. \A s : \A i \in DOMAIN s : s[i] \in ToSet(s)
    BY DEF ToSet
  <1>5. \A s \in AdSets(p) : \E i \in DOMAIN p.ad_sets : s = p.ad_sets[i]
    BY DEF AdSets, ToSet
  <1>6. \A i \in DOMAIN p.ad_sets : p.ad_sets[i] \in AdSets(p)
    BY <1>4 DEF AdSets
  <1>7. QED
    BY <1>1, <1>2, <1>3, <1>4, <1>5, <1>6

LEMMA RefsOfPlan ==
    ASSUME NEW p \in PlanType
    PROVE  /\ AllRefs(p) \subseteq AssetType
           /\ \A i \in DOMAIN p.ad_sets : \A j \in DOMAIN p.ad_sets[i].ads :
                 AssetRefs(p.ad_sets[i].ads[j].creative) \subseteq AllRefs(p)
           /\ \A a \in AllRefs(p) :
                 \E i \in DOMAIN p.ad_sets : \E j \in DOMAIN p.ad_sets[i].ads :
                     a \in AssetRefs(p.ad_sets[i].ads[j].creative)
  <1>1. ASSUME NEW i \in DOMAIN p.ad_sets, NEW j \in DOMAIN p.ad_sets[i].ads
        PROVE  /\ AssetRefs(p.ad_sets[i].ads[j].creative) \subseteq AllRefs(p)
               /\ AssetRefs(p.ad_sets[i].ads[j].creative) \subseteq AssetType
    <2>1. p.ad_sets[i] \in AdSets(p) /\ p.ad_sets[i].ads[j] \in ToSet(p.ad_sets[i].ads)
          /\ p.ad_sets[i].ads[j].creative \in CreativeType
      BY PlanParts
    <2>2. QED BY <2>1, RefsAreTyped DEF AllRefs
  <1>2. ASSUME NEW a \in AllRefs(p)
        PROVE  \E i \in DOMAIN p.ad_sets : \E j \in DOMAIN p.ad_sets[i].ads :
                   a \in AssetRefs(p.ad_sets[i].ads[j].creative)
    <2>1. PICK s \in AdSets(p) : a \in UNION {AssetRefs(ad.creative) : ad \in ToSet(s.ads)}
      BY DEF AllRefs
    <2>2. PICK ad \in ToSet(s.ads) : a \in AssetRefs(ad.creative)
      BY <2>1
    <2>3. PICK i \in DOMAIN p.ad_sets : s = p.ad_sets[i]
      BY PlanParts
    <2>4. PICK j \in DOMAIN s.ads : ad = s.ads[j]
      BY DEF ToSet
    <2>5. QED BY <2>2, <2>3, <2>4
  <1>3. QED
    BY <1>1, <1>2

LEMMA PlanInHand ==
    ASSUME TypeOK, StillValid, stage # "planned"
    PROVE  Accepted(plan) /\ account \in Optional(AccountType) /\ PlanIsSound(plan, account)
  <1>1. account \in Optional(AccountType)
    BY TypesAssumption DEF TypeOK, Optional
  <1>2. plan \in PlanType /\ Accepted(plan) /\ Ok(Findings(plan, account, brand))
    BY DEF TypeOK, StillValid
  <1>3. QED
    BY <1>1, <1>2, ValidatedIsSound

LEMMA NotBuiltIsTyped == NotBuilt \in MetaCampaignType /\ Len(NotBuilt.ad_sets) = 0
  <1>1. <<>> \in Seq(MetaAdSetType) /\ Len(<<>>) = 0
    BY EmptySeq
  <1>2. "none" \in STRING
    BY LiteralsAssumption
  <1>3. QED
    BY <1>1, <1>2 DEF NotBuilt, NoCampaign, MetaCampaignType

-----------------------------------------------------------------------------
(* The invariant is kept.                                                  *)

LEMMA InvInit == Init => IInv
  <1> SUFFICES ASSUME Init PROVE IInv
    OBVIOUS
  <1>1. plan \in PlanType /\ KindsAreKept
    BY TypesAssumption, KindsAssumption DEF Init, KindsAreKept
  <1>2. media \subseteq STRING
    <2>1. \A p \in Drafts : KnownMedia(p) \subseteq STRING
      BY RefsOfPlan, TypesAssumption DEF KnownMedia, AssetType
    <2>2. QED BY <2>1 DEF Init
  <1>3. TypeOK
    <2>1. brand \in Optional(BrandType) /\ account \in Optional(Readings)
          /\ shown \in Optional(ChangeType) /\ report \subseteq Codes
      BY TypesAssumption DEF Init, Optional
    <2>2. stage \in Stages /\ ready \subseteq media \cap VideoMedia
      BY DEF Init, Stages
    <2>3. campaign \in MetaCampaignType /\ source \in MetaCampaignType
          /\ Len(campaign.ad_sets) \in {0, Len(plan.ad_sets)}
      BY NotBuiltIsTyped DEF Init
    <2>4. QED BY <1>1, <1>2, <2>1, <2>2, <2>3 DEF TypeOK
  <1>4. NotAheadOfStage /\ StillValid /\ CampaignIsPlanned /\ AdSetsArePlanned /\ StopsAreKnown
    BY DEF Init, NotAheadOfStage, StillValid, CampaignIsPlanned, AdSetsArePlanned, StopsAreKnown,
           Started
  <1>5. AdsArePlanned
    BY NotBuiltIsTyped DEF Init, AdsArePlanned, NotBuilt
  <1>6. QED
    BY <1>1, <1>3, <1>4, <1>5 DEF IInv

(* Reading, validating and the rest of planning leave Meta alone.          *)
LEMMA InvReadAccount ==
    ASSUME IInv, NEW a \in Readings, ReadAccount(a)
    PROVE  IInv'
  <1>1. TypeOK'
    BY DEF IInv, ReadAccount, TypeOK, Optional, meta
  <1>2. NotAheadOfStage' /\ StillValid' /\ CampaignIsPlanned' /\ AdSetsArePlanned' /\ StopsAreKnown'
    BY DEF IInv, ReadAccount, NotAheadOfStage, StillValid, CampaignIsPlanned, AdSetsArePlanned,
           StopsAreKnown, Started, meta
  <1>3. AdsArePlanned' /\ KindsAreKept'
    BY DEF IInv, ReadAccount, AdsArePlanned, KindsAreKept, meta
  <1>4. QED
    BY <1>1, <1>2, <1>3 DEF IInv

LEMMA InvValidatePlan ==
    ASSUME IInv, ValidatePlan
    PROVE  IInv'
  <1>1. report' \subseteq Codes
    BY FindingsAreCodes DEF ValidatePlan, Codes
  <1>2. /\ stage = "planned" /\ stage' \in {"planned", "validated"}
        /\ UNCHANGED <<brand, plan, account, campaign, media, ready, source, shown>>
    BY DEF ValidatePlan, meta
  <1>3. TypeOK'
    BY <1>1, <1>2 DEF IInv, TypeOK, Stages
  <1>4. StillValid'
    BY DEF StillValid, ValidatePlan, meta
  <1>5. NotAheadOfStage' /\ CampaignIsPlanned' /\ AdSetsArePlanned' /\ StopsAreKnown'
    BY <1>2 DEF IInv, NotAheadOfStage, CampaignIsPlanned, AdSetsArePlanned, StopsAreKnown, Started
  <1>6. AdsArePlanned' /\ KindsAreKept'
    BY <1>2 DEF IInv, AdsArePlanned, KindsAreKept
  <1>7. QED
    BY <1>3, <1>4, <1>5, <1>6 DEF IInv

LEMMA InvSetEnd ==
    ASSUME IInv, SetEnd
    PROVE  IInv'
  <1> DEFINE end == {[at |-> 2, utc |-> TRUE]}
             sets == [i \in DOMAIN plan.ad_sets |-> [plan.ad_sets[i] EXCEPT !.schedule.end = end]]
  <1>1. /\ stage = "planned"
        /\ UNCHANGED <<brand, account, report, stage, campaign, media, ready, source, shown>>
    BY DEF SetEnd, meta
  <1>2. plan' = [plan EXCEPT !.ad_sets = sets]
    BY DEF SetEnd
  <1>3. plan \in PlanType
    BY DEF IInv, TypeOK
  <1>4. end \in Optional(TimeType)
    <2>1. [at |-> 2, utc |-> TRUE] \in TimeType
      BY DEF TimeType
    <2>2. QED BY <2>1 DEF Optional
  <1>5. ASSUME NEW i \in DOMAIN plan.ad_sets
        PROVE  sets[i] \in AdSetType /\ sets[i].ads = plan.ad_sets[i].ads
    <2> HIDE DEF end
    <2> DEFINE s == plan.ad_sets[i]
    <2>1. s \in AdSetType
      BY <1>3, PlanParts
    <2> HIDE DEF s
    <2>2. [s.schedule EXCEPT !.end = end] \in ScheduleType
      BY <2>1, <1>4 DEF AdSetType, ScheduleType
    <2>3. [s EXCEPT !.schedule.end = end] = [s EXCEPT !.schedule = [s.schedule EXCEPT !.end = end]]
      OBVIOUS
    <2>4. [s EXCEPT !.schedule.end = end] \in AdSetType /\ [s EXCEPT !.schedule.end = end].ads = s.ads
      BY <2>1, <2>2, <2>3 DEF AdSetType
    <2>5. sets[i] = [s EXCEPT !.schedule.end = end]
      BY DEF s
    <2>6. QED BY <2>4, <2>5 DEF s
  <1>6. sets \in Seq(AdSetType)
    <2>1. DOMAIN plan.ad_sets = 1 .. Len(plan.ad_sets) /\ Len(plan.ad_sets) \in Nat
      BY <1>3, PlanParts
    <2>2. sets \in [1 .. Len(plan.ad_sets) -> AdSetType]
      BY <1>5, <2>1
    <2>3. QED BY <2>1, <2>2, FunctionIsSequence
  <1> HIDE DEF end
  <1>7. plan' \in PlanType /\ plan'.ad_sets = sets
    BY <1>2, <1>3, <1>6 DEF PlanType
  <1>8. DOMAIN sets = DOMAIN plan.ad_sets
    OBVIOUS
  <1> HIDE DEF sets
  <1>9. campaign = NotBuilt
    BY <1>1 DEF IInv, NotAheadOfStage, Started
  <1>10. TypeOK'
    BY <1>1, <1>7, <1>9, NotBuiltIsTyped DEF IInv, TypeOK, NotBuilt
  <1>11. KindsAreKept'
    <2>1. ASSUME NEW a \in AllRefs(plan') PROVE a \in AllRefs(plan)
      <3>1. PICK i \in DOMAIN sets : \E j \in DOMAIN sets[i].ads : a \in AssetRefs(sets[i].ads[j].creative)
        BY <1>7, RefsOfPlan
      <3>2. \E j \in DOMAIN plan.ad_sets[i].ads : a \in AssetRefs(plan.ad_sets[i].ads[j].creative)
        BY <3>1, <1>5, <1>8 DEF sets
      <3>3. QED BY <3>1, <3>2, <1>3, <1>8, RefsOfPlan
    <2>2. QED BY <2>1 DEF IInv, KindsAreKept
  <1>12. StillValid' /\ NotAheadOfStage' /\ CampaignIsPlanned' /\ AdSetsArePlanned' /\ StopsAreKnown'
    BY <1>1 DEF IInv, StillValid, NotAheadOfStage, CampaignIsPlanned, AdSetsArePlanned,
                StopsAreKnown, Started
  <1>13. AdsArePlanned'
    BY <1>1, <1>9, NotBuiltIsTyped DEF AdsArePlanned, NotBuilt
  <1>14. QED
    BY <1>10, <1>11, <1>12, <1>13 DEF IInv

(***************************************************************************)
(* Building.                                                               *)
(***************************************************************************)
LEMMA CampaignIsTyped ==
    ASSUME IInv, CreateCampaign
    PROVE  campaign' \in MetaCampaignType
  <1>1. plan \in PlanType /\ PlanIsSound(plan, account)
    BY PlanInHand DEF IInv, TypeOK, CreateCampaign
  <1>2. plan.budget \in Optional(BudgetType) /\ \A b \in plan.budget : BudgetIsSound(b, account)
    BY <1>1, BudgetsOfPlan
  <1>3. MinorOf(plan.budget, "daily") \in Int /\ MinorOf(plan.budget, "lifetime") \in Int
    BY <1>2, MinorOfBudget
  <1> DEFINE cap == CHOOSE c \in plan.spend_cap : TRUE
             minor == IF plan.spend_cap = {} THEN 0 ELSE Resolved(cap.amount, cap.currency, account)
  <1>4. minor \in Int
    <2>1. CASE plan.spend_cap = {}
      BY <2>1
    <2>2. CASE plan.spend_cap # {}
      <3>1. cap \in plan.spend_cap
        BY <2>2
      <3>2. cap.amount \in Int /\ CanResolve(cap.amount, cap.currency, account)
        BY <1>1, <3>1 DEF PlanType, Optional, PlanIsSound
      <3> HIDE DEF cap
      <3>3. QED BY <2>2, <3>2, ResolvedIsWhole
    <2>3. QED BY <2>1, <2>2
  <1>5. campaign' =
            [account |-> plan.ad_account_id,
             campaign |->
                [account |-> plan.ad_account_id, objective |-> plan.objective,
                 special_ad_categories |-> plan.special_ad_categories,
                 daily |-> MinorOf(plan.budget, "daily"),
                 lifetime |-> MinorOf(plan.budget, "lifetime"), spend_cap |-> minor],
             ad_sets |-> <<>>]
    BY Zenon DEF CreateCampaign
  <1> HIDE DEF minor
  <1>6. <<>> \in Seq(MetaAdSetType)
    BY EmptySeq
  <1>7. QED
    BY <1>1, <1>3, <1>4, <1>5, <1>6 DEF MetaCampaignType, PlanType

LEMMA InvCreateCampaign ==
    ASSUME IInv, CreateCampaign
    PROVE  IInv'
  <1>1. /\ stage = "validated" /\ stage' = "campaign_created" /\ account # {}
        /\ UNCHANGED <<brand, plan, account, report, media, ready, source, shown>>
        /\ campaign'.ad_sets = <<>> /\ campaign'.account = plan.ad_account_id
        /\ campaign'.campaign.daily = MinorOf(plan.budget, "daily")
        /\ campaign'.campaign.lifetime = MinorOf(plan.budget, "lifetime")
    BY DEF CreateCampaign
  <1>2. Len(campaign'.ad_sets) = 0
    BY <1>1
  <1>3. TypeOK'
    BY <1>1, <1>2, CampaignIsTyped DEF IInv, TypeOK, Stages
  <1>4. plan \in PlanType /\ PlanIsSound(plan, account)
    BY <1>1, PlanInHand DEF IInv, TypeOK
  <1>5. MinorOf(plan.budget, "daily") \in Nat
    BY <1>4, BudgetsOfPlan, MinorOfBudget
  <1>6. MinorOf(plan.budget, "daily")' = MinorOf(plan.budget, "daily")
        /\ MinorOf(plan.budget, "lifetime")' = MinorOf(plan.budget, "lifetime")
    BY <1>1 DEF MinorOf
  <1>7. NotAheadOfStage' /\ StillValid' /\ CampaignIsPlanned' /\ AdSetsArePlanned' /\ StopsAreKnown'
    BY <1>1, <1>5, <1>6 DEF IInv, NotAheadOfStage, StillValid, CampaignIsPlanned, AdSetsArePlanned,
                            StopsAreKnown, Started
  <1>8. AdsArePlanned' /\ KindsAreKept'
    BY <1>1 DEF IInv, AdsArePlanned, KindsAreKept
  <1>9. QED
    BY <1>3, <1>7, <1>8 DEF IInv

LEMMA LeastMember ==
    ASSUME NEW T, T \subseteq Nat, T # {}
    PROVE  \E x \in T : \A y \in T : x <= y
  <1> DEFINE Less == {p \in Nat \X Nat : p[1] < p[2]}
  <1>1. IsWellFoundedOn(Less, Nat)
    BY NatLessThanWellFounded DEF OpToRel
  <1>2. \A x, y \in Nat : y < x => <<y, x>> \in Less
    OBVIOUS
  <1> HIDE DEF Less
  <1>3. PICK x \in T : \A y \in T : ~ (<<y, x>> \in Less)
    BY <1>1, WFMin
  <1>4. \A y \in T : ~ (y < x) /\ x \in Nat /\ y \in Nat
    BY <1>2, <1>3
  <1>5. QED
    BY <1>4

LEMMA GreatestMember ==
    ASSUME NEW n \in Nat, NEW T, T \subseteq 1 .. n, T # {}
    PROVE  \E x \in T : \A y \in T : y <= x
  <1> DEFINE S == {n - x : x \in T}
  <1>1. S \subseteq Nat /\ S # {}
    <2>1. \A x \in T : n - x \in Nat
      OBVIOUS
    <2>2. QED BY <2>1
  <1>2. PICK s \in S : \A t \in S : s <= t
    <2> HIDE DEF S
    <2>1. QED BY <1>1, LeastMember
  <1>3. PICK x \in T : s = n - x
    BY <1>2
  <1>4. \A y \in T : n - x <= n - y
    BY <1>2, <1>3
  <1>5. QED
    BY <1>4

LEMMA InvCreateAdSets ==
    ASSUME IInv, CreateAdSets
    PROVE  IInv'
  <1> DEFINE sets == [i \in DOMAIN plan.ad_sets |-> MetaAdSet(plan.ad_sets[i])]
  <1>1. /\ stage = "campaign_created" /\ stage' = "ad_sets_created"
        /\ UNCHANGED <<brand, plan, account, report, media, ready, source, shown>>
        /\ campaign' = [campaign EXCEPT !.ad_sets = sets]
    BY DEF CreateAdSets
  <1>2. /\ plan \in PlanType /\ brand \in Optional(BrandType) /\ Accepted(plan)
        /\ PlanIsSound(plan, account)
    BY <1>1, PlanInHand DEF IInv, TypeOK
  <1>3. DOMAIN plan.ad_sets = 1 .. Len(plan.ad_sets) /\ Len(plan.ad_sets) \in Nat
    BY <1>2, PlanParts
  <1>4. ASSUME NEW i \in DOMAIN plan.ad_sets
        PROVE  MetaAdSet(plan.ad_sets[i]) \in MetaAdSetType /\ MetaAdSet(plan.ad_sets[i]).ads = <<>>
    BY <1>2, PlanParts, AdSetIsTyped DEF MetaAdSet
  <1>5. sets \in Seq(MetaAdSetType) /\ Len(sets) = Len(plan.ad_sets)
    <2>1. sets \in [1 .. Len(plan.ad_sets) -> MetaAdSetType]
      BY <1>3, <1>4
    <2> HIDE DEF sets
    <2>2. QED BY <1>3, <2>1, FunctionIsSequence
  <1>6. \A i \in DOMAIN plan.ad_sets : /\ sets[i] = MetaAdSet(plan.ad_sets[i])
                                      /\ [sets[i] EXCEPT !.ads = <<>>] = MetaAdSet(plan.ad_sets[i])
                                      /\ sets[i].ads = <<>>
    BY <1>4 DEF MetaAdSetType
  <1>7. DOMAIN sets = DOMAIN plan.ad_sets
    OBVIOUS
  <1> HIDE DEF sets
  <1>8. campaign \in MetaCampaignType
    BY DEF IInv, TypeOK
  <1>9. /\ campaign' \in MetaCampaignType /\ campaign'.ad_sets = sets
        /\ campaign'.account = campaign.account /\ campaign'.campaign = campaign.campaign
    BY <1>1, <1>5, <1>8 DEF MetaCampaignType
  <1>10. TypeOK'
    BY <1>1, <1>5, <1>9 DEF IInv, TypeOK, Stages
  <1>11. /\ \A type : MinorOf(plan.budget, type)' = MinorOf(plan.budget, type)
         /\ \A i \in DOMAIN plan.ad_sets : MetaAdSet(plan.ad_sets[i])' = MetaAdSet(plan.ad_sets[i])
    BY <1>1 DEF MinorOf, MetaAdSet
  <1>12. CampaignIsPlanned'
    BY <1>1, <1>9, <1>11 DEF IInv, CampaignIsPlanned, Started
  <1>13. AdSetsArePlanned'
    <2>1. \A i \in DOMAIN plan.ad_sets : Len(plan.ad_sets[i].ads) \in Nat
      BY <1>2, PlanParts
    <2>2. ASSUME NEW i \in DOMAIN plan.ad_sets PROVE Len(sets[i].ads) <= Len(plan.ad_sets[i].ads)
      <3>1. sets[i].ads = <<>> /\ Len(<<>>) = 0
        BY <1>6
      <3>2. Len(sets[i].ads) = 0
        BY <3>1
      <3>3. QED BY <2>1, <3>2
    <2>3. QED BY <1>1, <1>5, <1>6, <1>9, <1>11, <2>2 DEF AdSetsArePlanned
  <1>14. AdsArePlanned'
    <2>1. ASSUME NEW i \in DOMAIN sets PROVE DOMAIN sets[i].ads = {}
      <3>1. sets[i].ads = <<>>
        BY <1>6, <1>7
      <3>2. QED BY <3>1
    <2>2. QED BY <1>9, <2>1 DEF AdsArePlanned
  <1>15. NotAheadOfStage' /\ StillValid' /\ StopsAreKnown' /\ KindsAreKept'
    BY <1>1 DEF IInv, NotAheadOfStage, StillValid, StopsAreKnown, KindsAreKept, Started
  <1>16. QED
    BY <1>10, <1>12, <1>13, <1>14, <1>15 DEF IInv

(* A file of a plan that validated is an image or a video, and of a single *)
(* video it is one.                                                        *)
LEMMA FilesAreUsable ==
    ASSUME TypeOK, StillValid, stage # "planned",
           NEW i \in DOMAIN plan.ad_sets, NEW j \in DOMAIN plan.ad_sets[i].ads
    PROVE  LET c == plan.ad_sets[i].ads[j].creative IN
           /\ c \in CreativeType /\ CreativeAccepted(c) /\ c.page # {}
           /\ \A a \in AssetRefs(c) :
                  a.sources = {"local_path"} => FileKind[a.key] \in {"image", "video"}
           /\ \A a \in Assets(c) : \A p \in a.placement : Targets(plan.ad_sets[i].placements, p)
  <1> DEFINE s == plan.ad_sets[i]
             c == s.ads[j].creative
  <1>1. s \in AdSets(plan) /\ s.ads[j] \in ToSet(s.ads) /\ c \in CreativeType
    BY PlanParts DEF TypeOK
  <1>2. Accepted(plan) /\ Ok(Findings(plan, account, brand))
    BY DEF StillValid
  <1>3. CreativeAccepted(c)
    BY <1>1, <1>2 DEF Accepted, AdSetAccepted
  <1>4. /\ CheckAdSet(s, plan, account) \subseteq Findings(plan, account, brand)
        /\ CheckPinnedPlacements(s) \subseteq CheckAdSet(s, plan, account)
        /\ CheckCreative(c, account) \subseteq CheckAdSet(s, plan, account)
        /\ CheckLocalAssets(c) \subseteq CheckAdSet(s, plan, account)
    <2> HIDE DEF s
    <2>1. QED BY <1>1, PartsOfTheReport, PartsOfAnAdSet
  <1>5. {"creative.page_missing", "asset.unusable", "asset.placement_not_targeted"} \subseteq ErrorCodes
    BY DEF ErrorCodes
  <1>6. /\ "creative.page_missing" \notin CheckCreative(c, account)
        /\ "asset.unusable" \notin CheckLocalAssets(c)
        /\ "asset.placement_not_targeted" \notin CheckPinnedPlacements(s)
    <2> HIDE DEF c, s
    <2>1. QED BY <1>2, <1>4, <1>5 DEF Ok
  <1>7. c.page # {}
    BY <1>6 DEF CheckCreative, When
  <1>8. ASSUME NEW a \in AssetRefs(c), a.sources = {"local_path"}
        PROVE  FileKind[a.key] \in {"image", "video"}
    <2> HIDE DEF c
    <2>1. a.key \in LocalFiles(c)
      BY <1>8 DEF LocalFiles
    <2>2. ProbeAsset(a.key, ExpectedKinds(c))
      BY <1>6, <2>1 DEF CheckLocalAssets
    <2>3. QED BY <2>2 DEF ProbeAsset, ExpectedKinds
  <1>9. ASSUME NEW a \in Assets(c), NEW p \in a.placement
        PROVE  Targets(s.placements, p)
    BY <1>1, <1>6, <1>9 DEF CheckPinnedPlacements, When
  <1>10. QED
    BY <1>1, <1>3, <1>7, <1>8, <1>9

LEMMA InvUploadAsset ==
    ASSUME IInv, NEW asset \in AllRefs(plan), UploadAsset(asset)
    PROVE  IInv'
  <1>1. /\ stage = "ad_sets_created" /\ stage' \in {"ad_sets_created", "stopped"}
        /\ media' \in {media, media \cup {Remote(asset)}} /\ asset.sources = {"local_path"}
        /\ UNCHANGED <<brand, plan, account, report, campaign, ready, source, shown>>
    BY DEF UploadAsset
  <1>2. plan \in PlanType
    BY DEF IInv, TypeOK
  <1>3. asset \in AssetType
    BY <1>2, RefsOfPlan
  <1>4. Remote(asset) \in STRING
    BY <1>3, RemoteIsString DEF IInv, KindsAreKept
  <1>5. TypeOK'
    <2>1. ready \subseteq media' \cap VideoMedia /\ media' \subseteq STRING
      BY <1>1, <1>4 DEF IInv, TypeOK
    <2>2. QED BY <1>1, <2>1 DEF IInv, TypeOK, Stages
  <1>6. StopsAreKnown'
    <2>1. SUFFICES ASSUME stage' = "stopped" PROVE Misnamed(plan)
      BY <1>1 DEF StopsAreKnown, Misnamed
    <2>2. ~ProbeAsset(asset.key, {IF asset.video THEN "video" ELSE "image"})
      BY <2>1, <1>1 DEF UploadAsset
    <2>3. PICK i \in DOMAIN plan.ad_sets : \E j \in DOMAIN plan.ad_sets[i].ads :
              asset \in AssetRefs(plan.ad_sets[i].ads[j].creative)
      BY <1>2, RefsOfPlan
    <2>4. FileKind[asset.key] \in {"image", "video"}
      BY <1>1, <2>3, FilesAreUsable DEF IInv
    <2>5. (FileKind[asset.key] = "video") # asset.video
      BY <1>3, <2>2, <2>4 DEF ProbeAsset, AssetType
    <2>6. QED BY <1>1, <2>5 DEF Misnamed
  <1>7. /\ \A type : MinorOf(plan.budget, type)' = MinorOf(plan.budget, type)
        /\ \A i \in DOMAIN plan.ad_sets : MetaAdSet(plan.ad_sets[i])' = MetaAdSet(plan.ad_sets[i])
    BY <1>1 DEF MinorOf, MetaAdSet
  <1>8. CampaignIsPlanned' /\ AdSetsArePlanned'
    BY <1>1, <1>7 DEF IInv, CampaignIsPlanned, AdSetsArePlanned, Started
  <1>9. NotAheadOfStage' /\ StillValid'
    BY <1>1 DEF IInv, NotAheadOfStage, StillValid, Started
  <1>10. AdsArePlanned' /\ KindsAreKept'
    BY <1>1 DEF IInv, AdsArePlanned, KindsAreKept
  <1>11. QED
    BY <1>5, <1>6, <1>8, <1>9, <1>10 DEF IInv

LEMMA InvFinishUploads ==
    ASSUME IInv, FinishUploads
    PROVE  IInv'
  <1>1. /\ stage = "ad_sets_created" /\ stage' = "assets_uploaded"
        /\ UNCHANGED <<brand, plan, account, report, campaign, media, ready, source, shown>>
    BY DEF FinishUploads, meta
  <1>2. TypeOK'
    BY <1>1 DEF IInv, TypeOK, Stages
  <1>3. /\ \A type : MinorOf(plan.budget, type)' = MinorOf(plan.budget, type)
        /\ \A i \in DOMAIN plan.ad_sets : MetaAdSet(plan.ad_sets[i])' = MetaAdSet(plan.ad_sets[i])
    BY <1>1 DEF MinorOf, MetaAdSet
  <1>4. CampaignIsPlanned' /\ AdSetsArePlanned'
    BY <1>1, <1>3 DEF IInv, CampaignIsPlanned, AdSetsArePlanned, Started
  <1>5. NotAheadOfStage' /\ StillValid' /\ StopsAreKnown'
    BY <1>1 DEF IInv, NotAheadOfStage, StillValid, StopsAreKnown, Started
  <1>6. AdsArePlanned' /\ KindsAreKept'
    BY <1>1 DEF IInv, AdsArePlanned, KindsAreKept
  <1>7. QED
    BY <1>2, <1>4, <1>5, <1>6 DEF IInv

LEMMA InvTranscode ==
    ASSUME IInv, NEW x \in VideoMedia, Transcode(x)
    PROVE  IInv'
  <1>1. /\ ready' = ready \cup {x} /\ x \in media
        /\ UNCHANGED <<brand, plan, account, report, stage, campaign, media, source, shown>>
    BY DEF Transcode
  <1>2. TypeOK'
    BY <1>1 DEF IInv, TypeOK
  <1>3. /\ \A type : MinorOf(plan.budget, type)' = MinorOf(plan.budget, type)
        /\ \A i \in DOMAIN plan.ad_sets : MetaAdSet(plan.ad_sets[i])' = MetaAdSet(plan.ad_sets[i])
    BY <1>1 DEF MinorOf, MetaAdSet
  <1>4. CampaignIsPlanned' /\ AdSetsArePlanned'
    BY <1>1, <1>3 DEF IInv, CampaignIsPlanned, AdSetsArePlanned
  <1>5. NotAheadOfStage' /\ StillValid' /\ StopsAreKnown'
    BY <1>1 DEF IInv, NotAheadOfStage, StillValid, StopsAreKnown
  <1>6. AdsArePlanned' /\ KindsAreKept'
    BY <1>1 DEF IInv, AdsArePlanned, KindsAreKept
  <1>7. QED
    BY <1>2, <1>4, <1>5, <1>6 DEF IInv

LEMMA InvFinishBuild ==
    ASSUME IInv, FinishBuild
    PROVE  IInv'
  <1>1. /\ stage = "assets_uploaded" /\ stage' = "ads_created"
        /\ UNCHANGED <<brand, plan, account, report, campaign, media, ready, source, shown>>
    BY DEF FinishBuild, meta
  <1>2. TypeOK'
    BY <1>1 DEF IInv, TypeOK, Stages
  <1>3. /\ \A type : MinorOf(plan.budget, type)' = MinorOf(plan.budget, type)
        /\ \A i \in DOMAIN plan.ad_sets : MetaAdSet(plan.ad_sets[i])' = MetaAdSet(plan.ad_sets[i])
    BY <1>1 DEF MinorOf, MetaAdSet
  <1>4. CampaignIsPlanned' /\ AdSetsArePlanned'
    BY <1>1, <1>3 DEF IInv, CampaignIsPlanned, AdSetsArePlanned, Started
  <1>5. NotAheadOfStage' /\ StillValid' /\ StopsAreKnown'
    BY <1>1 DEF IInv, NotAheadOfStage, StillValid, StopsAreKnown, Started
  <1>6. AdsArePlanned' /\ KindsAreKept'
    BY <1>1 DEF IInv, AdsArePlanned, KindsAreKept
  <1>7. QED
    BY <1>2, <1>4, <1>5, <1>6 DEF IInv

(* What a creative of the plan is created from.                            *)
LEMMA NextRequest ==
    ASSUME IInv, stage = "assets_uploaded", NEW i \in DOMAIN plan.ad_sets, IsNext(i)
    PROVE  LET c == NextAd(i).creative IN
           /\ Len(campaign.ad_sets[i].ads) + 1 \in DOMAIN plan.ad_sets[i].ads
           /\ NextAd(i).name \in STRING
           /\ c \in CreativeType /\ CreativeAccepted(c) /\ Uploadable(c)
           /\ Request(c) \in RequestType
           /\ Request(c).mode \in {"single_image", "single_video"} => Request(c).assets # <<>>
  <1> DEFINE n == Len(campaign.ad_sets[i].ads) + 1
             c == plan.ad_sets[i].ads[n].creative
  <1>1. plan \in PlanType /\ campaign \in MetaCampaignType /\ TypeOK /\ StillValid
        /\ Len(campaign.ad_sets) = Len(plan.ad_sets)
    BY DEF IInv, TypeOK, AdSetsArePlanned, Started
  <1>2. campaign.ad_sets[i].ads \in Seq([name : STRING, creative : MadeCreativeType])
    <2>1. campaign.ad_sets \in Seq(MetaAdSetType)
      BY <1>1 DEF MetaCampaignType
    <2>2. i \in DOMAIN campaign.ad_sets
      BY <1>1, <2>1, PlanParts, MembersOfSequence
    <2>3. campaign.ad_sets[i] \in MetaAdSetType
      BY <2>1, <2>2, MembersOfSequence
    <2>4. QED BY <2>3 DEF MetaAdSetType
  <1>3. n \in DOMAIN plan.ad_sets[i].ads
    <2>1. Len(campaign.ad_sets[i].ads) \in Nat
      BY <1>2, MembersOfSequence
    <2>2. Len(plan.ad_sets[i].ads) \in Nat /\ DOMAIN plan.ad_sets[i].ads = 1 .. Len(plan.ad_sets[i].ads)
      BY <1>1, PlanParts
    <2>3. QED BY <2>1, <2>2 DEF IsNext
  <1>4. c \in CreativeType /\ CreativeAccepted(c)
    <2> HIDE DEF n
    <2>1. QED BY <1>1, <1>3, FilesAreUsable
  <1>5. plan.ad_sets[i].ads[n].name \in STRING
    <2> HIDE DEF n
    <2>1. plan.ad_sets[i].ads[n] \in [name : STRING, creative : CreativeType]
      BY <1>1, <1>3, PlanParts
    <2>2. QED BY <2>1
  <1>6. Uploadable(c)
    <2>1. AssetRefs(c) \subseteq AllRefs(plan)
      <3> HIDE DEF n
      <3>1. QED BY <1>1, <1>3, RefsOfPlan
    <2>2. QED BY <2>1 DEF IInv, KindsAreKept, Uploadable
  <1>7. /\ Request(c) \in RequestType
        /\ c.mode \in {"single_image", "single_video", "multi_variant"} => Request(c).assets # <<>>
    <2> HIDE DEF c
    <2>1. QED BY <1>4, <1>6, RequestIsTyped
  <1>8. Request(c).mode = c.mode
    BY DEF Request
  <1>9. NextAd(i) = plan.ad_sets[i].ads[n]
    BY DEF NextAd
  <1> HIDE DEF n
  <1>10. QED
    BY <1>3, <1>4, <1>5, <1>6, <1>7, <1>8, <1>9 DEF n

LEMMA InvCreateAd ==
    ASSUME IInv, NEW i \in DOMAIN plan.ad_sets, CreateAd(i)
    PROVE  IInv'
  <1> DEFINE r == Request(NextAd(i).creative)
             ad == [name |-> NextAd(i).name, creative |-> Created(r, ready)]
             old == campaign.ad_sets[i]
             new == [old EXCEPT !.ads = Append(old.ads, ad)]
             sets == [campaign.ad_sets EXCEPT ![i] = new]
             Ad == [name : STRING, creative : MadeCreativeType]
  <1>1. /\ stage = "assets_uploaded" /\ IsNext(i) /\ ~Refused(r, VideoMedia)
        /\ UNCHANGED <<brand, plan, account, report, stage, media, ready, source, shown>>
    BY Zenon DEF CreateAd
  <1>2. campaign' = [campaign EXCEPT !.ad_sets = sets]
    BY DEF CreateAd
  <1>3. /\ plan \in PlanType /\ campaign \in MetaCampaignType /\ ready \subseteq VideoMedia
        /\ Len(campaign.ad_sets) = Len(plan.ad_sets)
    BY <1>1 DEF IInv, TypeOK, AdSetsArePlanned, Started
  <1>4. /\ campaign.ad_sets \in Seq(MetaAdSetType) /\ DOMAIN campaign.ad_sets = DOMAIN plan.ad_sets
        /\ DOMAIN plan.ad_sets = 1 .. Len(plan.ad_sets) /\ Len(plan.ad_sets) \in Nat
        /\ \A k \in DOMAIN plan.ad_sets : campaign.ad_sets[k] \in MetaAdSetType
    <2>1. campaign.ad_sets \in Seq(MetaAdSetType)
      BY <1>3 DEF MetaCampaignType
    <2>2. QED BY <2>1, <1>3, PlanParts, MembersOfSequence
  <1>5. old \in MetaAdSetType /\ old.ads \in Seq(Ad)
    BY <1>4 DEF MetaAdSetType
  <1>6. ad \in Ad
    <2>1. r \in RequestType /\ NextAd(i).name \in STRING
          /\ (r.mode \in {"single_image", "single_video"} => r.assets # <<>>)
      BY <1>1, NextRequest
    <2> HIDE DEF r
    <2>2. Created(r, ready) \in MadeCreativeType
      BY <2>1, <1>1, CreatedIsTyped
    <2>3. QED BY <2>1, <2>2
  <1>7. /\ Append(old.ads, ad) \in Seq(Ad) /\ Len(Append(old.ads, ad)) = Len(old.ads) + 1
        /\ DOMAIN Append(old.ads, ad) = 1 .. Len(old.ads) + 1
        /\ \A j \in 1 .. Len(old.ads) : Append(old.ads, ad)[j] = old.ads[j]
        /\ Append(old.ads, ad)[Len(old.ads) + 1] = ad
        /\ Len(old.ads) \in Nat /\ DOMAIN old.ads = 1 .. Len(old.ads)
    <2> HIDE DEF ad, old, Ad
    <2>1. QED BY <1>5, <1>6, AppendProperties, MembersOfSequence
  <1>8. new \in MetaAdSetType /\ new.ads = Append(old.ads, ad)
        /\ [new EXCEPT !.ads = <<>>] = [old EXCEPT !.ads = <<>>]
    <2> HIDE DEF ad, old
    <2>1. QED BY <1>5, <1>7 DEF MetaAdSetType
  <1>9. sets[i] = new /\ DOMAIN sets = DOMAIN plan.ad_sets
        /\ \A k \in DOMAIN plan.ad_sets : k # i => sets[k] = campaign.ad_sets[k]
    <2> HIDE DEF new
    <2>1. QED BY <1>4
  <1>10. sets \in Seq(MetaAdSetType) /\ Len(sets) = Len(plan.ad_sets)
    <2> HIDE DEF new
    <2>1. sets \in [1 .. Len(plan.ad_sets) -> MetaAdSetType]
      BY <1>4, <1>8
    <2> HIDE DEF sets
    <2>2. QED BY <2>1, <1>4, FunctionIsSequence
  <1>11. /\ campaign' \in MetaCampaignType /\ campaign'.ad_sets = sets
         /\ campaign'.account = campaign.account /\ campaign'.campaign = campaign.campaign
    <2> HIDE DEF sets
    <2>1. QED BY <1>2, <1>3, <1>10 DEF MetaCampaignType
  <1> HIDE DEF sets, new, ad, r
  <1>12. TypeOK'
    BY <1>1, <1>10, <1>11 DEF IInv, TypeOK
  <1>13. /\ \A type : MinorOf(plan.budget, type)' = MinorOf(plan.budget, type)
         /\ \A k \in DOMAIN plan.ad_sets : MetaAdSet(plan.ad_sets[k])' = MetaAdSet(plan.ad_sets[k])
    BY <1>1 DEF MinorOf, MetaAdSet
  <1>14. CampaignIsPlanned'
    BY <1>1, <1>11, <1>13 DEF IInv, CampaignIsPlanned
  <1>15. AdSetsArePlanned'
    <2>1. ASSUME NEW k \in DOMAIN plan.ad_sets
          PROVE  /\ [sets[k] EXCEPT !.ads = <<>>] = MetaAdSet(plan.ad_sets[k])
                 /\ Len(sets[k].ads) <= Len(plan.ad_sets[k].ads)
      <3>1. /\ [campaign.ad_sets[k] EXCEPT !.ads = <<>>] = MetaAdSet(plan.ad_sets[k])
            /\ Len(campaign.ad_sets[k].ads) <= Len(plan.ad_sets[k].ads)
        BY <1>1 DEF IInv, AdSetsArePlanned, Started
      <3>2. CASE k # i
        BY <3>1, <3>2, <1>9
      <3>3. CASE k = i
        <4>1. Len(plan.ad_sets[i].ads) \in Nat
          BY <1>3, PlanParts
        <4>2. Len(old.ads) + 1 <= Len(plan.ad_sets[i].ads)
          BY <1>1, <1>7, <4>1 DEF IsNext
        <4>3. sets[k] = new
          BY <3>3, <1>9
        <4>4. QED BY <3>1, <3>3, <4>2, <4>3, <1>7, <1>8
      <3>4. QED BY <3>2, <3>3
    <2>2. QED BY <1>1, <1>10, <1>11, <1>13, <2>1 DEF AdSetsArePlanned
  <1>16. AdsArePlanned'
    <2>1. ASSUME NEW k \in DOMAIN sets, NEW j \in DOMAIN sets[k].ads
          PROVE  LET q == Request(plan.ad_sets[k].ads[j].creative) IN
                 /\ ~Refused(q, VideoMedia)
                 /\ \E videos \in SUBSET VideoMedia : sets[k].ads[j].creative = Created(q, videos)
      <3>1. CASE k # i
        BY <3>1, <1>4, <1>9, <2>1 DEF IInv, AdsArePlanned
      <3>2. CASE k = i
        <4>1. sets[k].ads = Append(old.ads, ad)
          BY <3>2, <1>8, <1>9
        <4>2. CASE j \in 1 .. Len(old.ads)
          <5>1. sets[k].ads[j] = old.ads[j] /\ j \in DOMAIN old.ads
            BY <4>1, <4>2, <1>7
          <5>2. QED BY <5>1, <3>2, <1>4 DEF IInv, AdsArePlanned
        <4>3. CASE j = Len(old.ads) + 1
          <5>1. sets[k].ads[j].creative = Created(r, ready)
            BY <4>1, <4>3, <1>7 DEF ad
          <5>2. r = Request(plan.ad_sets[k].ads[j].creative)
            BY <3>2, <4>3 DEF r, NextAd
          <5>3. QED BY <5>1, <5>2, <1>1, <1>3
        <4>4. j \in 1 .. Len(old.ads) + 1 /\ Len(old.ads) \in Nat
          BY <4>1, <1>7
        <4>5. QED BY <4>2, <4>3, <4>4
      <3>3. QED BY <3>1, <3>2
    <2>2. QED BY <1>1, <1>11, <2>1 DEF AdsArePlanned
  <1>17. NotAheadOfStage' /\ StillValid' /\ StopsAreKnown' /\ KindsAreKept'
    BY <1>1 DEF IInv, NotAheadOfStage, StillValid, StopsAreKnown, KindsAreKept, Started
  <1>18. QED
    BY <1>12, <1>14, <1>15, <1>16, <1>17 DEF IInv

(* One placement is read for each pinned medium: that of an asset with it. *)
LEMMA ParsedPins ==
    ASSUME NEW assets \in Seq([media : STRING, placement : Optional(STRING)])
    PROVE  LET pinned == ParsePlacements(assets) IN
           /\ \A x \in DOMAIN pinned : \E i \in DOMAIN assets :
                  assets[i].media = x /\ assets[i].placement = {pinned[x]}
           /\ \A i \in DOMAIN assets : assets[i].placement # {} => assets[i].media \in DOMAIN pinned
  <1> DEFINE pins == {i \in DOMAIN assets : assets[i].placement # {}}
             LastPin(x) == CHOOSE i \in pins : /\ assets[i].media = x
                                           /\ \A j \in pins : assets[j].media = x => j <= i
             parsed == [x \in {assets[i].media : i \in pins} |->
                           CHOOSE p \in assets[LastPin(x)].placement : TRUE]
  <1>1. ParsePlacements(assets) = parsed
    BY Zenon DEF ParsePlacements
  <1>2. /\ DOMAIN assets = 1 .. Len(assets) /\ Len(assets) \in Nat
        /\ \A i \in DOMAIN assets : assets[i] \in [media : STRING, placement : Optional(STRING)]
    BY MembersOfSequence
  <1>3. ASSUME NEW x \in DOMAIN parsed
        PROVE  \E i \in DOMAIN assets : assets[i].media = x /\ assets[i].placement = {parsed[x]}
    <2> DEFINE T == {i \in pins : assets[i].media = x}
    <2>1. T # {} /\ T \subseteq 1 .. Len(assets)
      BY <1>2
    <2>2. \E i \in T : \A j \in T : j <= i
      <3> HIDE DEF T
      <3>1. QED BY <2>1, <1>2, GreatestMember
    <2>3. \E i \in pins : /\ assets[i].media = x
                         /\ \A j \in pins : assets[j].media = x => j <= i
      BY <2>2
    <2>4. LastPin(x) \in pins /\ assets[LastPin(x)].media = x
      BY <2>3
    <2>5. parsed[x] = CHOOSE p \in assets[LastPin(x)].placement : TRUE
      OBVIOUS
    <2> HIDE DEF parsed, LastPin
    <2>6. assets[LastPin(x)].placement = {parsed[x]}
      BY <2>4, <2>5, <1>2 DEF Optional
    <2>7. QED BY <2>4, <2>6
  <1>4. ASSUME NEW i \in DOMAIN assets, assets[i].placement # {}
        PROVE  assets[i].media \in DOMAIN parsed
    BY <1>4
  <1> HIDE DEF parsed
  <1>5. QED
    BY <1>1, <1>3, <1>4

LEMMA RequestOfFeed ==
    ASSUME NEW c \in CreativeType, c.mode = "multi_variant"
    PROVE  /\ Request(c).assets = [i \in DOMAIN c.assets |-> RequestAsset(c.assets[i])]
           /\ Media(Request(c).assets) = {Remote(a) : a \in Assets(c)}
           /\ \A i \in DOMAIN Request(c).assets :
                 /\ i \in DOMAIN c.assets /\ c.assets[i] \in Assets(c)
                 /\ Request(c).assets[i].media = Remote(c.assets[i])
                 /\ Request(c).assets[i].placement = c.assets[i].placement
           /\ \A a \in Assets(c) : \E i \in DOMAIN Request(c).assets : a = c.assets[i]
  <1>1. Request(c).assets = [i \in DOMAIN c.assets |-> RequestAsset(c.assets[i])]
    BY DEF Request
  <1>2. \A i \in DOMAIN c.assets : c.assets[i] \in Assets(c)
    BY RefsAreTyped
  <1>3. \A a \in Assets(c) : \E i \in DOMAIN c.assets : a = c.assets[i]
    BY DEF Assets, ToSet
  <1>4. \A i \in DOMAIN Request(c).assets :
            /\ i \in DOMAIN c.assets
            /\ Request(c).assets[i].media = Remote(c.assets[i])
            /\ Request(c).assets[i].placement = c.assets[i].placement
    BY <1>1 DEF RequestAsset
  <1>5. DOMAIN Request(c).assets = DOMAIN c.assets
    BY <1>1
  <1>6. Media(Request(c).assets) = {Remote(a) : a \in Assets(c)}
    <2>1. ASSUME NEW x \in Media(Request(c).assets) PROVE \E a \in Assets(c) : x = Remote(a)
      <3>1. PICK i \in DOMAIN Request(c).assets : x = Request(c).assets[i].media
        BY DEF Media, ToSet
      <3>2. QED BY <3>1, <1>2, <1>4
    <2>2. ASSUME NEW a \in Assets(c) PROVE Remote(a) \in Media(Request(c).assets)
      <3>1. PICK i \in DOMAIN c.assets : a = c.assets[i]
        BY <1>3
      <3>2. Request(c).assets[i].media = Remote(a)
        BY <3>1, <1>4, <1>5
      <3>3. QED BY <3>2, <1>5 DEF Media, ToSet
    <2>3. QED BY <2>1, <2>2
  <1>7. QED
    BY <1>1, <1>2, <1>3, <1>4, <1>5, <1>6

LEMMA FewMediaAreCounted ==
    ASSUME NEW c \in CreativeType
    PROVE  Cardinality({Remote(a) : a \in Assets(c)} \cap VideoMedia) \in Nat
  <1> DEFINE M == {Remote(a) : a \in Assets(c)}
             f == [i \in DOMAIN c.assets |-> Remote(c.assets[i])]
  <1>1. DOMAIN c.assets = 1 .. Len(c.assets) /\ Len(c.assets) \in Nat
    <2>1. c.assets \in Seq(AssetType)
      BY DEF CreativeType
    <2>2. QED BY <2>1, MembersOfSequence
  <1>2. f \in [DOMAIN c.assets -> M]
    BY RefsAreTyped
  <1>3. \A x \in M : \E i \in DOMAIN c.assets : f[i] = x
    BY DEF Assets, ToSet
  <1> HIDE DEF f, M
  <1>4. f \in Surjection(1 .. Len(c.assets), M)
    BY <1>1, <1>2, <1>3 DEF Surjection
  <1>5. IsFiniteSet(M)
    BY <1>1, <1>4, FS_Interval, FS_Surjection
  <1>6. IsFiniteSet(M \cap VideoMedia)
    BY <1>5, FS_Subset
  <1>7. QED
    BY <1>6, FS_CardinalityType DEF M

(* What `create-creative' refuses of a plan that validated.                *)
LEMMA RefusedIsKnown ==
    ASSUME NEW c \in CreativeType, CreativeAccepted(c), Uploadable(c), c.page # {},
           \A a \in AssetRefs(c) : a.sources = {"local_path"} => (FileKind[a.key] = "video") = a.video,
           ~Twins(c), ~SeveralVideos(c)
    PROVE  ~Refused(Request(c), VideoMedia)
  <1> DEFINE r == Request(c)
  <1>1. /\ r.mode = c.mode /\ r.page = c.page /\ r.url = c.url /\ r.post = c.post
        /\ r.instagram_media = c.instagram_media /\ r.instagram_account = c.instagram_account
        /\ r.variants = c.variants /\ r \in RequestType
        /\ DOMAIN r.cards = DOMAIN c.cards
    BY RequestIsTyped DEF Request
  <1>2. \A a \in AssetRefs(c) : a.video = (Remote(a) \in VideoMedia)
    BY KindsAssumption, RefsAreTyped DEF Uploadable, Remote, AssetType
  <1>3. OptionsGiven(r)
    <2>1. CASE c.mode = "existing_post"
      BY <2>1, <1>1 DEF OptionsGiven, CreativeAccepted, ExistingPostAccepted
    <2>2. CASE c.mode = "carousel"
      <3>1. c.url # {} /\ Len(c.variants) = 1
        BY <2>2 DEF CreativeAccepted, CarouselAccepted
      <3>2. c.variants = <<>> => Len(c.variants) = 0
        OBVIOUS
      <3>3. QED BY <2>2, <3>1, <3>2, <1>1 DEF OptionsGiven
    <2>3. CASE c.mode \notin {"existing_post", "carousel"}
      BY <2>3, <1>1 DEF OptionsGiven, CreativeAccepted, FromAssetsAccepted
    <2>4. QED BY <2>1, <2>2, <2>3
  <1>4. ~(r.mode = "existing_post" /\ PostRefused(r))
    BY <1>1 DEF PostRefused, CreativeAccepted, ExistingPostAccepted
  <1>5. ~(r.mode = "single_video" /\ Videos(r, VideoMedia) = {})
    <2>1. SUFFICES ASSUME c.mode = "single_video" PROVE Videos(r, VideoMedia) # {}
      BY <1>1
    <2> DEFINE video == CHOOSE a \in Assets(c) : a.video
    <2>2. video \in Assets(c) /\ video.video
      BY <2>1 DEF CreativeAccepted, FromAssetsAccepted
    <2>3. r.assets = [i \in DOMAIN <<video>> |-> RequestAsset(<<video>>[i])]
      BY <2>1 DEF Request
    <2> HIDE DEF video
    <2>4. 1 \in DOMAIN r.assets /\ r.assets[1].media = Remote(video)
      BY <2>3 DEF RequestAsset
    <2>5. Remote(video) \in Media(r.assets)
      BY <2>4 DEF Media, ToSet
    <2>6. Remote(video) \in VideoMedia
      BY <2>2, <1>2, RefsAreTyped
    <2>7. QED BY <2>5, <2>6 DEF Videos
  <1>6. ~(r.mode = "carousel" /\ Len(r.cards) \notin CAROUSEL_MIN_CARDS .. CAROUSEL_MAX_CARDS)
    <2>1. r.cards \in Seq([media : STRING, link : Optional(UrlType), still : BOOLEAN])
          /\ c.cards \in Seq(CardType)
      BY <1>1 DEF RequestType, CreativeType
    <2>2. 1 .. Len(r.cards) = 1 .. Len(c.cards) /\ Len(r.cards) \in Nat /\ Len(c.cards) \in Nat
      BY <2>1, <1>1, MembersOfSequence
    <2>3. Len(r.cards) = Len(c.cards)
      BY <2>2
    <2>4. QED BY <2>3, <1>1 DEF CreativeAccepted, CarouselAccepted
  <1>7. ~(r.mode = "multi_variant" /\ (FeedRefused(r, VideoMedia) \/ ~OneVideoId(r, VideoMedia)))
    <2>1. SUFFICES ASSUME c.mode = "multi_variant"
                   PROVE  ~FeedRefused(r, VideoMedia) /\ OneVideoId(r, VideoMedia)
      BY <1>1
    <2> DEFINE pinned == ParsePlacements(r.assets)
    <2>2. /\ c.variants # <<>> /\ c.assets # <<>>
          /\ \A a, b \in Assets(c) : a.video = b.video
          /\ \A a \in Assets(c) : a.placement \subseteq Placements
          /\ Pinned(c) # {} => Pinned(c) # Assets(c)
      BY <2>1 DEF CreativeAccepted, FromAssetsAccepted, AssetAccepted, PinsAccepted
    <2>3. r.assets # <<>>
      BY <2>1, RequestIsTyped
    <2>4. \A a \in Assets(c) : a.video = (Remote(a) \in VideoMedia)
      BY <1>2, RefsAreTyped
    <2>5. ~(Videos(r, VideoMedia) # {} /\ Media(r.assets) \ VideoMedia # {})
      <3>1. SUFFICES ASSUME NEW x \in Videos(r, VideoMedia), NEW y \in Media(r.assets) \ VideoMedia
                     PROVE  FALSE
        OBVIOUS
      <3>2. Media(r.assets) = {Remote(a) : a \in Assets(c)}
        BY <2>1, RequestOfFeed
      <3>3. PICK a \in Assets(c) : x = Remote(a) /\ x \in VideoMedia
        BY <3>2 DEF Videos
      <3>4. PICK b \in Assets(c) : y = Remote(b) /\ y \notin VideoMedia
        BY <3>2
      <3>5. QED BY <3>3, <3>4, <2>2, <2>4
    <2>6. r.assets \in Seq([media : STRING, placement : Optional(STRING)])
      BY <1>1 DEF RequestType
    <2>7. ASSUME NEW x \in DOMAIN pinned
          PROVE  \E a \in Assets(c) : Remote(a) = x /\ a.placement = {pinned[x]}
      <3>1. PICK i \in DOMAIN r.assets : r.assets[i].media = x /\ r.assets[i].placement = {pinned[x]}
        BY <2>6, ParsedPins
      <3>2. /\ c.assets[i] \in Assets(c)
            /\ r.assets[i].media = Remote(c.assets[i])
            /\ r.assets[i].placement = c.assets[i].placement
        BY <2>1, <3>1, RequestOfFeed
      <3>3. QED BY <3>1, <3>2
    <2> HIDE DEF pinned
    <2>8. \A x \in DOMAIN pinned : pinned[x] \in Placements
      BY <2>2, <2>7
    <2>9. ~(DOMAIN pinned # {} /\ Media(r.assets) \subseteq DOMAIN pinned)
      <3>1. SUFFICES ASSUME DOMAIN pinned # {}, Media(r.assets) \subseteq DOMAIN pinned
                     PROVE  FALSE
        OBVIOUS
      <3>2. PICK a \in Assets(c) : a.placement = {}
        BY <3>1, <2>2, <2>7 DEF Pinned
      <3>3. Remote(a) \in DOMAIN pinned
        BY <3>1, <2>1, RequestOfFeed
      <3>4. QED BY <3>2, <3>3, <2>7 DEF Twins
    <2>10. OneVideoId(r, VideoMedia)
      <3>1. Videos(r, VideoMedia) = {Remote(a) : a \in Assets(c)} \cap VideoMedia
        BY <2>1, RequestOfFeed DEF Videos
      <3>2. ~(Cardinality({Remote(a) : a \in Assets(c)} \cap VideoMedia) > 1)
        BY <2>1 DEF SeveralVideos
      <3>3. QED BY <3>1, <3>2, FewMediaAreCounted DEF OneVideoId
    <2>11. QED
      BY <2>2, <2>3, <2>5, <2>8, <2>9, <2>10, <1>1 DEF FeedRefused, pinned
  <1> HIDE DEF r
  <1>8. QED
    BY <1>3, <1>4, <1>5, <1>6, <1>7 DEF Refused, r

LEMMA InvCreateAdRefused ==
    ASSUME IInv, NEW i \in DOMAIN plan.ad_sets, CreateAdRefused(i)
    PROVE  IInv'
  <1>1. /\ stage = "assets_uploaded" /\ IsNext(i) /\ stage' = "stopped"
        /\ Refused(Request(NextAd(i).creative), VideoMedia)
        /\ UNCHANGED <<brand, plan, account, report, campaign, media, ready, source, shown>>
    BY DEF CreateAdRefused, meta
  <1>2. TypeOK'
    BY <1>1 DEF IInv, TypeOK, Stages
  <1>3. StopsAreKnown'
    <2> DEFINE n == Len(campaign.ad_sets[i].ads) + 1
               c == NextAd(i).creative
    <2>1. SUFFICES ASSUME ~Misnamed(plan) PROVE c \in PlannedCreatives(plan) /\ (Twins(c) \/ SeveralVideos(c))
      BY <1>1 DEF StopsAreKnown, Misnamed, PlannedCreatives
    <2>2. /\ n \in DOMAIN plan.ad_sets[i].ads
          /\ c \in CreativeType /\ CreativeAccepted(c) /\ Uploadable(c)
      BY <1>1, NextRequest
    <2>3. NextAd(i) = plan.ad_sets[i].ads[n]
      BY DEF NextAd
    <2> HIDE DEF n
    <2>4. c.page # {}
      BY <1>1, <2>2, <2>3, FilesAreUsable DEF IInv
    <2>5. AssetRefs(c) \subseteq AllRefs(plan) /\ c \in PlannedCreatives(plan)
      <3>1. AssetRefs(c) \subseteq AllRefs(plan)
        BY <2>2, <2>3, RefsOfPlan DEF IInv, TypeOK
      <3>2. plan.ad_sets[i] \in AdSets(plan) /\ NextAd(i) \in ToSet(plan.ad_sets[i].ads)
        BY <2>2, <2>3, PlanParts DEF IInv, TypeOK
      <3>3. QED BY <3>1, <3>2 DEF PlannedCreatives
    <2>6. \A a \in AssetRefs(c) : a.sources = {"local_path"} => (FileKind[a.key] = "video") = a.video
      <3>1. \A a \in AssetRefs(c) : a.video \in BOOLEAN
        BY <2>2, RefsAreTyped DEF AssetType
      <3>2. QED BY <2>1, <2>5, <3>1 DEF Misnamed
    <2> HIDE DEF c
    <2>7. Twins(c) \/ SeveralVideos(c)
      BY <1>1, <2>2, <2>4, <2>6, RefusedIsKnown DEF c
    <2>8. QED BY <2>5, <2>7
  <1>4. /\ \A type : MinorOf(plan.budget, type)' = MinorOf(plan.budget, type)
        /\ \A k \in DOMAIN plan.ad_sets : MetaAdSet(plan.ad_sets[k])' = MetaAdSet(plan.ad_sets[k])
    BY <1>1 DEF MinorOf, MetaAdSet
  <1>5. CampaignIsPlanned' /\ AdSetsArePlanned'
    BY <1>1, <1>4 DEF IInv, CampaignIsPlanned, AdSetsArePlanned, Started
  <1>6. NotAheadOfStage' /\ StillValid'
    BY <1>1 DEF IInv, NotAheadOfStage, StillValid, Started
  <1>7. AdsArePlanned' /\ KindsAreKept'
    BY <1>1 DEF IInv, AdsArePlanned, KindsAreKept
  <1>8. QED
    BY <1>2, <1>3, <1>5, <1>6, <1>7 DEF IInv

(***************************************************************************)
(* After the build.                                                        *)
(***************************************************************************)
LEMMA TheAccount ==
    ASSUME IInv, stage \in Started
    PROVE  /\ plan.ad_account_id \in DOMAIN RealCurrency /\ campaign.account = plan.ad_account_id
           /\ RealCurrency[plan.ad_account_id] \in STRING /\ RealOffset[plan.ad_account_id] \in Offsets
           /\ account # {}
           /\ \A a \in account : a \in Readings /\ a.id = plan.ad_account_id
  <1>1. account # {} /\ account \subseteq Readings /\ campaign.account = plan.ad_account_id
    BY DEF IInv, TypeOK, CampaignIsPlanned, Optional
  <1>2. PlanIsSound(plan, account)
    BY PlanInHand DEF IInv, Started
  <1>3. \A a \in account : a \in Readings /\ a.id = plan.ad_account_id /\ a.id \in DOMAIN RealCurrency
    BY <1>1, <1>2, ReadingsAssumption DEF PlanIsSound
  <1>4. QED
    BY <1>1, <1>3, AccountsAssumption

LEMMA WholeChange ==
    ASSUME NEW from \in Nat, from # 0, NEW to \in Int
    PROVE  HalfUp(1000 * (to - from), from) \in Int
  <1> DEFINE n == 1000 * (to - from)
  <1>1. n \in Int /\ 2 * from \in Int /\ 2 * from > 0
    OBVIOUS
  <1>2. 2 * n + from \in Int /\ from - 2 * n \in Int
    BY <1>1
  <1> HIDE DEF n
  <1>3. (2 * n + from) \div (2 * from) \in Int /\ (from - 2 * n) \div (2 * from) \in Int
    BY <1>1, <1>2
  <1>4. QED
    BY <1>3 DEF HalfUp, n

LEMMA InvChangeBudget ==
    ASSUME IInv, NEW amount \in NewBudgets, ChangeBudget(amount)
    PROVE  IInv'
  <1> DEFINE currency == RealCurrency[plan.ad_account_id]
             offset == AccountOffset(account, currency)
             u == SmallestUnit(Scale(currency, offset))
             old == FromMinor(campaign.campaign.daily, currency, offset)
             new == FromDisplay(amount, currency, offset)
  <1>1. /\ stage = "ads_created" /\ shown = {} /\ campaign.campaign.daily # 0
        /\ CanResolve(amount, currency, account)
        /\ shown' = {DescribeChange(old, new)}
        /\ UNCHANGED <<brand, plan, account, report, stage, media, ready, source>>
    BY Zenon DEF ChangeBudget
  <1>2. campaign' = [campaign EXCEPT !.campaign.daily = new.minor]
    BY DEF ChangeBudget
  <1>3. currency \in STRING
    BY <1>1, TheAccount DEF Started
  <1>4. campaign \in MetaCampaignType /\ campaign.campaign.daily \in Nat
    BY <1>1 DEF IInv, TypeOK, CampaignIsPlanned, Started, MetaCampaignType
  <1>5. u \in {10000, 1000, 100, 10, 1} /\ amount % u = 0 /\ amount \in Nat /\ amount > 0
        /\ Scale(currency, offset) \in Offsets
    <2>1. Scale(currency, offset) \in Offsets /\ amount % u = 0
      BY <1>1 DEF CanResolve, Representable, HasScale
    <2>2. amount \in Nat /\ amount > 0
      BY TypesAssumption
    <2>3. QED BY <2>1, <2>2, UnitIsPower
  <1>6. /\ new.minor = amount \div u /\ new.currency = currency /\ new.offset = Scale(currency, offset)
        /\ old.minor = campaign.campaign.daily /\ old.currency = currency
        /\ old.offset = Scale(currency, offset)
    BY DEF FromDisplay, FromMinor
  <1>7. amount \div u \in Int /\ amount \div u > 0
    <2> HIDE DEF u
    <2>1. (amount \div u) * u = amount /\ amount \div u \in Int
      BY <1>5, UnitsCancel
    <2>2. QED BY <1>5, <2>1
  <1> HIDE DEF new, old
  <1>8. DescribeChange(old, new) \in ChangeType
    <2>1. Display(old) \in Int /\ Display(new) \in Int
      <3>1. Display(old) = old.minor * u /\ Display(new) = new.minor * u
        BY <1>6 DEF Display
      <3> HIDE DEF u
      <3>2. QED BY <3>1, <1>4, <1>5, <1>6, <1>7
    <2>2. PctChange(old, new) \subseteq Int
      <3>1. HalfUp(1000 * (new.minor - old.minor), old.minor) \in Int
        BY <1>1, <1>4, <1>6, <1>7, WholeChange
      <3>2. QED BY <3>1 DEF PctChange
    <2>3. Direction(old, new) \in {"increase", "decrease", "unchanged"}
      BY DEF Direction
    <2>4. QED BY <2>1, <2>2, <2>3, <1>3, <1>6 DEF DescribeChange, ChangeType
  <1>9. /\ campaign' \in MetaCampaignType /\ campaign'.ad_sets = campaign.ad_sets
        /\ campaign'.account = campaign.account
        /\ campaign'.campaign.lifetime = campaign.campaign.lifetime
        /\ campaign'.campaign.daily = new.minor
    <2> DEFINE c == campaign.campaign
    <2>1. [campaign EXCEPT !.campaign.daily = new.minor] = [campaign EXCEPT !.campaign = [c EXCEPT !.daily = new.minor]]
      OBVIOUS
    <2>2. QED BY <2>1, <1>2, <1>4, <1>6, <1>7 DEF MetaCampaignType
  <1>10. TypeOK'
    <2>1. shown' \in Optional(ChangeType)
      BY <1>1, <1>8 DEF Optional
    <2>2. QED BY <1>1, <1>9, <2>1 DEF IInv, TypeOK
  <1>11. /\ \A type : MinorOf(plan.budget, type)' = MinorOf(plan.budget, type)
         /\ \A k \in DOMAIN plan.ad_sets : MetaAdSet(plan.ad_sets[k])' = MetaAdSet(plan.ad_sets[k])
    BY <1>1 DEF MinorOf, MetaAdSet
  <1>12. CampaignIsPlanned'
    <2>1. shown' # {}
      BY <1>1
    <2>2. new.minor \in Int /\ new.minor > 0
      BY <1>6, <1>7
    <2>3. MinorOf(plan.budget, "daily") # 0
      BY <1>1 DEF IInv, CampaignIsPlanned, Started
    <2>4. QED BY <1>1, <1>9, <1>11, <2>1, <2>2, <2>3 DEF IInv, CampaignIsPlanned, Started
  <1>13. AdSetsArePlanned' /\ AdsArePlanned'
    BY <1>1, <1>9, <1>11 DEF IInv, AdSetsArePlanned, AdsArePlanned, Started
  <1>14. NotAheadOfStage' /\ StillValid' /\ StopsAreKnown' /\ KindsAreKept'
    BY <1>1 DEF IInv, NotAheadOfStage, StillValid, StopsAreKnown, KindsAreKept, Started
  <1>15. QED
    BY <1>10, <1>12, <1>13, <1>14 DEF IInv

(***************************************************************************)
(* The copy.                                                               *)
(***************************************************************************)
(* What a source has of money: a code of at most one currency, and a scale *)
(* that is one, or none.                                                   *)
IsScale(offset) == offset \in Offsets \cup {NotGiven}

LEMMA AmountsAreTyped ==
    ASSUME NEW minor \in Int, NEW code \in Optional(STRING), NEW offset, IsScale(offset),
           ~AmountRefused(minor, code, offset)
    PROVE  Amounts(minor, code, offset) \in Optional(Int)
  <1>1. CASE minor = 0
    BY <1>1 DEF Amounts, Optional
  <1>2. CASE minor # 0
    <2>1. \A c \in code : Display(FromMinor(minor, c, offset)) \in Int
      <3>1. SUFFICES ASSUME NEW c \in code PROVE Display(FromMinor(minor, c, offset)) \in Int
        OBVIOUS
      <3> DEFINE scale == Scale(c, offset)
      <3>2. scale \in Offsets
        BY <1>2 DEF AmountRefused, HasScale
      <3>3. SmallestUnit(scale) \in {10000, 1000, 100, 10, 1}
        BY <3>2, UnitIsPower
      <3>4. Display(FromMinor(minor, c, offset)) = minor * SmallestUnit(scale)
        BY DEF Display, FromMinor
      <3> HIDE DEF scale
      <3>5. minor * SmallestUnit(scale) \in Int
        BY <3>3
      <3>6. QED BY <3>4, <3>5
    <2>2. Amounts(minor, code, offset) = {Display(FromMinor(minor, c, offset)) : c \in code}
      BY <1>2 DEF Amounts
    <2>3. QED BY <2>1, <2>2 DEF Optional
  <1>3. QED BY <1>1, <1>2

LEMMA BudgetIsTyped ==
    ASSUME NEW obj, obj.daily \in Int, obj.lifetime \in Int, NEW level \in {"campaign", "ad_set"},
           NEW code \in Optional(STRING), NEW offset, IsScale(offset),
           ~AmountRefused(obj.daily, code, offset), ~AmountRefused(obj.lifetime, code, offset)
    PROVE  CopiedBudget(obj, level, code, offset) \in Optional(BudgetType)
  <1> DEFINE type == IF obj.daily # 0 THEN "daily" ELSE "lifetime"
             minor == IF obj.daily # 0 THEN obj.daily ELSE obj.lifetime
             amounts == Amounts(minor, code, offset)
  <1>1. minor \in Int /\ ~AmountRefused(minor, code, offset) /\ type \in {"daily", "lifetime"}
    OBVIOUS
  <1>2. amounts \in Optional(Int)
    <2> HIDE DEF minor
    <2>1. QED BY <1>1, AmountsAreTyped
  <1>3. CopiedBudget(obj, level, code, offset) = {Budget(level, type, amount, c) : amount \in amounts, c \in code}
    BY DEF CopiedBudget
  <1> HIDE DEF amounts, type
  <1>4. \A amount \in amounts, c \in code : Budget(level, type, amount, c) \in BudgetType
    BY <1>1, <1>2 DEF Budget, BudgetType, Optional
  <1>5. \A a, b \in amounts, c, d \in code : Budget(level, type, a, c) = Budget(level, type, b, d)
    BY <1>2 DEF Optional
  <1> DEFINE budgets == {Budget(level, type, amount, c) : amount \in amounts, c \in code}
  <1>6. budgets \subseteq BudgetType
    BY <1>4
  <1>7. \A x, y \in budgets : x = y
    BY <1>5
  <1>8. QED
    BY <1>3, <1>6, <1>7 DEF Optional

LEMMA CopiedTargetingIsTyped ==
    ASSUME NEW t \in MetaTargetingType
    PROVE  CopiedTargeting(t) \in TargetingType /\ CopiedPlacements(t) \in PlacementsType
  <1>1. CopiedTargeting(t) \in TargetingType
    <2>1. {} \in Optional(Int \X Int) /\ {} \in SUBSET STRING
      BY DEF Optional
    <2>2. PlacementKeysOf(t) \subseteq STRING
      BY LiteralsAssumption DEF PlacementKeysOf
    <2>3. t.other \cup PlacementKeysOf(t) \in SUBSET STRING
      BY <2>2 DEF MetaTargetingType
    <2> HIDE DEF PlacementKeysOf
    <2>4. QED BY <2>1, <2>3 DEF CopiedTargeting, TargetingType, MetaTargetingType
  <1>2. CopiedPositions(t) \subseteq STRING
    <2> DEFINE Own(platform) == {p \in t.positions : PlatformOf(p) = {platform}}
               Where(platform) == IF Own(platform) = {} THEN {platform} ELSE Own(platform)
    <2>1. CopiedPositions(t) = UNION {Where(platform) : platform \in t.publisher_platforms}
      BY Zenon DEF CopiedPositions
    <2>2. t.publisher_platforms \subseteq STRING /\ t.positions \subseteq STRING
      BY LiteralsAssumption DEF MetaTargetingType
    <2>3. \A platform \in t.publisher_platforms : Where(platform) \subseteq STRING
      BY <2>2
    <2> HIDE DEF Where
    <2>4. QED BY <2>1, <2>3
  <1>3. CopiedPlacements(t).mode \in {"automatic", "manual"}
    BY DEF CopiedPlacements
  <1>4. QED
    BY <1>1, <1>2, <1>3 DEF CopiedPlacements, PlacementsType

LEMMA CopiedCreativeIsTyped ==
    ASSUME NEW c \in MadeCreativeType, ~CreativeRefused(c)
    PROVE  /\ CopiedCreative(c, VideoMedia) \in CreativeType
           /\ \A a \in AssetRefs(CopiedCreative(c, VideoMedia)) :
                  a.sources # {"local_path"} /\ a.video = (a.key \in VideoMedia)
  <1> DEFINE copy == CopiedCreative(c, VideoMedia)
             assets == [i \in DOMAIN c.media |-> FromMedia(c.media[i].media, VideoMedia)]
             cards == [i \in DOMAIN c.cards |->
                          [asset |-> FromMedia(c.cards[i].media, VideoMedia), link |-> c.cards[i].link]]
  <1>0. {} \in Optional(STRING) /\ {} \in Optional(UrlType) /\ {} \in SUBSET STRING
    BY DEF Optional
  <1>1. /\ <<>> \in Seq(AssetType) /\ <<>> \in Seq(CardType) /\ <<>> \in Seq(VariantType)
    BY EmptySeq
  <1>a. /\ c.page \in Optional(STRING) /\ c.instagram_account \in Optional(STRING)
        /\ c.url \in Optional(UrlType)
    BY DEF MadeCreativeType
  <1>2. \A x \in STRING : /\ FromMedia(x, VideoMedia) \in AssetType
                         /\ FromMedia(x, VideoMedia).sources # {"local_path"}
                         /\ FromMedia(x, VideoMedia).video = (FromMedia(x, VideoMedia).key \in VideoMedia)
    <2>1. SUFFICES ASSUME NEW x \in STRING
                   PROVE  /\ FromMedia(x, VideoMedia) \in AssetType
                          /\ FromMedia(x, VideoMedia).sources # {"local_path"}
                          /\ FromMedia(x, VideoMedia).video = (FromMedia(x, VideoMedia).key \in VideoMedia)
      OBVIOUS
    <2>2. (x \in VideoMedia) \in BOOLEAN
      OBVIOUS
    <2>3. {IF x \in VideoMedia THEN "video_id" ELSE "image_hash"} \in SUBSET Sources
          /\ {IF x \in VideoMedia THEN "video_id" ELSE "image_hash"} # {"local_path"}
      BY DEF Sources
    <2>4. QED BY <2>2, <2>3, <1>0 DEF FromMedia, AssetType
  <1>3. /\ DOMAIN c.media = 1 .. Len(c.media) /\ Len(c.media) \in Nat
        /\ \A i \in DOMAIN c.media : c.media[i].media \in STRING
    <2> DEFINE Medium == [media : STRING, label : Optional(Placements)]
    <2>1. c.media \in Seq(Medium)
      BY DEF MadeCreativeType
    <2> HIDE DEF Medium
    <2>2. DOMAIN c.media = 1 .. Len(c.media) /\ Len(c.media) \in Nat
          /\ \A i \in DOMAIN c.media : c.media[i] \in Medium
      BY <2>1, MembersOfSequence
    <2>3. QED BY <2>2 DEF Medium
  <1>4. /\ DOMAIN c.cards = 1 .. Len(c.cards) /\ Len(c.cards) \in Nat
        /\ \A i \in DOMAIN c.cards : c.cards[i].media \in STRING /\ c.cards[i].link \in Optional(UrlType)
    <2> DEFINE Card == [media : STRING, link : Optional(UrlType)]
    <2>1. c.cards \in Seq(Card)
      BY DEF MadeCreativeType
    <2> HIDE DEF Card
    <2>2. DOMAIN c.cards = 1 .. Len(c.cards) /\ Len(c.cards) \in Nat
          /\ \A i \in DOMAIN c.cards : c.cards[i] \in Card
      BY <2>1, MembersOfSequence
    <2>3. QED BY <2>2 DEF Card
  <1>5. assets \in Seq(AssetType)
    <2>1. assets \in [1 .. Len(c.media) -> AssetType]
      BY <1>2, <1>3
    <2>2. QED BY <2>1, <1>3, FunctionIsSequence
  <1>6. cards \in Seq(CardType)
    <2>1. cards \in [1 .. Len(c.cards) -> CardType]
      BY <1>2, <1>4 DEF CardType
    <2>2. QED BY <2>1, <1>4, FunctionIsSequence
  <1>7. CASE c.shape \in {"post", "instagram_post"}
    <2>1. \E page \in {{}, c.page}, actor \in {{}, c.instagram_account}, post, instagram \in BOOLEAN :
              copy = [mode |-> "existing_post", url |-> {}, page |-> page,
                      instagram_account |-> actor, post |-> post,
                      instagram_media |-> instagram, assets |-> <<>>, cards |-> <<>>,
                      variants |-> <<>>, enhancements |-> {}]
      BY <1>7 DEF CopiedCreative, CopiedPost, NoCreative
    <2>2. copy \in CreativeType
      <3> HIDE DEF copy
      <3>1. "existing_post" \in Modes
        BY DEF Modes
      <3>2. PICK page \in {{}, c.page}, actor \in {{}, c.instagram_account}, post, instagram \in BOOLEAN :
              copy = [mode |-> "existing_post", url |-> {}, page |-> page,
                      instagram_account |-> actor, post |-> post,
                      instagram_media |-> instagram, assets |-> <<>>, cards |-> <<>>,
                      variants |-> <<>>, enhancements |-> {}]
        BY <2>1
      <3>3. page \in Optional(STRING) /\ actor \in Optional(STRING)
        BY <1>0, <1>a
      <3>4. QED BY <3>1, <3>2, <3>3, <1>0, <1>1 DEF CreativeType
    <2>3. AssetRefs(copy) = {}
      <3>1. copy.assets = <<>> /\ copy.cards = <<>>
        BY <2>1
      <3>2. ToSet(<<>>) = {}
        BY DEF ToSet
      <3> HIDE DEF copy
      <3>3. QED BY <3>1, <3>2 DEF AssetRefs, Assets
    <2>4. QED BY <2>2, <2>3
  <1>8. CASE c.shape \notin {"post", "instagram_post"}
    <2> DEFINE variants == <<CopiedVariant(Head(c.variants))>>
    <2>1. c.shape \in {"link", "video"} /\ c.variants # <<>>
      BY <1>8 DEF CreativeRefused, MadeCreativeType
    <2>2. variants \in Seq(VariantType)
      <3>1. Head(c.variants) \in VariantType
        BY <2>1, MembersOfSequence DEF MadeCreativeType
      <3>2. CopiedVariant(Head(c.variants)) \in VariantType
        BY <3>1, LiteralsAssumption DEF CopiedVariant, VariantType
      <3>3. QED BY <3>2
    <2>3. \E mode \in Modes :
              copy = [mode |-> mode, url |-> c.url, page |-> c.page,
                      instagram_account |-> c.instagram_account, post |-> FALSE,
                      instagram_media |-> FALSE, assets |-> assets, cards |-> cards,
                      variants |-> variants, enhancements |-> {}]
      BY <1>8 DEF CopiedCreative, CopiedLink, NoCreative, Modes
    <2> HIDE DEF assets, cards, variants, copy
    <2>4. copy \in CreativeType
      BY <2>2, <2>3, <1>0, <1>a, <1>5, <1>6 DEF CreativeType
    <2>5. ASSUME NEW a \in AssetRefs(copy)
          PROVE  a.sources # {"local_path"} /\ a.video = (a.key \in VideoMedia)
      <3>1. copy.assets = assets /\ copy.cards = cards
        BY <2>3
      <3>2. \E x \in STRING : a = FromMedia(x, VideoMedia)
        <4>1. CASE a \in ToSet(assets)
          BY <4>1, <1>3 DEF ToSet, assets
        <4>2. CASE \E card \in ToSet(cards) : a = card.asset
          <5>1. PICK i \in DOMAIN c.cards : a = cards[i].asset
            BY <4>2 DEF ToSet, cards
          <5>2. a = FromMedia(c.cards[i].media, VideoMedia)
            BY <5>1 DEF cards
          <5>3. QED BY <5>2, <1>4
        <4>3. QED BY <4>1, <4>2, <3>1 DEF AssetRefs, Assets
      <3>3. QED BY <3>2, <1>2
    <2>6. QED BY <2>4, <2>5 DEF copy
  <1>9. QED
    BY <1>7, <1>8

LEMMA CopiedAdSetIsTyped ==
    ASSUME NEW s \in MetaAdSetType, NEW src, NEW code \in Optional(STRING), NEW budgets,
           IsScale(src.currency_offset), ~AdSetRefused(s, code, src.currency_offset)
    PROVE  LET copy == CopiedAdSet(s, src, code, budgets, VideoMedia) IN
           /\ copy \in AdSetType
           /\ \A j \in DOMAIN copy.ads : \A a \in AssetRefs(copy.ads[j].creative) :
                  a.sources # {"local_path"} /\ a.video = (a.key \in VideoMedia)
  <1> DEFINE offset == src.currency_offset
             copy == CopiedAdSet(s, src, code, budgets, VideoMedia)
             Made == [name : STRING, creative : MadeCreativeType]
             Ad == [name : STRING, creative : CreativeType]
             ads == [i \in DOMAIN s.ads |-> [name |-> s.ads[i].name,
                                            creative |-> CopiedCreative(s.ads[i].creative, VideoMedia)]]
             budget == IF budgets # {} THEN {} ELSE CopiedBudget(s, "ad_set", code, offset)
  <1>1. /\ s.daily \in Int /\ s.lifetime \in Int /\ s.bid_amount \in Int
        /\ ~AmountRefused(s.daily, code, offset) /\ ~AmountRefused(s.lifetime, code, offset)
        /\ ~AmountRefused(s.bid_amount, code, offset)
    BY DEF MetaAdSetType, AdSetRefused
  <1>2. budget \in Optional(BudgetType)
    <2>1. CopiedBudget(s, "ad_set", code, offset) \in Optional(BudgetType)
      BY <1>1, BudgetIsTyped
    <2>2. {} \in Optional(BudgetType)
      BY DEF Optional
    <2>3. QED BY <2>1, <2>2
  <1>3. Amounts(s.bid_amount, code, offset) \in Optional(Int)
    BY <1>1, AmountsAreTyped
  <1>4. CopiedTargeting(s.targeting) \in TargetingType /\ CopiedPlacements(s.targeting) \in PlacementsType
    <2>1. s.targeting \in MetaTargetingType
      BY DEF MetaAdSetType
    <2>2. QED BY <2>1, CopiedTargetingIsTyped
  <1>5. /\ DOMAIN s.ads = 1 .. Len(s.ads) /\ Len(s.ads) \in Nat
        /\ \A i \in DOMAIN s.ads : s.ads[i] \in Made /\ s.ads[i] \in ToSet(s.ads)
    <2>1. s.ads \in Seq(Made)
      BY DEF MetaAdSetType
    <2> HIDE DEF Made
    <2>2. QED BY <2>1, MembersOfSequence DEF ToSet
  <1>6. ASSUME NEW i \in DOMAIN s.ads
        PROVE  /\ ads[i] \in Ad
               /\ \A a \in AssetRefs(ads[i].creative) :
                      a.sources # {"local_path"} /\ a.video = (a.key \in VideoMedia)
    <2> DEFINE c == s.ads[i].creative
    <2>1. c \in MadeCreativeType /\ s.ads[i].name \in STRING
      BY <1>5
    <2>2. ~CreativeRefused(c)
      BY <1>5 DEF AdSetRefused
    <2> HIDE DEF c
    <2>3. /\ CopiedCreative(c, VideoMedia) \in CreativeType
          /\ \A a \in AssetRefs(CopiedCreative(c, VideoMedia)) :
                 a.sources # {"local_path"} /\ a.video = (a.key \in VideoMedia)
      BY <2>1, <2>2, CopiedCreativeIsTyped
    <2>4. ads[i] = [name |-> s.ads[i].name, creative |-> CopiedCreative(c, VideoMedia)]
      BY DEF c
    <2> HIDE DEF ads
    <2>5. QED BY <2>1, <2>3, <2>4
  <1>7. DOMAIN ads = DOMAIN s.ads
    OBVIOUS
  <1>8. ads \in Seq(Ad)
    <2>1. ads \in [1 .. Len(s.ads) -> Ad]
      <3> HIDE DEF Ad
      <3>1. QED BY <1>5, <1>6
    <2> HIDE DEF ads, Ad
    <2>2. QED BY <2>1, <1>5, FunctionIsSequence
  <1>9. copy = [name |-> s.name, budget |-> budget, schedule |-> [start |-> {}, end |-> {}],
                targeting |-> CopiedTargeting(s.targeting),
                placements |-> CopiedPlacements(s.targeting),
                bid_amount |-> Amounts(s.bid_amount, code, offset), bid_strategy |-> s.bid_strategy,
                optimization_goal |-> s.optimization_goal,
                tracking |-> [conversion_event |-> s.promoted_object.custom_event_type,
                              custom_conversion |-> s.promoted_object.custom_conversion_id,
                              dataset |-> s.promoted_object.pixel_id,
                              attribution_window |-> {}, utm |-> {}],
                ads |-> ads]
    BY Zenon DEF CopiedAdSet
  <1> HIDE DEF ads, budget, copy, offset
  <1>10. [start |-> {}, end |-> {}] \in ScheduleType
    BY DEF ScheduleType, Optional
  <1>11. [conversion_event |-> s.promoted_object.custom_event_type,
          custom_conversion |-> s.promoted_object.custom_conversion_id,
          dataset |-> s.promoted_object.pixel_id, attribution_window |-> {}, utm |-> {}] \in TrackingType
    <2>1. {} \in Optional(STRING)
      BY DEF Optional
    <2>2. QED BY <2>1 DEF TrackingType, MetaAdSetType
  <1>12. /\ s.name \in STRING /\ s.bid_strategy \in STRING /\ s.optimization_goal \in Optional(STRING)
    BY DEF MetaAdSetType
  <1>13. copy \in AdSetType
    BY <1>2, <1>3, <1>4, <1>8, <1>9, <1>10, <1>11, <1>12 DEF AdSetType
  <1>14. copy.ads = ads
    BY <1>9
  <1>15. QED
    BY <1>6, <1>7, <1>13, <1>14 DEF copy

LEMMA CopyIsTyped ==
    ASSUME NEW src, NEW currency \in Optional(STRING), NEW name \in STRING,
           src.account \in STRING, src.currency \in Optional(STRING), IsScale(src.currency_offset),
           [account |-> src.account, campaign |-> src.campaign, ad_sets |-> src.ad_sets] \in MetaCampaignType,
           ~DuplicateRefused(src, currency, name, VideoMedia)
    PROVE  LET copy == CopiedPlan(src, currency, name, VideoMedia) IN
           /\ copy \in PlanType
           /\ \A a \in AllRefs(copy) : a.sources # {"local_path"} /\ a.video = (a.key \in VideoMedia)
  <1> DEFINE code == Code(src, currency)
             offset == src.currency_offset
             copy == CopiedPlan(src, currency, name, VideoMedia)
             budget == CopiedBudget(src.campaign, "campaign", code, offset)
             sets == [i \in DOMAIN src.ad_sets |->
                         CopiedAdSet(src.ad_sets[i], src, code, budget, VideoMedia)]
             dsa == UNION {s.dsa : s \in ToSet(src.ad_sets)}
  <1>1. code \in Optional(STRING)
    BY DEF Code
  <1>2. /\ src.ad_sets \in Seq(MetaAdSetType)
        /\ src.campaign \in [account : STRING, objective : STRING,
                             special_ad_categories : SUBSET STRING,
                             daily : Int, lifetime : Int, spend_cap : Int]
    BY DEF MetaCampaignType
  <1>3. /\ DOMAIN src.ad_sets = 1 .. Len(src.ad_sets) /\ Len(src.ad_sets) \in Nat
        /\ \A i \in DOMAIN src.ad_sets : src.ad_sets[i] \in MetaAdSetType /\ src.ad_sets[i] \in ToSet(src.ad_sets)
        /\ ToSet(src.ad_sets) \subseteq MetaAdSetType
    BY <1>2, MembersOfSequence DEF ToSet
  <1>4. /\ ~AmountRefused(src.campaign.daily, code, offset)
        /\ ~AmountRefused(src.campaign.lifetime, code, offset)
        /\ \A s \in ToSet(src.ad_sets) : ~AdSetRefused(s, code, offset)
    BY Zenon DEF DuplicateRefused
  <1>5. budget \in Optional(BudgetType)
    <2> HIDE DEF code
    <2>1. QED BY <1>1, <1>2, <1>4, BudgetIsTyped
  <1>6. ASSUME NEW i \in DOMAIN src.ad_sets
        PROVE  /\ sets[i] \in AdSetType
               /\ \A j \in DOMAIN sets[i].ads : \A a \in AssetRefs(sets[i].ads[j].creative) :
                      a.sources # {"local_path"} /\ a.video = (a.key \in VideoMedia)
    <2> HIDE DEF code, budget
    <2>1. sets[i] = CopiedAdSet(src.ad_sets[i], src, code, budget, VideoMedia)
      OBVIOUS
    <2>2. src.ad_sets[i] \in MetaAdSetType /\ ~AdSetRefused(src.ad_sets[i], code, src.currency_offset)
      BY <1>3, <1>4
    <2> HIDE DEF sets
    <2>3. QED BY <1>1, <2>1, <2>2, CopiedAdSetIsTyped
  <1>7. sets \in Seq(AdSetType) /\ DOMAIN sets = DOMAIN src.ad_sets
    <2>1. sets \in [1 .. Len(src.ad_sets) -> AdSetType]
      BY <1>3, <1>6
    <2> HIDE DEF sets
    <2>2. QED BY <2>1, <1>3, FunctionIsSequence
  <1>8. dsa \subseteq STRING
    BY <1>3 DEF MetaAdSetType
  <1>9. copy = [ad_account_id |-> src.account, name |-> name, objective |-> src.campaign.objective,
                budget |-> budget, schedule |-> [start |-> {}, end |-> {}], spend_cap |-> {},
                special_ad_categories |-> src.campaign.special_ad_categories \ {"NONE"},
                dsa |-> dsa, ad_sets |-> sets]
    BY Zenon DEF CopiedPlan
  <1> HIDE DEF copy, sets, budget, dsa, code
  <1>10. [start |-> {}, end |-> {}] \in ScheduleType
         /\ {} \in Optional([amount : Int, currency : STRING])
    BY DEF ScheduleType, Optional
  <1>11. copy \in PlanType /\ copy.ad_sets = sets
    BY <1>2, <1>5, <1>7, <1>8, <1>9, <1>10 DEF PlanType
  <1>12. ASSUME NEW a \in AllRefs(copy)
         PROVE  a.sources # {"local_path"} /\ a.video = (a.key \in VideoMedia)
    <2>1. PICK i \in DOMAIN sets : \E j \in DOMAIN sets[i].ads : a \in AssetRefs(sets[i].ads[j].creative)
      BY <1>11, RefsOfPlan
    <2>2. QED BY <2>1, <1>6, <1>7
  <1>13. QED
    BY <1>11, <1>12 DEF copy

LEMMA InvDuplicateCampaign ==
    ASSUME IInv, NEW saved \in BOOLEAN, NEW currency \in {{}, {"PLN"}},
           DuplicateCampaign(saved, currency)
    PROVE  IInv'
  <1> DEFINE src == SavedSource(campaign, saved)
             refused == DuplicateRefused(src, currency, "copy", VideoMedia)
             copy == CopiedPlan(src, currency, "copy", VideoMedia)
  <1>1. stage = "ads_created" /\ UNCHANGED <<brand, media, ready>>
    BY DEF DuplicateCampaign
  <1>2. CASE refused
    <2>1. /\ report' \subseteq Codes
          /\ UNCHANGED <<brand, plan, account, stage, campaign, media, ready, source, shown>>
      BY <1>2, <1>1 DEF DuplicateCampaign, Codes
    <2>2. TypeOK'
      BY <2>1 DEF IInv, TypeOK
    <2>3. /\ \A type : MinorOf(plan.budget, type)' = MinorOf(plan.budget, type)
          /\ \A k \in DOMAIN plan.ad_sets : MetaAdSet(plan.ad_sets[k])' = MetaAdSet(plan.ad_sets[k])
      BY <2>1 DEF MinorOf, MetaAdSet
    <2>4. CampaignIsPlanned' /\ AdSetsArePlanned'
      BY <2>1, <2>3 DEF IInv, CampaignIsPlanned, AdSetsArePlanned
    <2>5. NotAheadOfStage' /\ StillValid' /\ StopsAreKnown'
      BY <2>1 DEF IInv, NotAheadOfStage, StillValid, StopsAreKnown
    <2>6. AdsArePlanned' /\ KindsAreKept'
      BY <2>1 DEF IInv, AdsArePlanned, KindsAreKept
    <2>7. QED BY <2>2, <2>4, <2>5, <2>6 DEF IInv
  <1>3. CASE ~refused
    <2>1. /\ plan' = copy /\ source' = campaign /\ campaign' = NotBuilt /\ stage' = "planned"
          /\ account' = {} /\ report' = {} /\ shown' = {}
      BY <1>3 DEF DuplicateCampaign
    <2>2. campaign \in MetaCampaignType
      BY DEF IInv, TypeOK
    <2>3. /\ src.account \in STRING /\ src.currency \in Optional(STRING)
          /\ IsScale(src.currency_offset)
          /\ src.account = campaign.account /\ src.campaign = campaign.campaign
          /\ src.ad_sets = campaign.ad_sets
      <3>1. RealCurrency[campaign.account] \in STRING /\ RealOffset[campaign.account] \in Offsets
        BY <1>1, TheAccount DEF Started
      <3>2. campaign.account \in STRING
        BY <2>2 DEF MetaCampaignType
      <3>3. QED BY <3>1, <3>2 DEF SavedSource, IsScale, Optional
    <2>4. [account |-> src.account, campaign |-> src.campaign, ad_sets |-> src.ad_sets] \in MetaCampaignType
      BY <2>2, <2>3 DEF MetaCampaignType
    <2>5. currency \in Optional(STRING) /\ "copy" \in STRING
      BY LiteralsAssumption DEF Optional
    <2>6. /\ copy \in PlanType
          /\ \A a \in AllRefs(copy) : a.sources # {"local_path"} /\ a.video = (a.key \in VideoMedia)
      <3> HIDE DEF src
      <3>1. QED BY <1>3, <2>3, <2>4, <2>5, CopyIsTyped
    <2> HIDE DEF copy
    <2>7. TypeOK'
      <3>1. account' \in Optional(Readings) /\ shown' \in Optional(ChangeType) /\ report' \subseteq Codes
        BY <2>1 DEF Optional
      <3>2. /\ campaign' \in MetaCampaignType /\ Len(campaign'.ad_sets) = 0
        BY <2>1, NotBuiltIsTyped
      <3>3. QED BY <1>1, <2>1, <2>2, <2>6, <3>1, <3>2 DEF IInv, TypeOK, Stages
    <2>8. NotAheadOfStage' /\ StillValid' /\ CampaignIsPlanned' /\ AdSetsArePlanned' /\ StopsAreKnown'
      BY <2>1 DEF NotAheadOfStage, StillValid, CampaignIsPlanned, AdSetsArePlanned, StopsAreKnown, Started
    <2>9. AdsArePlanned'
      BY <2>1, NotBuiltIsTyped DEF AdsArePlanned, NotBuilt
    <2>10. KindsAreKept'
      BY <2>1, <2>6 DEF KindsAreKept
    <2>11. QED BY <2>7, <2>8, <2>9, <2>10 DEF IInv
  <1>4. QED BY <1>2, <1>3

LEMMA InvStutter ==
    ASSUME IInv, UNCHANGED vars
    PROVE  IInv'
  <1>1. UNCHANGED <<brand, plan, account, report, stage, campaign, media, ready, source, shown>>
    BY DEF vars
  <1>2. TypeOK'
    BY <1>1 DEF IInv, TypeOK
  <1>3. /\ \A type : MinorOf(plan.budget, type)' = MinorOf(plan.budget, type)
        /\ \A k \in DOMAIN plan.ad_sets : MetaAdSet(plan.ad_sets[k])' = MetaAdSet(plan.ad_sets[k])
    BY <1>1 DEF MinorOf, MetaAdSet
  <1>4. CampaignIsPlanned' /\ AdSetsArePlanned'
    BY <1>1, <1>3 DEF IInv, CampaignIsPlanned, AdSetsArePlanned
  <1>5. NotAheadOfStage' /\ StillValid' /\ StopsAreKnown'
    BY <1>1 DEF IInv, NotAheadOfStage, StillValid, StopsAreKnown
  <1>6. AdsArePlanned' /\ KindsAreKept'
    BY <1>1 DEF IInv, AdsArePlanned, KindsAreKept
  <1>7. QED
    BY <1>2, <1>4, <1>5, <1>6 DEF IInv

LEMMA InvNext == IInv /\ [Next]_vars => IInv'
  <1> SUFFICES ASSUME IInv, [Next]_vars PROVE IInv'
    OBVIOUS
  <1>1. ASSUME NEW a \in Readings, ReadAccount(a) PROVE IInv'
    BY <1>1, InvReadAccount
  <1>2. CASE SetEnd
    BY <1>2, InvSetEnd
  <1>3. CASE ValidatePlan
    BY <1>3, InvValidatePlan
  <1>4. CASE CreateCampaign
    BY <1>4, InvCreateCampaign
  <1>5. CASE CreateAdSets
    BY <1>5, InvCreateAdSets
  <1>6. CASE FinishUploads
    BY <1>6, InvFinishUploads
  <1>7. CASE FinishBuild
    BY <1>7, InvFinishBuild
  <1>8. ASSUME NEW a \in AllRefs(plan), UploadAsset(a) PROVE IInv'
    BY <1>8, InvUploadAsset
  <1>9. ASSUME NEW i \in DOMAIN plan.ad_sets, CreateAd(i) PROVE IInv'
    BY <1>9, InvCreateAd
  <1>10. ASSUME NEW i \in DOMAIN plan.ad_sets, CreateAdRefused(i) PROVE IInv'
    BY <1>10, InvCreateAdRefused
  <1>11. ASSUME NEW x \in VideoMedia, Transcode(x) PROVE IInv'
    BY <1>11, InvTranscode
  <1>12. ASSUME NEW amount \in NewBudgets, ChangeBudget(amount) PROVE IInv'
    BY <1>12, InvChangeBudget
  <1>13. ASSUME NEW saved \in BOOLEAN, NEW currency \in {{}, {"PLN"}},
                DuplicateCampaign(saved, currency)
         PROVE  IInv'
    BY <1>13, InvDuplicateCampaign
  <1>14. CASE UNCHANGED vars
    BY <1>14, InvStutter
  <1>15. QED
    BY <1>1, <1>2, <1>3, <1>4, <1>5, <1>6, <1>7, <1>8, <1>9, <1>10, <1>11, <1>12, <1>13, <1>14
       DEF Next, Build, MetaWorks

(* The inductive invariant holds of every behaviour: what is on Meta is    *)
(* what the validated plan makes of each object, as far as the build is.   *)
THEOREM InvHolds == Spec => []IInv
  BY InvInit, InvNext, PTL DEF Spec

(* Every variable keeps its type, over every plan a person may write and   *)
(* every plan that is a copy (models/plan.py, api/duplicate.py).           *)
THEOREM TypeIsKept == Spec => []TypeOK
  <1>1. IInv => TypeOK
    BY DEF IInv
  <1>2. QED
    BY <1>1, InvHolds, PTL

(* A plan that validated is refused halfway only for a file whose name and *)
(* header disagree, for twins, or for several videos in one multi-variant  *)
(* creative (validation/plan_validator.py:8).                              *)
THEOREM StopsAreOfThreeKinds == Spec => []StopsAreKnown
  <1>1. IInv => StopsAreKnown
    BY DEF IInv
  <1>2. QED
    BY <1>1, InvHolds, PTL

-----------------------------------------------------------------------------
(* What is built is what was planned.                                      *)

LEMMA NoDraftIsMissed ==
    ASSUME NEW p, NEW a, NEW br, Ok(Findings(p, a, br))
    PROVE  /\ \A s \in AdSets(p) : \A b \in s.budget : b.type = "lifetime" => s.schedule.end # {}
           /\ \A b \in p.budget : b.type = "lifetime" =>
                  \A s \in AdSets(p) : s.schedule.end \cup p.schedule.end # {}
           /\ TargetedCountries(p) \cap EU_EEA_COUNTRIES # {} => DsaFields \subseteq DsaOf(p, br)
  <1> USE NoErrorInAPart, PartsOfTheReport
  <1>0. "schedule.lifetime_needs_end" \in ErrorCodes /\ "dsa.missing_fields" \in ErrorCodes
    BY DEF ErrorCodes
  <1>1. ASSUME NEW s \in AdSets(p), NEW b \in s.budget, b.type = "lifetime"
        PROVE  s.schedule.end # {}
    <2>1. "schedule.lifetime_needs_end" \notin CheckSchedule(s)
      BY <1>0, PartsOfAnAdSet DEF Ok
    <2>2. QED BY <1>1, <2>1 DEF CheckSchedule, When
  <1>2. ASSUME NEW b \in p.budget, b.type = "lifetime", NEW s \in AdSets(p)
        PROVE  s.schedule.end \cup p.schedule.end # {}
    <2>1. "schedule.lifetime_needs_end" \notin CheckCampaignSchedule(p)
      BY <1>0
    <2>2. QED BY <1>2, <2>1 DEF CheckCampaignSchedule, When
  <1>3. TargetedCountries(p) \cap EU_EEA_COUNTRIES # {} => DsaFields \subseteq DsaOf(p, br)
    <2>1. "dsa.missing_fields" \notin CheckDsa(p, br)
      BY <1>0
    <2>2. QED BY <2>1 DEF CheckDsa
  <1>4. QED BY <1>1, <1>2, <1>3

LEMMA SameButAds ==
    ASSUME NEW x \in MetaAdSetType, NEW m, [x EXCEPT !.ads = <<>>] = m
    PROVE  /\ x.name = m.name /\ x.daily = m.daily /\ x.lifetime = m.lifetime
           /\ x.bid_amount = m.bid_amount /\ x.bid_strategy = m.bid_strategy
           /\ x.optimization_goal = m.optimization_goal /\ x.targeting = m.targeting
           /\ x.promoted_object = m.promoted_object /\ x.dsa = m.dsa /\ x.end = m.end
  BY DEF MetaAdSetType

(* An ad set on Meta, but for its ads, is that of the plan in its place.   *)
LEMMA InItsPlace ==
    ASSUME IInv, NEW i \in DOMAIN campaign.ad_sets
    PROVE  LET s == campaign.ad_sets[i]
               t == plan.ad_sets[i]
           IN  /\ stage \in Started \ {"campaign_created"}
               /\ i \in DOMAIN plan.ad_sets /\ s \in MetaAdSetType /\ t \in AdSets(plan)
               /\ s.daily = MinorOf(t.budget, "daily") /\ s.lifetime = MinorOf(t.budget, "lifetime")
               /\ s.dsa = DsaOf(plan, brand) /\ s.end = t.schedule.end \cup plan.schedule.end
               /\ s.targeting = MetaTargeting(t)
  <1> DEFINE s == campaign.ad_sets[i]
             t == plan.ad_sets[i]
  <1>1. campaign \in MetaCampaignType /\ plan \in PlanType
    BY DEF IInv, TypeOK
  <1>2. campaign.ad_sets \in Seq(MetaAdSetType)
    BY <1>1 DEF MetaCampaignType
  <1>3. DOMAIN campaign.ad_sets = 1 .. Len(campaign.ad_sets) /\ s \in MetaAdSetType
    BY <1>2, MembersOfSequence
  <1>4. stage \in Started \ {"campaign_created"}
    <2>1. CASE campaign = NotBuilt
      BY <2>1 DEF NotBuilt
    <2>2. CASE campaign.ad_sets = <<>>
      BY <2>2
    <2>3. QED BY <2>1, <2>2 DEF IInv, NotAheadOfStage
  <1>5. i \in DOMAIN plan.ad_sets
    BY <1>1, <1>3, <1>4, PlanParts DEF IInv, AdSetsArePlanned
  <1>6. [s EXCEPT !.ads = <<>>] = MetaAdSet(t)
    BY <1>4, <1>5 DEF IInv, AdSetsArePlanned
  <1>7. t \in AdSets(plan)
    BY <1>1, <1>5, PlanParts
  <1>8. s.daily = MetaAdSet(t).daily /\ s.lifetime = MetaAdSet(t).lifetime /\ s.dsa = MetaAdSet(t).dsa
        /\ s.end = MetaAdSet(t).end /\ s.targeting = MetaAdSet(t).targeting
    <2> HIDE DEF s
    <2>1. QED BY <1>3, <1>6, SameButAds
  <1>9. QED
    BY <1>3, <1>4, <1>5, <1>7, <1>8 DEF MetaAdSet

LEMMA OnMetaAsPlanned ==
    ASSUME IInv, NEW s \in ToSet(campaign.ad_sets)
    PROVE  /\ stage \in Started \ {"campaign_created"}
           /\ \E t \in AdSets(plan) :
                 /\ s.daily = MinorOf(t.budget, "daily") /\ s.lifetime = MinorOf(t.budget, "lifetime")
                 /\ s.dsa = DsaOf(plan, brand) /\ s.end = t.schedule.end \cup plan.schedule.end
  <1>1. PICK i \in DOMAIN campaign.ad_sets : s = campaign.ad_sets[i]
    BY DEF ToSet
  <1>2. QED
    BY <1>1, InItsPlace

LEMMA NoFieldsNoBudget ==
    ASSUME NEW obj
    PROVE  BudgetFields(obj) = {} <=> obj.daily = 0 /\ obj.lifetime = 0
  BY DEF BudgetFields

(* What the campaign and its ad sets have of budgets, against the plan.    *)
LEMMA BudgetsOnMeta ==
    ASSUME IInv, NEW s \in ToSet(campaign.ad_sets), NEW t \in AdSets(plan),
           s.daily = MinorOf(t.budget, "daily"), s.lifetime = MinorOf(t.budget, "lifetime")
    PROVE  /\ BudgetFields(s) = {} <=> t.budget = {}
           /\ BudgetFields(campaign.campaign) = {} <=> plan.budget = {}
           /\ s.lifetime # 0 => \E b \in t.budget : b.type = "lifetime"
           /\ campaign.campaign.lifetime # 0 => \E b \in plan.budget : b.type = "lifetime"
  <1>1. stage \in Started
    BY OnMetaAsPlanned
  <1>2. plan \in PlanType /\ PlanIsSound(plan, account)
    BY <1>1, PlanInHand DEF IInv, TypeOK, Started
  <1>3. \A b \in t.budget \cup plan.budget : b.type \in {"daily", "lifetime"}
    BY <1>2, BudgetsOfPlan DEF Optional, BudgetType
  <1>4. /\ MinorOf(t.budget, "daily") # 0 <=> \E b \in t.budget : b.type = "daily"
        /\ MinorOf(t.budget, "lifetime") # 0 <=> \E b \in t.budget : b.type = "lifetime"
    BY <1>2, BudgetsOfPlan, MinorOfBudget
  <1>5. /\ MinorOf(plan.budget, "daily") # 0 <=> \E b \in plan.budget : b.type = "daily"
        /\ MinorOf(plan.budget, "lifetime") # 0 <=> \E b \in plan.budget : b.type = "lifetime"
    BY <1>2, BudgetsOfPlan, MinorOfBudget
  <1>6. /\ campaign.campaign.lifetime = MinorOf(plan.budget, "lifetime")
        /\ campaign.campaign.daily = 0 <=> MinorOf(plan.budget, "daily") = 0
    BY <1>1 DEF IInv, CampaignIsPlanned
  <1>7. QED
    BY <1>3, <1>4, <1>5, <1>6, NoFieldsNoBudget

LEMMA InvImpliesTheRest == IInv => LifetimeBudgetsEnd /\ OneLevelPays /\ EuNamesWhoPays
  <1> SUFFICES ASSUME IInv, NEW s \in ToSet(campaign.ad_sets)
               PROVE  /\ s.lifetime # 0 \/ campaign.campaign.lifetime # 0 => s.end # {}
                      /\ (BudgetFields(s) = {}) = (BudgetFields(campaign.campaign) # {})
                      /\ TargetedCountries(plan) \cap EU_EEA_COUNTRIES # {} => DsaFields \subseteq s.dsa
    BY DEF LifetimeBudgetsEnd, OneLevelPays, EuNamesWhoPays
  <1>1. stage # "planned"
    BY OnMetaAsPlanned DEF Started
  <1>2. Accepted(plan) /\ Ok(Findings(plan, account, brand))
    BY <1>1 DEF IInv, StillValid
  <1>3. PICK t \in AdSets(plan) :
                 /\ s.daily = MinorOf(t.budget, "daily") /\ s.lifetime = MinorOf(t.budget, "lifetime")
                 /\ s.dsa = DsaOf(plan, brand) /\ s.end = t.schedule.end \cup plan.schedule.end
    BY OnMetaAsPlanned
  <1>4. (t.budget = {}) = (plan.budget # {})
    BY <1>2 DEF Accepted, OneBudgetLevel
  <1>5. QED
    BY <1>2, <1>3, <1>4, BudgetsOnMeta, NoDraftIsMissed

-----------------------------------------------------------------------------
(* Money: with the account read, the table, the account's own scale and    *)
(* what it is charged in agree.                                            *)

(* The scale that a plan's currency is resolved with is the account's.     *)
LEMMA TheScale ==
    ASSUME AccountIsRead, IInv, stage \in Started
    PROVE  LET a == campaign.account IN
           /\ Currency(plan) = {RealCurrency[a]}
           /\ RealOffset[a] \in Offsets
           /\ Scale(RealCurrency[a], AccountOffset(account, RealCurrency[a])) = RealOffset[a]
  <1> DEFINE a == campaign.account
  <1>1. /\ a = plan.ad_account_id /\ a \in DOMAIN RealCurrency /\ RealOffset[a] \in Offsets
        /\ account # {} /\ \A x \in account : x \in Readings /\ x.id = a
    BY TheAccount
  <1>2. plan \in PlanType /\ Accepted(plan) /\ PlanIsSound(plan, account)
    BY PlanInHand DEF IInv, TypeOK, Started
  <1>3. PICK x \in account : account = {x}
    BY <1>1 DEF IInv, TypeOK, Optional
  <1>4. /\ x.currency = {RealCurrency[a]} /\ x.currency_offset \in {NotGiven, RealOffset[a]}
        /\ x.currency_offset = NotGiven => OffsetFor(RealCurrency[a]) = RealOffset[a]
    BY <1>1, <1>3, ReadingsAssumption DEF AccountIsRead
  <1>5. \A c \in Currency(plan) : c = RealCurrency[a]
    BY <1>2, <1>3, <1>4 DEF PlanIsSound
  <1>6. Currency(plan) = {RealCurrency[a]}
    BY <1>2, <1>5, SomebodyPays
  <1>7. (CHOOSE y \in account : TRUE) = x
    BY <1>3
  <1>8. AccountOffset(account, RealCurrency[a]) = x.currency_offset
    BY <1>3, <1>4, <1>7 DEF AccountOffset
  <1>9. Scale(RealCurrency[a], x.currency_offset) = RealOffset[a]
    BY <1>4 DEF Scale
  <1>10. QED
    BY <1>1, <1>6, <1>8, <1>9

LEMMA ChargedAmount ==
    ASSUME NEW amount \in Int, NEW offset \in Offsets, amount % SmallestUnit(offset) = 0
    PROVE  (amount * offset) \div FINEST = amount \div SmallestUnit(offset)
  <1> DEFINE u == SmallestUnit(offset)
  <1>1. /\ u \in {10000, 1000, 100, 10, 1} /\ u * offset = FINEST
    BY DEF Offsets, SmallestUnit, FINEST
  <1> HIDE DEF u
  <1>2. (amount \div u) * u = amount
    BY <1>1, UnitsCancel DEF u
  <1>3. PICK k \in Int : k = amount \div u /\ amount = k * u
    BY <1>1, <1>2
  <1>4. amount * offset = k * FINEST
    BY <1>1, <1>3 DEF Offsets, FINEST
  <1>5. (k * FINEST) \div FINEST = k
    BY DEF FINEST
  <1>6. QED
    BY <1>3, <1>4, <1>5 DEF u

(* Budgets as they are sent, and as they will be charged.                  *)
LEMMA ChargedFields ==
    ASSUME AccountIsRead, IInv, stage \in Started,
           NEW budgets \in Optional(BudgetType), budgets \subseteq Budgets(plan), NEW obj,
           obj.daily = MinorOf(budgets, "daily"), obj.lifetime = MinorOf(budgets, "lifetime")
    PROVE  BudgetFields(obj) = {ChargedAs(b, campaign.account) : b \in budgets}
  <1> DEFINE a == campaign.account
  <1>1. plan \in PlanType /\ PlanIsSound(plan, account)
    BY PlanInHand DEF IInv, TypeOK, Started
  <1>2. \A b \in budgets : BudgetIsSound(b, account) /\ b \in BudgetType
    BY <1>1 DEF PlanIsSound, Optional
  <1>3. ASSUME NEW b \in budgets
        PROVE  ChargedAs(b, a) = <<b.type, Resolved(b.amount, b.currency, account)>>
    <2>1. b.currency \in Currency(plan)
      BY DEF Currency
    <2>2. /\ RealOffset[a] \in Offsets
          /\ Scale(b.currency, AccountOffset(account, b.currency)) = RealOffset[a]
      BY <2>1, TheScale
    <2>3. b.amount \in Int /\ b.amount % SmallestUnit(RealOffset[a]) = 0
      BY <1>2, <2>2 DEF BudgetIsSound, BudgetType, CanResolve, Representable
    <2>4. Resolved(b.amount, b.currency, account) = b.amount \div SmallestUnit(RealOffset[a])
      BY <2>2 DEF Resolved, FromDisplay, FromMinor
    <2>5. (b.amount * RealOffset[a]) \div FINEST = b.amount \div SmallestUnit(RealOffset[a])
      BY <2>2, <2>3, ChargedAmount
    <2>6. QED BY <2>4, <2>5 DEF ChargedAs
  <1>4. ASSUME NEW type \in {"daily", "lifetime"}
        PROVE  /\ obj[type] # 0 <=> \E b \in budgets : b.type = type
               /\ \A b \in budgets : b.type = type => obj[type] = Resolved(b.amount, b.currency, account)
    BY <1>2, MinorOfBudget
  <1>5. \A b \in budgets : b.type \in {"daily", "lifetime"}
    BY <1>2 DEF BudgetType
  <1>6. ASSUME NEW f \in BudgetFields(obj) PROVE f \in {ChargedAs(b, a) : b \in budgets}
    <2>1. PICK type \in {"daily", "lifetime"} : obj[type] # 0 /\ f = <<type, obj[type]>>
      BY DEF BudgetFields
    <2>2. PICK b \in budgets : b.type = type
      BY <1>4, <2>1
    <2>3. QED BY <1>3, <1>4, <2>1, <2>2
  <1>7. ASSUME NEW b \in budgets PROVE ChargedAs(b, a) \in BudgetFields(obj)
    <2>1. obj[b.type] # 0 /\ obj[b.type] = Resolved(b.amount, b.currency, account)
      BY <1>4, <1>5
    <2>2. QED BY <1>3, <1>5, <2>1 DEF BudgetFields
  <1>8. QED BY <1>6, <1>7

LEMMA InvImpliesCharged == AccountIsRead /\ IInv => ChargedIsPlanned
  <1> SUFFICES ASSUME AccountIsRead, IInv, Built PROVE ChargedIsPlanned
    BY DEF ChargedIsPlanned
  <1> DEFINE a == campaign.account
  <1>1. stage = "ads_created" /\ stage \in Started /\ shown = {}
    BY DEF Built, Started
  <1>2. plan \in PlanType /\ campaign \in MetaCampaignType
    BY DEF IInv, TypeOK
  <1>3. a = plan.ad_account_id /\ Currency(plan) = {RealCurrency[a]}
    BY <1>1, TheAccount, TheScale
  <1>4. BudgetFields(campaign.campaign) = {ChargedAs(b, a) : b \in plan.budget}
    <2>1. plan.budget \in Optional(BudgetType) /\ plan.budget \subseteq Budgets(plan)
      BY <1>2 DEF PlanType, Budgets
    <2>2. /\ campaign.campaign.lifetime = MinorOf(plan.budget, "lifetime")
          /\ campaign.campaign.daily = MinorOf(plan.budget, "daily")
      BY <1>1 DEF IInv, CampaignIsPlanned
    <2>3. QED BY <1>1, <2>1, <2>2, ChargedFields
  <1>5. ASSUME NEW i \in DOMAIN plan.ad_sets
        PROVE  BudgetFields(campaign.ad_sets[i]) = {ChargedAs(b, a) : b \in plan.ad_sets[i].budget}
    <2> DEFINE t == plan.ad_sets[i]
    <2>1. t \in AdSetType /\ t \in AdSets(plan)
      BY <1>2, PlanParts
    <2>2. t.budget \in Optional(BudgetType) /\ t.budget \subseteq Budgets(plan)
      BY <2>1 DEF AdSetType, Budgets
    <2>3. [campaign.ad_sets[i] EXCEPT !.ads = <<>>] = MetaAdSet(t)
      BY <1>1 DEF IInv, AdSetsArePlanned, Started
    <2>4. campaign.ad_sets[i] \in MetaAdSetType
      <3>1. Len(campaign.ad_sets) = Len(plan.ad_sets)
        BY <1>1 DEF IInv, AdSetsArePlanned, Started
      <3>2. campaign.ad_sets \in Seq(MetaAdSetType)
        BY <1>2 DEF MetaCampaignType
      <3>3. QED BY <1>2, <3>1, <3>2, MembersOfSequence, PlanParts
    <2>5. campaign.ad_sets[i].daily = MetaAdSet(t).daily /\ campaign.ad_sets[i].lifetime = MetaAdSet(t).lifetime
      <3>1. /\ campaign.ad_sets[i].daily = [campaign.ad_sets[i] EXCEPT !.ads = <<>>].daily
            /\ campaign.ad_sets[i].lifetime = [campaign.ad_sets[i] EXCEPT !.ads = <<>>].lifetime
        BY <2>4 DEF MetaAdSetType
      <3>2. QED BY <3>1, <2>3
    <2>6. /\ campaign.ad_sets[i].daily = MinorOf(t.budget, "daily")
          /\ campaign.ad_sets[i].lifetime = MinorOf(t.budget, "lifetime")
      BY <2>5 DEF MetaAdSet
    <2>7. QED BY <1>1, <2>2, <2>6, ChargedFields
  <1>6. QED BY <1>3, <1>4, <1>5 DEF ChargedIsPlanned

(* Where the account context says what the currency is: for every budget   *)
(* of every level, what a built campaign is charged is the amount in the   *)
(* plan, in the account's currency and scale; a lifetime budget ends; one  *)
(* level pays; and what reaches the EU names who pays (money.py, the       *)
(* checks of validation/).                                                 *)
THEOREM BuiltIsPlanned ==
    ASSUME AccountIsRead
    PROVE  Spec => []BuiltAsPlanned
  <1>1. IInv => BuiltAsPlanned
    BY InvImpliesCharged, InvImpliesTheRest DEF BuiltAsPlanned
  <1>2. QED
    BY <1>1, InvHolds, PTL

(* Also where the account was not read: a lifetime budget ends, one level  *)
(* pays and the EU is told who does.                                       *)
THEOREM NoBudgetWithoutEnd == Spec => [](LifetimeBudgetsEnd /\ OneLevelPays /\ EuNamesWhoPays)
  <1>1. QED
    BY InvImpliesTheRest, InvHolds, PTL

-----------------------------------------------------------------------------
(* What an approval shows of a change.                                     *)

LEMMA Quotient ==
    ASSUME NEW m \in Int, NEW e \in Nat, e > 0
    PROVE  m \div e \in Int /\ (m \div e) * e <= m /\ m < (m \div e) * e + e
  OBVIOUS

(* Rounding is right to a half of the last place, upwards and downwards.   *)
LEMMA HalfUpIsNear ==
    ASSUME NEW n \in Int, NEW d \in Nat, d > 0
    PROVE  HalfUp(n, d) \in Int /\ 2 * (HalfUp(n, d) * d - n) \in -d .. d
  <1> DEFINE e == 2 * d
             up == (2 * n + d) \div e
             down == (d - 2 * n) \div e
  <1>1. e \in Nat /\ e > 0 /\ 2 * n + d \in Int /\ d - 2 * n \in Int
    OBVIOUS
  <1>2. HalfUp(n, d) = IF n >= 0 THEN up ELSE -down
    BY DEF HalfUp
  <1>3. up \in Int /\ up * e <= 2 * n + d /\ 2 * n + d < up * e + e
    BY <1>1, Quotient
  <1>4. down \in Int /\ down * e <= d - 2 * n /\ d - 2 * n < down * e + e
    BY <1>1, Quotient
  <1>5. (up \in Int => up * e = 2 * (up * d)) /\ (down \in Int => down * e = 2 * (down * d))
        /\ (down \in Int => (-down) * d = -(down * d))
    <2> HIDE DEF up, down
    <2>1. QED OBVIOUS
  <1> HIDE DEF up, down
  <1>6. up * d \in Int /\ down * d \in Int
    BY <1>3, <1>4
  <1>7. CASE n >= 0
    BY <1>2, <1>3, <1>5, <1>6, <1>7
  <1>8. CASE ~(n >= 0)
    <2>1. HalfUp(n, d) = -down /\ HalfUp(n, d) * d = -(down * d)
      BY <1>2, <1>4, <1>5, <1>8
    <2>2. QED BY <2>1, <1>4, <1>5, <1>6
  <1>9. QED BY <1>7, <1>8

LEMMA ShownByChange ==
    ASSUME AccountIsRead, IInv, NEW amount \in NewBudgets, ChangeBudget(amount),
           NEW change \in shown'
    PROVE  ChargesAsShown(change)
  <1> DEFINE a == campaign.account
             currency == RealCurrency[plan.ad_account_id]
             offset == AccountOffset(account, currency)
             unit == SmallestUnit(RealOffset[a])
             old == FromMinor(campaign.campaign.daily, currency, offset)
             new == FromDisplay(amount, currency, offset)
             d == campaign.campaign.daily
             e == campaign'.campaign.daily
  <1>1. /\ stage = "ads_created" /\ d # 0 /\ CanResolve(amount, currency, account)
        /\ shown' = {DescribeChange(old, new)}
    BY Zenon DEF ChangeBudget
  <1>2. campaign' = [campaign EXCEPT !.campaign.daily = new.minor]
    BY DEF ChangeBudget
  <1>3. /\ plan.ad_account_id = a /\ RealOffset[a] \in Offsets
        /\ Scale(currency, offset) = RealOffset[a]
    BY <1>1, TheAccount, TheScale DEF Started
  <1>4. campaign \in MetaCampaignType /\ d \in Nat
    BY <1>1 DEF IInv, TypeOK, CampaignIsPlanned, Started, MetaCampaignType
  <1>5. /\ old.minor = d /\ old.currency = currency /\ old.offset = RealOffset[a]
        /\ new.minor = amount \div unit /\ new.currency = currency /\ new.offset = RealOffset[a]
    BY <1>3 DEF FromDisplay, FromMinor
  <1>6. unit \in {10000, 1000, 100, 10, 1}
    BY <1>3, UnitIsPower
  <1>7. new.minor \in Int
    <2>1. amount \in Nat
      BY TypesAssumption
    <2> HIDE DEF unit, new
    <2>2. QED BY <1>5, <1>6, <2>1
  <1> HIDE DEF old, new
  <1>8. e = new.minor
    <2> DEFINE c == campaign.campaign
    <2>1. [campaign EXCEPT !.campaign.daily = new.minor] = [campaign EXCEPT !.campaign = [c EXCEPT !.daily = new.minor]]
      OBVIOUS
    <2>2. QED BY <2>1, <1>2, <1>4 DEF MetaCampaignType
  <1>9. Display(old) = d * unit /\ Display(new) = e * unit
    BY <1>5, <1>8 DEF Display
  <1>10. change = DescribeChange(old, new)
    BY <1>1
  <1>11. /\ change.currency = currency /\ change.from = d * unit /\ change.to = e * unit
         /\ change.delta = e * unit - d * unit
         /\ change.pct = PctChange(old, new) /\ change.direction = Direction(old, new)
    BY <1>5, <1>9, <1>10 DEF DescribeChange
  <1>12. change.direction = "increase" <=> e > d
    BY <1>4, <1>5, <1>7, <1>8, <1>11 DEF Direction
  <1> HIDE DEF unit, d, e
  <1>13. e > d <=> e * unit > d * unit
    BY <1>4, <1>6, <1>7, <1>8
  <1>14. ASSUME NEW pct \in change.pct
         PROVE  2 * (pct * (d * unit) - 1000 * (e * unit - d * unit)) \in -(d * unit) .. d * unit
    <2> DEFINE n == 1000 * (e - d)
    <2>1. d > 0 /\ n \in Int
      BY <1>1, <1>4, <1>7, <1>8 DEF d
    <2>2. pct = HalfUp(n, d)
      BY <1>1, <1>5, <1>8, <1>11 DEF PctChange, d
    <2>3. pct \in Int /\ 2 * (pct * d - n) \in -d .. d
      <3> HIDE DEF n
      <3>1. QED BY <2>1, <2>2, <1>4, HalfUpIsNear
    <2>4. PICK q \in Int : q = pct * d
      BY <2>3, <1>4
    <2>5. pct * (d * unit) = q * unit
      BY <2>3, <2>4, <1>4, <1>6
    <2>6. 2 * (q - 1000 * (e - d)) \in -d .. d
      BY <2>3, <2>4
    <2>7. 2 * (q * unit - 1000 * (e * unit - d * unit)) \in -(d * unit) .. d * unit
      BY <2>6, <1>4, <1>6, <1>7, <1>8
    <2>8. QED BY <2>5, <2>7
  <1>15. QED
    BY <1>3, <1>11, <1>12, <1>13, <1>14 DEF ChargesAsShown, d, e, unit

(* Only a change of budget shows one.                                      *)
LEMMA NothingElseIsShown ==
    ASSUME [Next]_vars, NEW change \in shown' \ shown
    PROVE  \E amount \in NewBudgets : ChangeBudget(amount)
  BY DEF vars, Next, Build, MetaWorks, SetEnd, ReadAccount, ValidatePlan, CreateCampaign,
         CreateAdSets, UploadAsset, FinishUploads, Transcode, CreateAd, CreateAdRefused,
         FinishBuild, DuplicateCampaign, meta

(* What an approval shows of a change of budget is what the account pays   *)
(* before and after it, in its own currency, with the percentage right to  *)
(* a tenth, for every amount (money.py, describe_change).                  *)
THEOREM ShownIsReal ==
    ASSUME AccountIsRead
    PROVE  Spec => ShownChangeIsReal
  <1>1. IInv /\ [Next]_vars => [\A change \in shown' \ shown : ChargesAsShown(change)]_vars
    BY ShownByChange, NothingElseIsShown
  <1>2. QED
    BY <1>1, InvHolds, PTL DEF Spec, ShownChangeIsReal

-----------------------------------------------------------------------------
(* What a multi-variant creative shows where.                              *)

(* The media of a creative under one label.                                *)
LabelledAs(made, label) == {m.media : m \in {a \in ToSet(made.media) : a.label = label}}

(* The first rule that matches a placement is its own, where it has one.   *)
LEMMA ServedByRule ==
    ASSUME NEW pinned, \A x \in DOMAIN pinned : pinned[x] \in Placements,
           DOMAIN pinned # {}, NEW made, made.rules = CustomizationRules(pinned),
           NEW p \in Placements,
           NEW wanted, wanted = IF \E x \in DOMAIN pinned : pinned[x] = p THEN {p} ELSE {}
    PROVE  Serves(made, p) = LabelledAs(made, wanted)
  <1> DEFINE S == {pinned[x] : x \in DOMAIN pinned}
             n == Cardinality(S)
             named == SetToSeq(S)
             rules == [i \in DOMAIN named |-> {named[i]}]
             matching == {i \in DOMAIN made.rules : made.rules[i] \subseteq {p}}
             first == CHOOSE i \in matching : \A j \in matching : i <= j
  <1>1. IsFiniteSet(S) /\ S \subseteq Placements
    <2>1. S \subseteq Placements
      OBVIOUS
    <2>2. QED BY <2>1, PlacementsAreFinite, FS_Subset
  <1>2. /\ named \in [1 .. n -> S] /\ n \in Nat
        /\ \A x \in S : \E i \in 1 .. n : named[i] = x
    BY <1>1, ListOfSet
  <1>3. made.rules = Append(rules, {})
    <2>1. CustomizationRules(pinned) = IF DOMAIN pinned = {} THEN <<>> ELSE Append(rules, {})
      BY Zenon DEF CustomizationRules
    <2>2. QED BY <2>1
  <1>4. wanted = IF p \in S THEN {p} ELSE {}
    OBVIOUS
  <1>5. Serves(made, p) =
            {a.media : a \in (IF made.rules = <<>> THEN ToSet(made.media)
                              ELSE {a \in ToSet(made.media) : a.label = made.rules[first]})}
    BY Zenon DEF Serves
  <1> HIDE DEF S, named
  <1>6. rules \in [1 .. n -> SUBSET Placements] /\ \A i \in 1 .. n : rules[i] = {named[i]}
    BY <1>1, <1>2
  <1>7. rules \in Seq(SUBSET Placements) /\ Len(rules) = n
    BY <1>2, <1>6, FunctionIsSequence
  <1> HIDE DEF rules, n
  <1>8. /\ DOMAIN made.rules = 1 .. n + 1 /\ made.rules[n + 1] = {}
        /\ \A i \in 1 .. n : made.rules[i] = {named[i]}
        /\ made.rules # <<>>
    <2>1. /\ Len(made.rules) = n + 1 /\ made.rules \in Seq(SUBSET Placements)
          /\ made.rules[n + 1] = {} /\ \A i \in 1 .. n : made.rules[i] = rules[i]
      BY <1>2, <1>3, <1>7, AppendProperties
    <2>2. DOMAIN made.rules = 1 .. n + 1
      BY <2>1, MembersOfSequence
    <2>3. made.rules # <<>>
      BY <2>2, <1>2
    <2>4. QED BY <2>1, <2>2, <2>3, <1>6
  <1>9. /\ n + 1 \in matching /\ matching \subseteq 1 .. n + 1
        /\ \A i \in 1 .. n : i \in matching <=> named[i] = p
    BY <1>2, <1>8
  <1> HIDE DEF matching
  <1>10. first \in matching /\ \A j \in matching : first <= j
    <2>1. matching \subseteq Nat /\ matching # {}
      BY <1>2, <1>9
    <2>2. \E i \in matching : \A j \in matching : i <= j
      BY <2>1, LeastMember
    <2>3. QED BY <2>2
  <1> HIDE DEF first
  <1>11. made.rules[first] = wanted
    <2>1. CASE p \in S
      <3>1. PICK i \in 1 .. n : named[i] = p
        BY <2>1, <1>2
      <3>2. first <= i /\ first \in 1 .. n + 1
        BY <3>1, <1>9, <1>10
      <3>3. first \in 1 .. n
        BY <3>1, <3>2, <1>2
      <3>4. named[first] = p
        BY <3>3, <1>9, <1>10
      <3>5. QED BY <3>3, <3>4, <2>1, <1>4, <1>8
    <2>2. CASE p \notin S
      <3>1. \A i \in 1 .. n : named[i] # p
        BY <2>2, <1>2
      <3>2. first = n + 1
        BY <3>1, <1>2, <1>9, <1>10
      <3>3. QED BY <3>2, <2>2, <1>4, <1>8
    <2>3. QED BY <2>1, <2>2
  <1>12. Serves(made, p) = {a.media : a \in {m \in ToSet(made.media) : m.label = wanted}}
    BY <1>5, <1>8, <1>11
  <1>13. QED
    BY <1>12 DEF LabelledAs

(* Without twins, what is read of the pins is what was planned.            *)
LEMMA PinsAreThePlans ==
    ASSUME NEW c \in CreativeType, c.mode = "multi_variant", ~Twins(c), Request(c) \in RequestType
    PROVE  LET pinned == ParsePlacements(Request(c).assets) IN
           /\ \A a \in Assets(c) : Label(Remote(a), pinned) = a.placement
           /\ \A x \in DOMAIN pinned : \E a \in Assets(c) : a.placement = {pinned[x]}
           /\ \A a \in Assets(c) : \A p \in a.placement : \E x \in DOMAIN pinned : pinned[x] = p
  <1> DEFINE r == Request(c)
             pinned == ParsePlacements(r.assets)
  <1>1. r.assets \in Seq([media : STRING, placement : Optional(STRING)])
    BY DEF RequestType
  <1>2. /\ \A i \in DOMAIN r.assets :
              /\ c.assets[i] \in Assets(c) /\ r.assets[i].media = Remote(c.assets[i])
              /\ r.assets[i].placement = c.assets[i].placement
        /\ \A a \in Assets(c) : \E i \in DOMAIN r.assets : a = c.assets[i]
    BY RequestOfFeed
  <1>3. \A a \in Assets(c) : a.placement \in Optional(STRING)
    BY RefsAreTyped DEF AssetType
  <1>4. /\ \A x \in DOMAIN pinned : \E i \in DOMAIN r.assets :
               r.assets[i].media = x /\ r.assets[i].placement = {pinned[x]}
        /\ \A i \in DOMAIN r.assets : r.assets[i].placement # {} => r.assets[i].media \in DOMAIN pinned
    BY <1>1, ParsedPins
  <1> HIDE DEF pinned, r
  <1>5. ASSUME NEW x \in DOMAIN pinned
        PROVE  \E a \in Assets(c) : Remote(a) = x /\ a.placement = {pinned[x]}
    BY <1>2, <1>4
  <1>6. ASSUME NEW a \in Assets(c), a.placement # {} PROVE Remote(a) \in DOMAIN pinned
    BY <1>2, <1>4, <1>6
  <1>7. ASSUME NEW a \in Assets(c), Remote(a) \in DOMAIN pinned
        PROVE  a.placement = {pinned[Remote(a)]}
    BY <1>5, <1>7 DEF Twins
  <1>8. ASSUME NEW a \in Assets(c) PROVE Label(Remote(a), pinned) = a.placement
    BY <1>6, <1>7 DEF Label
  <1>9. ASSUME NEW a \in Assets(c), NEW p \in a.placement PROVE \E x \in DOMAIN pinned : pinned[x] = p
    BY <1>6, <1>7
  <1>10. QED
    BY <1>5, <1>8, <1>9 DEF pinned, r

LEMMA FeedServes ==
    ASSUME NEW c \in CreativeType, c.mode = "multi_variant", ~Twins(c),
           Request(c) \in RequestType, ~FeedRefused(Request(c), VideoMedia),
           NEW p \in Placements
    PROVE  Serves(FeedCreative(Request(c)), p) =
               IF PinnedTo(c, p) = {} THEN Unpinned(c) ELSE PinnedTo(c, p)
  <1> DEFINE r == Request(c)
             pinned == ParsePlacements(r.assets)
             made == FeedCreative(r)
  <1>1. /\ \A a \in Assets(c) : Label(Remote(a), pinned) = a.placement
        /\ \A x \in DOMAIN pinned : \E a \in Assets(c) : a.placement = {pinned[x]}
        /\ \A a \in Assets(c) : \A q \in a.placement : \E x \in DOMAIN pinned : pinned[x] = q
    BY PinsAreThePlans
  <1>2. \A x \in DOMAIN pinned : pinned[x] \in Placements
    BY Zenon DEF FeedRefused
  <1>3. /\ DOMAIN r.assets = DOMAIN c.assets
        /\ \A i \in DOMAIN r.assets : c.assets[i] \in Assets(c) /\ r.assets[i].media = Remote(c.assets[i])
        /\ \A a \in Assets(c) : \E i \in DOMAIN r.assets : a = c.assets[i]
    BY RequestOfFeed
  <1>4. made.media = Labelled(r.assets, pinned) /\ made.rules = CustomizationRules(pinned)
    <2>1. made = [Blank(r.page, r.instagram_account) EXCEPT
            !.shape = "feed", !.url = r.url, !.variants = r.variants,
            !.media = Labelled(r.assets, pinned), !.rules = CustomizationRules(pinned)]
      BY Zenon DEF FeedCreative
    <2> HIDE DEF made, pinned, r
    <2>2. QED BY <2>1 DEF Blank
  <1>5. \A a \in Assets(c) : a.placement \in Optional(STRING)
    BY RefsAreTyped DEF AssetType
  <1> HIDE DEF made, pinned, r
  <1>6. ToSet(made.media) = {[media |-> Remote(a), label |-> a.placement] : a \in Assets(c)}
    <2> DEFINE M == made.media
    <2>1. DOMAIN M = DOMAIN r.assets
          /\ \A i \in DOMAIN M : M[i] = [media |-> Remote(c.assets[i]), label |-> c.assets[i].placement]
      BY <1>1, <1>3, <1>4 DEF Labelled
    <2> HIDE DEF M
    <2>2. ASSUME NEW m \in ToSet(M)
          PROVE  \E a \in Assets(c) : m = [media |-> Remote(a), label |-> a.placement]
      <3>1. PICK i \in DOMAIN M : m = M[i]
        BY DEF ToSet
      <3>2. QED BY <3>1, <2>1, <1>3
    <2>3. ASSUME NEW a \in Assets(c)
          PROVE  [media |-> Remote(a), label |-> a.placement] \in ToSet(M)
      <3>1. PICK i \in DOMAIN r.assets : a = c.assets[i]
        BY <1>3
      <3>2. M[i] = [media |-> Remote(a), label |-> a.placement] /\ i \in DOMAIN M
        BY <3>1, <2>1
      <3>3. QED BY <3>2 DEF ToSet
    <2>4. QED BY <2>2, <2>3 DEF M
  <1>7. ASSUME NEW label
        PROVE  LabelledAs(made, label) = {Remote(a) : a \in {b \in Assets(c) : b.placement = label}}
    <2> DEFINE L == {m.media : m \in {a \in ToSet(made.media) : a.label = label}}
               R == {Remote(a) : a \in {b \in Assets(c) : b.placement = label}}
    <2>1. ASSUME NEW x \in L PROVE x \in R
      <3>1. PICK m \in ToSet(made.media) : m.label = label /\ x = m.media
        OBVIOUS
      <3>2. PICK a \in Assets(c) : m = [media |-> Remote(a), label |-> a.placement]
        BY <1>6
      <3>3. x = Remote(a) /\ a.placement = label
        BY <3>1, <3>2
      <3>4. QED BY <3>3
    <2>2. ASSUME NEW x \in R PROVE x \in L
      <3>1. PICK a \in Assets(c) : a.placement = label /\ x = Remote(a)
        OBVIOUS
      <3>2. [media |-> x, label |-> label] \in ToSet(made.media)
        BY <3>1, <1>6
      <3>3. [media |-> x, label |-> label].media = x /\ [media |-> x, label |-> label].label = label
        OBVIOUS
      <3>4. QED BY <3>2, <3>3
    <2>3. QED BY <2>1, <2>2 DEF LabelledAs
  <1>8. (\E x \in DOMAIN pinned : pinned[x] = p) <=> \E a \in Assets(c) : a.placement = {p}
    BY <1>1
  <1>9. CASE DOMAIN pinned # {}
    <2> DEFINE wanted == IF \E x \in DOMAIN pinned : pinned[x] = p THEN {p} ELSE {}
    <2>1. Serves(made, p) = LabelledAs(made, wanted)
      <3>1. made.rules = CustomizationRules(pinned)
        BY <1>4
      <3>2. wanted = IF \E x \in DOMAIN pinned : pinned[x] = p THEN {p} ELSE {}
        OBVIOUS
      <3> HIDE DEF wanted
      <3>3. QED BY <1>2, <1>9, <3>1, <3>2, ServedByRule
    <2> HIDE DEF wanted
    <2>2. Serves(made, p) = {Remote(a) : a \in {b \in Assets(c) : b.placement = wanted}}
      BY <2>1, <1>7
    <2>3. CASE \E a \in Assets(c) : a.placement = {p}
      <3>1. wanted = {p}
        BY <2>3, <1>8 DEF wanted
      <3>2. Serves(made, p) = PinnedTo(c, p) /\ PinnedTo(c, p) # {}
        BY <2>2, <2>3, <3>1 DEF PinnedTo
      <3>3. QED BY <3>2 DEF made, r
    <2>4. CASE ~\E a \in Assets(c) : a.placement = {p}
      <3>1. wanted = {}
        BY <2>4, <1>8 DEF wanted
      <3>2. Serves(made, p) = Unpinned(c) /\ PinnedTo(c, p) = {}
        BY <2>2, <2>4, <3>1 DEF PinnedTo, Unpinned
      <3>3. QED BY <3>2 DEF made, r
    <2>5. QED BY <2>3, <2>4
  <1>10. CASE DOMAIN pinned = {}
    <2>1. made.rules = <<>>
      BY <1>4, <1>10 DEF CustomizationRules
    <2>2. Serves(made, p) = {a.media : a \in ToSet(made.media)}
      BY <2>1 DEF Serves
    <2>3. \A a \in Assets(c) : a.placement = {}
      BY <1>1, <1>5, <1>10
    <2>4. \A m \in ToSet(made.media) : m.label = {}
      BY <1>6, <2>3
    <2>5. Serves(made, p) = LabelledAs(made, {})
      BY <2>2, <2>4 DEF LabelledAs
    <2>6. Serves(made, p) = Unpinned(c)
      BY <2>5, <1>7 DEF Unpinned
    <2>7. PinnedTo(c, p) = {}
      BY <2>3 DEF PinnedTo
    <2>8. QED BY <2>6, <2>7 DEF made, r
  <1>11. QED BY <1>9, <1>10

(* A placement that the plan targets is one its ad set delivers to.        *)
LEMMA TargetsAreDelivered ==
    ASSUME NEW s, PlacementsAccepted(s.placements), s.placements \in PlacementsType,
           NEW p \in Placements, Targets(s.placements, p)
    PROVE  p \in Delivers(MetaTargeting(s))
  <1> DEFINE pl == s.placements
             t == MetaTargeting(s)
             others == (pl.positions \ Placements) \cup (UNION {PlatformOf(x) : x \in pl.positions})
  <1>1. /\ t.publisher_platforms = IF pl.positions = {} THEN pl.platforms ELSE others
        /\ t.positions = pl.positions \cap Placements
    BY DEF MetaTargeting
  <1> HIDE DEF t, others
  <1>2. CASE pl.mode = "automatic"
    <2>1. pl.platforms = {} /\ pl.positions = {}
      BY <1>2 DEF PlacementsAccepted
    <2>2. QED BY <2>1, <1>1 DEF Delivers, t
  <1>3. CASE p \in pl.positions
    BY <1>1, <1>3 DEF Delivers, t
  <1>4. CASE pl.positions = {} /\ PlatformOf(p) \cap pl.platforms # {}
    <2>1. PlatformOf(p) = {ASSET_PLACEMENTS[p][1]}
      BY DEF PlatformOf
    <2>2. PlatformOf(p) \subseteq t.publisher_platforms /\ t.positions = {}
      BY <2>1, <1>1, <1>4
    <2>3. QED BY <2>2 DEF Delivers, t
  <1>5. QED BY <1>2, <1>3, <1>4 DEF Targets

(* What the ads on Meta were asked for.                                    *)
LEMMA AdInItsPlace ==
    ASSUME IInv, NEW i \in DOMAIN campaign.ad_sets, NEW j \in DOMAIN campaign.ad_sets[i].ads
    PROVE  LET c == plan.ad_sets[i].ads[j].creative IN
           /\ j \in DOMAIN plan.ad_sets[i].ads
           /\ c \in CreativeType /\ CreativeAccepted(c)
           /\ \A a \in Assets(c) : \A p \in a.placement : Targets(plan.ad_sets[i].placements, p)
           /\ Request(c) \in RequestType /\ ~Refused(Request(c), VideoMedia)
           /\ \E videos \in SUBSET VideoMedia :
                  campaign.ad_sets[i].ads[j].creative = Created(Request(c), videos)
  <1> DEFINE c == plan.ad_sets[i].ads[j].creative
  <1>1. /\ stage \in Started \ {"campaign_created"} /\ i \in DOMAIN plan.ad_sets
        /\ campaign.ad_sets[i] \in MetaAdSetType
    BY InItsPlace
  <1>2. plan \in PlanType /\ TypeOK /\ StillValid /\ stage # "planned"
    BY <1>1 DEF IInv, TypeOK, Started
  <1>3. j \in DOMAIN plan.ad_sets[i].ads
    <2>1. campaign.ad_sets[i].ads \in Seq([name : STRING, creative : MadeCreativeType])
      BY <1>1 DEF MetaAdSetType
    <2>2. DOMAIN campaign.ad_sets[i].ads = 1 .. Len(campaign.ad_sets[i].ads)
          /\ Len(campaign.ad_sets[i].ads) \in Nat
      BY <2>1, MembersOfSequence
    <2>3. DOMAIN plan.ad_sets[i].ads = 1 .. Len(plan.ad_sets[i].ads) /\ Len(plan.ad_sets[i].ads) \in Nat
      BY <1>1, <1>2, PlanParts
    <2>4. Len(campaign.ad_sets[i].ads) <= Len(plan.ad_sets[i].ads)
      BY <1>1 DEF IInv, AdSetsArePlanned
    <2>5. QED BY <2>2, <2>3, <2>4
  <1>4. /\ c \in CreativeType /\ CreativeAccepted(c)
        /\ \A a \in Assets(c) : \A p \in a.placement : Targets(plan.ad_sets[i].placements, p)
    BY <1>1, <1>2, <1>3, FilesAreUsable
  <1>5. Uploadable(c)
    <2>1. AssetRefs(c) \subseteq AllRefs(plan)
      BY <1>1, <1>2, <1>3, RefsOfPlan
    <2>2. QED BY <2>1 DEF IInv, KindsAreKept, Uploadable
  <1>6. /\ ~Refused(Request(c), VideoMedia)
        /\ \E videos \in SUBSET VideoMedia :
               campaign.ad_sets[i].ads[j].creative = Created(Request(c), videos)
    BY DEF IInv, AdsArePlanned
  <1> HIDE DEF c
  <1>7. Request(c) \in RequestType
    BY <1>4, <1>5, RequestIsTyped
  <1>8. QED
    BY <1>3, <1>4, <1>6, <1>7 DEF c

LEMMA InvImpliesServes == IInv => ServesAsPlanned
  <1> SUFFICES ASSUME IInv, NEW i \in DOMAIN campaign.ad_sets,
                      NEW j \in DOMAIN campaign.ad_sets[i].ads,
                      plan.ad_sets[i].ads[j].creative.mode = "multi_variant",
                      ~Twins(plan.ad_sets[i].ads[j].creative)
               PROVE  LET wanted == plan.ad_sets[i].ads[j].creative
                          made == campaign.ad_sets[i].ads[j].creative
                          where == Delivers(campaign.ad_sets[i].targeting)
                      IN  /\ UNION {a.placement : a \in Assets(wanted)} \subseteq where
                          /\ \A p \in where :
                                 Serves(made, p) = IF PinnedTo(wanted, p) = {} THEN Unpinned(wanted)
                                                   ELSE PinnedTo(wanted, p)
    BY Zenon DEF ServesAsPlanned
  <1> DEFINE c == plan.ad_sets[i].ads[j].creative
             made == campaign.ad_sets[i].ads[j].creative
             where == Delivers(campaign.ad_sets[i].targeting)
             t == plan.ad_sets[i]
  <1>1. /\ stage # "planned" /\ t \in AdSets(plan) /\ t \in AdSetType
        /\ campaign.ad_sets[i].targeting = MetaTargeting(t)
    <2>1. plan \in PlanType /\ i \in DOMAIN plan.ad_sets
      BY InItsPlace DEF IInv, TypeOK
    <2>2. t \in AdSetType
      BY <2>1, PlanParts
    <2>3. QED BY <2>2, InItsPlace DEF Started
  <1>2. PlacementsAccepted(t.placements) /\ t.placements \in PlacementsType
    BY <1>1 DEF IInv, StillValid, Accepted, AdSetAccepted, AdSetType
  <1>3. /\ c \in CreativeType /\ CreativeAccepted(c)
        /\ \A a \in Assets(c) : \A p \in a.placement : Targets(t.placements, p)
        /\ Request(c) \in RequestType /\ ~Refused(Request(c), VideoMedia)
        /\ \E videos \in SUBSET VideoMedia : made = Created(Request(c), videos)
    BY AdInItsPlace
  <1>4. c.mode = "multi_variant" /\ ~Twins(c)
    OBVIOUS
  <1>5. where \subseteq Placements
    BY DEF Delivers
  <1>6. UNION {a.placement : a \in Assets(c)} \subseteq where
    <2>1. ASSUME NEW a \in Assets(c), NEW p \in a.placement PROVE p \in where
      <3>1. a.placement \subseteq Placements
        BY <1>3 DEF CreativeAccepted, AssetAccepted
      <3>2. p \in Delivers(MetaTargeting(t))
        BY <1>2, <1>3, <3>1, TargetsAreDelivered
      <3>3. QED BY <3>2, <1>1
    <2>2. QED BY <2>1
  <1> HIDE DEF c, made
  <1>7. made = FeedCreative(Request(c)) /\ ~FeedRefused(Request(c), VideoMedia)
    <2>1. Request(c).mode = "multi_variant"
      BY <1>4 DEF Request
    <2>2. QED BY <2>1, <1>3 DEF Created, Refused
  <1>8. ASSUME NEW p \in where
        PROVE  Serves(made, p) = IF PinnedTo(c, p) = {} THEN Unpinned(c) ELSE PinnedTo(c, p)
    BY <1>3, <1>4, <1>5, <1>7, FeedServes
  <1>9. QED
    BY <1>6, <1>8 DEF c, made

(* Wherever an ad set on Meta delivers, a multi-variant creative shows the *)
(* assets that the plan pins to that placement, and the others where it    *)
(* pins none, whatever the plan, unless two files are one on Meta          *)
(* (creatives.py, the customization rules; models/plan.py:338).            *)
THEOREM PinsAreServed == Spec => []ServesAsPlanned
  <1>1. QED
    BY InvImpliesServes, InvHolds, PTL

-----------------------------------------------------------------------------
(* The copy.  What is known of a source, and of the plan that was made of  *)
(* it, until that plan is built.                                           *)

(* At most one kind of budget.                                             *)
OneOf(obj) ==
    obj.daily \in Nat /\ obj.lifetime \in Nat /\ (obj.daily = 0 \/ obj.lifetime = 0)

(* Positions are on their platforms.                                       *)
TargetingIsOurs(t) ==
    /\ t.publisher_platforms \cap Placements = {}
    /\ \A q \in t.positions : PlatformOf(q) \subseteq t.publisher_platforms

(* What the creative commands make has these parts.                        *)
MadeWell(c) ==
    LET one == c.media = <<[media |-> c.media[1].media, label |-> {}]>> IN
    /\ c.shape = "video" => one /\ c.cards = <<>>
    /\ c.shape = "link" /\ c.cards = <<>> => one
    /\ c.shape = "link" /\ c.cards # <<>> =>
           c.media = <<>> /\ \A i \in DOMAIN c.cards : c.cards[i].link # {}
    /\ c.shape \in {"post", "instagram_post"} => c.media = <<>> /\ c.cards = <<>> /\ c.url = {}

SourceWasBuilt ==
    source # NotBuilt =>
        /\ source.account \in DOMAIN RealCurrency
        /\ OneOf(source.campaign)
        /\ \A i \in DOMAIN source.ad_sets :
              LET s == source.ad_sets[i] IN
              /\ OneOf(s) /\ TargetingIsOurs(s.targeting)
              /\ BudgetFields(source.campaign) # {} => BudgetFields(s) = {}
              /\ \A j \in DOMAIN s.ads : MadeWell(s.ads[j].creative)

(* A plan with other dates than a copy.                                    *)
IsCopy(p, copy) ==
    /\ p.ad_account_id = copy.ad_account_id /\ p.budget = copy.budget
    /\ DOMAIN p.ad_sets = DOMAIN copy.ad_sets
    /\ \A i \in DOMAIN copy.ad_sets :
          LET s == p.ad_sets[i]
              t == copy.ad_sets[i]
          IN  /\ s.budget = t.budget /\ s.targeting = t.targeting
              /\ s.placements = t.placements /\ s.bid_amount = t.bid_amount
              /\ s.bid_strategy = t.bid_strategy /\ s.tracking = t.tracking
              /\ s.optimization_goal = t.optimization_goal /\ s.ads = t.ads

PlanIsTheCopy ==
    source # NotBuilt =>
        \E saved \in BOOLEAN, currency \in {{}, {"PLN"}} :
            LET src == SavedSource(source, saved) IN
            /\ ~DuplicateRefused(src, currency, "copy", VideoMedia)
            /\ IsCopy(plan, CopiedPlan(src, currency, "copy", VideoMedia))

PlatformsAreNamed ==
    \A s \in AdSets(plan) : s.placements.platforms \cap Placements = {}

AdsAreDone == stage = "ads_created" => AllAdsBuilt

SInv == SourceWasBuilt /\ PlanIsTheCopy /\ PlatformsAreNamed /\ AdsAreDone

-----------------------------------------------------------------------------
(* A creative, read back and made again.                                   *)

(* The parts of what is created that a copy reads.                         *)
LEMMA CreatedParts ==
    ASSUME NEW r \in RequestType, NEW videos
    PROVE  LET c == Created(r, videos) IN
           /\ c.page = r.page
           /\ r.mode = "single_image" =>
                  c.shape = "link" /\ c.media = OneMedium(r) /\ c.cards = <<>> /\ c.url = r.url
           /\ r.mode = "single_video" =>
                  c.shape = "video" /\ c.media = OneMedium(r) /\ c.cards = <<>> /\ c.url = r.url
           /\ r.mode = "carousel" =>
                  /\ c.shape = "link" /\ c.media = <<>> /\ c.url = r.url
                  /\ c.cards = [i \in DOMAIN r.cards |->
                        [media |-> r.cards[i].media,
                         link |-> IF r.cards[i].link = {} THEN r.url ELSE r.cards[i].link]]
           /\ r.mode = "existing_post" =>
                  /\ c.shape = IF r.instagram_media THEN "instagram_post" ELSE "post"
                  /\ c.media = <<>> /\ c.cards = <<>> /\ c.url = {}
           /\ r.mode = "multi_variant" => c.shape = "feed"
  <1>1. r.mode \in Modes
    BY DEF RequestType
  <1>2. CASE r.mode = "single_image"
    BY <1>2 DEF Created, LinkCreative, Blank
  <1>3. CASE r.mode = "single_video"
    BY <1>3 DEF Created, VideoCreative, Blank
  <1>4. CASE r.mode = "carousel"
    BY <1>4 DEF Created, CarouselCreative, Blank
  <1>5. CASE r.mode = "existing_post"
    BY <1>5 DEF Created, ExistingPostCreative, Blank
  <1>6. CASE r.mode = "multi_variant"
    BY <1>6 DEF Created, FeedCreative, Blank
  <1>7. QED
    BY <1>1, <1>2, <1>3, <1>4, <1>5, <1>6 DEF Modes

LEMMA OneMediumIsOne ==
    ASSUME NEW r, NEW c, c.media = OneMedium(r)
    PROVE  /\ c.media = <<[media |-> c.media[1].media, label |-> {}]>>
           /\ c.media[1].media = r.assets[1].media
  <1>1. c.media[1] = [media |-> r.assets[1].media, label |-> {}]
    BY DEF OneMedium
  <1>2. QED
    BY <1>1 DEF OneMedium

LEMMA CreatedIsWell ==
    ASSUME NEW r \in RequestType, NEW videos, ~Refused(r, VideoMedia)
    PROVE  MadeWell(Created(r, videos))
  <1> DEFINE c == Created(r, videos)
  <1>1. r.mode \in Modes
    BY DEF RequestType
  <1>2. CASE r.mode \in {"single_image", "single_video"}
    <2>1. c.media = OneMedium(r) /\ c.cards = <<>> /\ c.shape \in {"link", "video"}
      BY <1>2, CreatedParts
    <2> HIDE DEF c
    <2>2. c.media = <<[media |-> c.media[1].media, label |-> {}]>>
      BY <2>1, OneMediumIsOne
    <2>3. QED BY <2>1, <2>2 DEF MadeWell, c
  <1>3. CASE r.mode = "carousel"
    <2>1. /\ c.shape = "link" /\ c.media = <<>>
          /\ c.cards = [i \in DOMAIN r.cards |->
                        [media |-> r.cards[i].media,
                         link |-> IF r.cards[i].link = {} THEN r.url ELSE r.cards[i].link]]
      BY <1>3, CreatedParts
    <2>2. r.url # {} /\ Len(r.cards) \in 2 .. 10
      BY <1>3 DEF Refused, OptionsGiven, CAROUSEL_MIN_CARDS, CAROUSEL_MAX_CARDS
    <2>3. 1 \in DOMAIN r.cards
      <3>1. r.cards \in Seq([media : STRING, link : Optional(UrlType), still : BOOLEAN])
        BY DEF RequestType
      <3>2. QED BY <2>2, <3>1, MembersOfSequence
    <2>4. \A i \in DOMAIN c.cards : c.cards[i].link # {}
      BY <2>1, <2>2
    <2>5. c.cards # <<>>
      BY <2>1, <2>3
    <2> HIDE DEF c
    <2>6. QED BY <2>1, <2>4, <2>5 DEF MadeWell, c
  <1>4. CASE r.mode = "existing_post"
    <2>1. c.media = <<>> /\ c.cards = <<>> /\ c.url = {} /\ c.shape \in {"post", "instagram_post"}
      BY <1>4, CreatedParts
    <2> HIDE DEF c
    <2>2. QED BY <2>1 DEF MadeWell, c
  <1>5. CASE r.mode = "multi_variant"
    <2>1. c.shape = "feed"
      BY <1>5, CreatedParts
    <2> HIDE DEF c
    <2>2. QED BY <2>1 DEF MadeWell, c
  <1>6. QED
    BY <1>1, <1>2, <1>3, <1>4, <1>5 DEF Modes

(* A creative that is copied shows the same again.                         *)
LEMMA CopyShowsTheSame ==
    ASSUME NEW old \in MadeCreativeType, MadeWell(old), ~CreativeRefused(old),
           CreativeAccepted(CopiedCreative(old, VideoMedia)),
           Request(CopiedCreative(old, VideoMedia)) \in RequestType, NEW videos
    PROVE  LET new == Created(Request(CopiedCreative(old, VideoMedia)), videos) IN
           /\ new.media = old.media /\ new.cards = old.cards /\ new.url = old.url
           /\ new.page = old.page /\ new.shape = old.shape
  <1> DEFINE c == CopiedCreative(old, VideoMedia)
             r == Request(c)
             new == Created(r, videos)
  <1>1. /\ r.mode = c.mode /\ r.page = c.page /\ r.url = c.url
        /\ r.instagram_media = c.instagram_media /\ r \in RequestType
    BY DEF Request
  <1>2. \A x : Remote(FromMedia(x, VideoMedia)) = x
    BY DEF Remote, FromMedia
  <1>3. CASE old.shape \in {"post", "instagram_post"}
    <2>1. c = CopiedPost(old)
      BY <1>3 DEF CopiedCreative
    <2>2. old.media = <<>> /\ old.cards = <<>> /\ old.url = {}
      BY <1>3 DEF MadeWell
    <2>3. CASE old.shape = "instagram_post"
      <3>1. c.mode = "existing_post" /\ c.instagram_media /\ c.page = {}
        BY <2>1, <2>3 DEF CopiedPost, NoCreative
      <3>2. ExistingPostAccepted(c)
        BY <3>1 DEF CreativeAccepted
      <3>3. QED BY <3>1, <3>2 DEF ExistingPostAccepted
    <2>4. CASE old.shape = "post"
      <3>1. c.mode = "existing_post" /\ ~c.instagram_media /\ c.page = old.page
        BY <2>1, <2>4 DEF CopiedPost, NoCreative
      <3> HIDE DEF c
      <3>2. /\ new.shape = "post" /\ new.media = <<>> /\ new.cards = <<>>
            /\ new.url = {} /\ new.page = old.page
        BY <3>1, <1>1, CreatedParts
      <3>3. QED BY <3>2, <2>2, <2>4 DEF c
    <2>5. QED BY <1>3, <2>3, <2>4
  <1>4. CASE old.shape \in {"link", "video"}
    <2>1. c = CopiedLink(old, VideoMedia)
      BY <1>4 DEF CopiedCreative
    <2>2. /\ c.mode = IF old.shape = "video" THEN "single_video"
                      ELSE IF old.cards # <<>> THEN "carousel" ELSE "single_image"
          /\ c.url = old.url /\ c.page = old.page
          /\ c.assets = [i \in DOMAIN old.media |-> FromMedia(old.media[i].media, VideoMedia)]
          /\ c.cards = [i \in DOMAIN old.cards |->
                           [asset |-> FromMedia(old.cards[i].media, VideoMedia),
                            link |-> old.cards[i].link]]
      BY <2>1 DEF CopiedLink, NoCreative
    <2>3. CASE old.shape = "video" \/ old.cards = <<>>
      <3> DEFINE x == old.media[1].media
                 a == FromMedia(x, VideoMedia)
      <3>1. old.media = <<[media |-> x, label |-> {}]>> /\ old.cards = <<>>
        BY <1>4, <2>3 DEF MadeWell
      <3>2. DOMAIN old.media = {1}
        BY <3>1
      <3>3. DOMAIN c.assets = {1} /\ c.assets[1] = a
        BY <2>2, <3>2
      <3>4. Assets(c) = {a}
        BY <3>3 DEF Assets, ToSet
      <3>5. r.assets[1].media = x
        <4>1. CASE c.mode = "single_video"
          <5>1. (CHOOSE b \in Assets(c) : b.video) = a
            <6>1. \E b \in Assets(c) : b.video
              BY <4>1 DEF CreativeAccepted, FromAssetsAccepted
            <6>2. QED BY <6>1, <3>4
          <5> DEFINE usable == <<CHOOSE b \in Assets(c) : b.video>>
          <5>2. r.assets = [i \in DOMAIN usable |-> RequestAsset(usable[i])]
            BY <4>1 DEF Request
          <5>3. usable = <<a>>
            BY <5>1
          <5> HIDE DEF usable, r
          <5>4. r.assets[1] = RequestAsset(a)
            BY <5>2, <5>3
          <5>5. QED BY <5>4, <1>2 DEF RequestAsset
        <4>2. CASE c.mode # "single_video"
          <5>1. r.assets = [i \in DOMAIN c.assets |-> RequestAsset(c.assets[i])]
            BY <4>2 DEF Request
          <5> HIDE DEF c, r
          <5>2. r.assets[1] = RequestAsset(a)
            BY <5>1, <3>3
          <5>3. QED BY <5>2, <1>2 DEF RequestAsset
        <4>3. QED BY <4>1, <4>2
      <3> HIDE DEF c, r
      <3>6. /\ new.shape = old.shape /\ new.media = OneMedium(r) /\ new.cards = <<>>
            /\ new.url = old.url /\ new.page = old.page
        <4>1. CASE old.shape = "video"
          <5>1. r.mode = "single_video"
            BY <4>1, <1>1, <2>2
          <5>2. QED BY <4>1, <5>1, <1>1, <2>2, CreatedParts
        <4>2. CASE old.shape = "link"
          <5>1. r.mode = "single_image"
            BY <4>2, <1>1, <2>2, <3>1
          <5>2. QED BY <4>2, <5>1, <1>1, <2>2, CreatedParts
        <4>3. QED BY <4>1, <4>2, <1>4
      <3>7. OneMedium(r) = <<[media |-> x, label |-> {}]>>
        BY <3>5 DEF OneMedium
      <3>8. QED BY <3>1, <3>6, <3>7 DEF c, r
    <2>4. CASE old.shape = "link" /\ old.cards # <<>>
      <3>1. old.media = <<>> /\ \A i \in DOMAIN old.cards : old.cards[i].link # {}
        BY <2>4 DEF MadeWell
      <3>2. r.cards = [i \in DOMAIN c.cards |->
                          [media |-> Remote(c.cards[i].asset), link |-> c.cards[i].link, still |-> FALSE]]
        BY DEF Request
      <3>3. c.mode = "carousel"
        BY <2>2, <2>4
      <3> HIDE DEF c, r
      <3>4. /\ DOMAIN r.cards = DOMAIN old.cards
            /\ \A i \in DOMAIN old.cards :
                  r.cards[i].media = old.cards[i].media /\ r.cards[i].link = old.cards[i].link
        BY <1>2, <2>2, <3>2
      <3>5. /\ new.shape = "link" /\ new.media = <<>> /\ new.url = old.url /\ new.page = old.page
            /\ new.cards = [i \in DOMAIN r.cards |->
                        [media |-> r.cards[i].media,
                         link |-> IF r.cards[i].link = {} THEN r.url ELSE r.cards[i].link]]
        BY <1>1, <2>2, <3>3, CreatedParts
      <3>6. new.cards = [i \in DOMAIN old.cards |->
                            [media |-> old.cards[i].media, link |-> old.cards[i].link]]
        BY <3>1, <3>4, <3>5
      <3>7. old.cards = [i \in DOMAIN old.cards |->
                            [media |-> old.cards[i].media, link |-> old.cards[i].link]]
        <4> DEFINE Card == [media : STRING, link : Optional(UrlType)]
        <4>1. old.cards \in Seq(Card)
          BY DEF MadeCreativeType
        <4>2. DOMAIN old.cards = 1 .. Len(old.cards) /\ \A i \in DOMAIN old.cards : old.cards[i] \in Card
          <5> HIDE DEF Card
          <5>1. QED BY <4>1, MembersOfSequence
        <4>3. \A i \in DOMAIN old.cards :
                  old.cards[i] = [media |-> old.cards[i].media, link |-> old.cards[i].link]
          BY <4>2
        <4>4. old.cards = [i \in DOMAIN old.cards |-> old.cards[i]]
          BY <4>1
        <4>5. QED BY <4>3, <4>4
      <3>8. QED BY <2>4, <3>1, <3>5, <3>6, <3>7 DEF c, r
    <2>5. QED BY <1>4, <2>3, <2>4
  <1>5. old.shape \in {"post", "instagram_post", "link", "video"}
    BY DEF MadeCreativeType, CreativeRefused
  <1>6. QED BY <1>3, <1>4, <1>5

-----------------------------------------------------------------------------
(* Where an ad set delivers, and what is paid, copied and made again.      *)

LEMMA PlatformOfPlacement ==
    ASSUME NEW q \in Placements
    PROVE  \E x : PlatformOf(q) = {x} /\ x \notin Placements
  <1>1. PlatformOf(q) = {ASSET_PLACEMENTS[q][1]}
    BY DEF PlatformOf
  <1>2. ASSET_PLACEMENTS[q][1] \in {"facebook", "instagram"}
    BY PlacementsListed
  <1>3. "facebook" \notin Placements /\ "instagram" \notin Placements
    BY PlacementsListed
  <1>4. QED BY <1>1, <1>2, <1>3

LEMMA MetaTargetingIsOurs ==
    ASSUME NEW s, s.placements.platforms \cap Placements = {}
    PROVE  TargetingIsOurs(MetaTargeting(s))
  <1> DEFINE p == s.placements
             U == UNION {PlatformOf(x) : x \in p.positions}
             t == MetaTargeting(s)
  <1>1. /\ t.publisher_platforms = IF p.positions = {} THEN p.platforms ELSE (p.positions \ Placements) \cup U
        /\ t.positions = p.positions \cap Placements
    BY DEF MetaTargeting
  <1>2. U \cap Placements = {}
    <2>1. ASSUME NEW x \in p.positions PROVE PlatformOf(x) \cap Placements = {}
      <3>1. CASE x \in Placements
        BY <3>1, PlatformOfPlacement
      <3>2. CASE x \notin Placements
        BY <3>2 DEF PlatformOf
      <3>3. QED BY <3>1, <3>2
    <2>2. QED BY <2>1
  <1>3. \A x \in p.positions : PlatformOf(x) \subseteq U
    OBVIOUS
  <1> HIDE DEF U, t
  <1>4. QED BY <1>1, <1>2, <1>3 DEF TargetingIsOurs, t

LEMMA CopyDeliversThere ==
    ASSUME NEW t \in MetaTargetingType, TargetingIsOurs(t), NEW s, s.placements = CopiedPlacements(t)
    PROVE  /\ MetaTargeting(s).publisher_platforms = t.publisher_platforms
           /\ MetaTargeting(s).positions = t.positions
  <1> DEFINE P == t.publisher_platforms
             Q == t.positions
             Own(x) == {q \in Q : PlatformOf(q) = {x}}
             CP == CopiedPositions(t)
             U == UNION {PlatformOf(y) : y \in CP}
             made == MetaTargeting(s)
  <1>1. CP = UNION {IF Own(x) = {} THEN {x} ELSE Own(x) : x \in P}
    BY Zenon DEF CopiedPositions
  <1>2. P \cap Placements = {} /\ Q \subseteq Placements
        /\ \A q \in Q : PlatformOf(q) \subseteq P
    BY DEF TargetingIsOurs, MetaTargetingType
  <1>3. /\ made.publisher_platforms = IF CP = {} THEN {} ELSE (CP \ Placements) \cup U
        /\ made.positions = CP \cap Placements
    <2>1. s.placements.positions = CP /\ s.placements.platforms = {}
      BY DEF CopiedPlacements
    <2> HIDE DEF CP
    <2>2. QED BY <2>1 DEF MetaTargeting
  <1>4. ASSUME NEW y \in CP PROVE \E x \in P : (Own(x) = {} /\ y = x) \/ y \in Own(x)
    <2> HIDE DEF Own, CP
    <2>1. QED BY <1>1
  <1>5. ASSUME NEW x \in P, NEW y, (Own(x) = {} /\ y = x) \/ y \in Own(x) PROVE y \in CP
    <2> HIDE DEF Own, CP
    <2>1. QED BY <1>1, <1>5
  <1> HIDE DEF CP, made
  <1>6. ASSUME NEW q \in Q PROVE q \in CP
    <2>1. PICK x : PlatformOf(q) = {x}
      BY <1>2, PlatformOfPlacement
    <2>2. x \in P /\ q \in Own(x)
      BY <2>1, <1>2
    <2>3. QED BY <2>2, <1>5
  <1>7. CP \cap Placements = Q
    <2>1. ASSUME NEW y \in CP, y \in Placements PROVE y \in Q
      BY <1>2, <1>4, <2>1
    <2>2. QED BY <2>1, <1>2, <1>6
  <1>8. ASSUME NEW x \in P PROVE x \in (CP \ Placements) \cup U
    <2>1. CASE Own(x) = {}
      <3>1. x \in CP
        BY <2>1, <1>5
      <3>2. QED BY <3>1, <1>2
    <2>2. CASE Own(x) # {}
      <3>1. PICK q \in Q : PlatformOf(q) = {x}
        BY <2>2
      <3>2. QED BY <3>1, <1>6
    <2>3. QED BY <2>1, <2>2
  <1>9. ASSUME NEW x \in (CP \ Placements) \cup U PROVE x \in P
    <2>1. CASE x \in CP \ Placements
      <3>1. PICK y \in P : (Own(y) = {} /\ x = y) \/ x \in Own(y)
        BY <2>1, <1>4
      <3>2. QED BY <3>1, <2>1, <1>2
    <2>2. CASE x \in U
      <3>1. PICK y \in CP : x \in PlatformOf(y)
        BY <2>2
      <3>2. y \in Placements
        BY <3>1 DEF PlatformOf
      <3>3. y \in Q
        BY <3>2, <1>7
      <3>4. QED BY <3>1, <3>3, <1>2
    <2>3. QED BY <1>9, <2>1, <2>2
  <1>10. CP = {} => P = {}
    BY <1>8
  <1>11. (CP \ Placements) \cup U = P
    BY <1>8, <1>9
  <1>12. QED
    BY <1>3, <1>7, <1>10, <1>11 DEF made

(* An amount is shown in the scale it will be read in.                     *)
LEMMA AmountComesBack ==
    ASSUME NEW minor \in Int, NEW c, NEW offset, Scale(c, offset) \in Offsets,
           Scale(c, AccountOffset(account, c)) = Scale(c, offset)
    PROVE  Resolved(Display(FromMinor(minor, c, offset)), c, account) = minor
  <1> DEFINE u == SmallestUnit(Scale(c, offset))
             shows == Display(FromMinor(minor, c, offset))
  <1>1. shows = minor * u
    BY DEF Display, FromMinor
  <1>2. u \in {10000, 1000, 100, 10, 1}
    BY UnitIsPower
  <1>3. Resolved(shows, c, account) = shows \div u
    <2> HIDE DEF shows
    <2>1. QED BY DEF Resolved, FromDisplay, FromMinor
  <1> HIDE DEF u, shows
  <1>4. (minor * u) \div u = minor
    BY <1>2, UnitsCancel
  <1>5. QED BY <1>1, <1>3, <1>4 DEF shows

LEMMA BudgetComesBack ==
    ASSUME NEW obj, OneOf(obj), NEW level, NEW c, NEW offset, Scale(c, offset) \in Offsets,
           Scale(c, AccountOffset(account, c)) = Scale(c, offset)
    PROVE  LET budgets == CopiedBudget(obj, level, {c}, offset) IN
           /\ MinorOf(budgets, "daily") = obj.daily /\ MinorOf(budgets, "lifetime") = obj.lifetime
           /\ budgets = {} <=> BudgetFields(obj) = {}
  <1> DEFINE type == IF obj.daily # 0 THEN "daily" ELSE "lifetime"
             minor == IF obj.daily # 0 THEN obj.daily ELSE obj.lifetime
             shows == Display(FromMinor(minor, c, offset))
             budgets == CopiedBudget(obj, level, {c}, offset)
  <1>1. minor \in Int /\ type \in {"daily", "lifetime"}
        /\ obj.daily \in Nat /\ obj.lifetime \in Nat /\ (obj.daily = 0 \/ obj.lifetime = 0)
    BY DEF OneOf
  <1>2. Resolved(shows, c, account) = minor
    <2> HIDE DEF minor
    <2>1. QED BY <1>1, AmountComesBack
  <1>3. Amounts(minor, {c}, offset) = IF minor = 0 THEN {} ELSE {shows}
    BY DEF Amounts
  <1>4. budgets = {Budget(level, type, amount, d) : amount \in Amounts(minor, {c}, offset), d \in {c}}
    BY DEF CopiedBudget
  <1>5. CASE minor = 0
    <2>1. budgets = {}
      BY <1>3, <1>4, <1>5
    <2>2. obj.daily = 0 /\ obj.lifetime = 0
      BY <1>1, <1>5
    <2> HIDE DEF budgets
    <2>3. \A x : MinorOf(budgets, x) = 0
      BY <2>1 DEF MinorOf
    <2>4. QED BY <2>1, <2>2, <2>3, NoFieldsNoBudget DEF budgets
  <1>6. CASE minor # 0
    <2> DEFINE b == Budget(level, type, shows, c)
    <2>1. budgets = {b}
      <3> HIDE DEF minor, type, shows
      <3>1. QED BY <1>3, <1>4, <1>6
    <2>2. b.type = type /\ b.amount = shows /\ b.currency = c
      BY DEF Budget
    <2> HIDE DEF budgets, shows, b
    <2>3. MinorOf(budgets, type) = minor
      <3> HIDE DEF type, minor
      <3>1. (CHOOSE x \in budgets : TRUE) = b
        BY <2>1
      <3>2. QED BY <2>1, <2>2, <3>1, <1>2 DEF MinorOf
    <2>4. ASSUME NEW x, x # type PROVE MinorOf(budgets, x) = 0
      <3> HIDE DEF type
      <3>1. QED BY <2>1, <2>2, <2>4 DEF MinorOf
    <2>5. MinorOf(budgets, "daily") = obj.daily /\ MinorOf(budgets, "lifetime") = obj.lifetime
      <3>1. CASE obj.daily # 0
        BY <3>1, <2>3, <2>4, <1>1
      <3>2. CASE obj.daily = 0
        BY <3>2, <2>3, <2>4, <1>1
      <3>3. QED BY <3>1, <3>2
    <2>6. budgets # {} /\ BudgetFields(obj) # {}
      BY <2>1, <1>6, NoFieldsNoBudget
    <2>7. QED BY <2>5, <2>6 DEF budgets
  <1>7. QED BY <1>5, <1>6

-----------------------------------------------------------------------------
(* The source and its copy stay what they are until the copy is built.     *)

LEMMA OneBudgetIsOne ==
    ASSUME NEW budgets \in Optional(BudgetType), \A b \in budgets : BudgetIsSound(b, account)
    PROVE  /\ MinorOf(budgets, "daily") \in Nat /\ MinorOf(budgets, "lifetime") \in Nat
           /\ MinorOf(budgets, "daily") = 0 \/ MinorOf(budgets, "lifetime") = 0
  <1>1. \A type : /\ MinorOf(budgets, type) \in Nat
                  /\ MinorOf(budgets, type) # 0 => \E b \in budgets : b.type = type
    BY MinorOfBudget
  <1>2. \A b, d \in budgets : b.type = d.type
    BY DEF Optional
  <1>3. QED BY <1>1, <1>2

LEMMA SInvInit == NoPlatformIsAPlacement /\ Init => SInv
  BY DEF NoPlatformIsAPlacement, Init, SInv, SourceWasBuilt, PlanIsTheCopy,
         PlatformsAreNamed, AdsAreDone

LEMMA SInvKept ==
    ASSUME SInv, UNCHANGED <<plan, source>>, AdsAreDone'
    PROVE  SInv'
  <1>1. SourceWasBuilt' /\ PlatformsAreNamed'
    BY DEF SInv, SourceWasBuilt, PlatformsAreNamed
  <1>2. PlanIsTheCopy'
    BY DEF SInv, PlanIsTheCopy
  <1>3. QED BY <1>1, <1>2 DEF SInv

LEMMA SInvSetEnd ==
    ASSUME IInv, SInv, SetEnd
    PROVE  SInv'
  <1> DEFINE ended == [i \in DOMAIN plan.ad_sets |->
                          [plan.ad_sets[i] EXCEPT !.schedule.end = {[at |-> 2, utc |-> TRUE]}]]
  <1>1. stage = "planned" /\ plan' = [plan EXCEPT !.ad_sets = ended]
        /\ UNCHANGED <<stage, source>>
    BY DEF SetEnd
  <1>2. plan \in PlanType
    BY DEF IInv, TypeOK
  <1>3. /\ plan'.ad_account_id = plan.ad_account_id /\ plan'.budget = plan.budget
        /\ plan'.ad_sets = ended
    BY <1>1, <1>2 DEF PlanType
  <1>4. ASSUME NEW i \in DOMAIN plan.ad_sets
        PROVE  LET s == plan'.ad_sets[i]
                   t == plan.ad_sets[i]
               IN  /\ s.budget = t.budget /\ s.targeting = t.targeting
                   /\ s.placements = t.placements /\ s.bid_amount = t.bid_amount
                   /\ s.bid_strategy = t.bid_strategy /\ s.tracking = t.tracking
                   /\ s.optimization_goal = t.optimization_goal /\ s.ads = t.ads
    <2> DEFINE t == plan.ad_sets[i]
               dates == [t.schedule EXCEPT !.end = {[at |-> 2, utc |-> TRUE]}]
    <2>1. t \in AdSetType
      BY <1>2, PlanParts
    <2>2. plan'.ad_sets[i] = [t EXCEPT !.schedule.end = {[at |-> 2, utc |-> TRUE]}]
      BY <1>3
    <2>3. [t EXCEPT !.schedule.end = {[at |-> 2, utc |-> TRUE]}] = [t EXCEPT !.schedule = dates]
      OBVIOUS
    <2> HIDE DEF t, dates
    <2>4. QED BY <2>1, <2>2, <2>3 DEF AdSetType, t
  <1>5. DOMAIN plan'.ad_sets = DOMAIN plan.ad_sets
    BY <1>3
  <1> HIDE DEF ended
  <1>6. ASSUME NEW copy, IsCopy(plan, copy) PROVE IsCopy(plan', copy)
    BY <1>3, <1>4, <1>5, <1>6 DEF IsCopy
  <1>7. PlanIsTheCopy'
    <2>1. CASE source = NotBuilt
      BY <1>1, <2>1 DEF PlanIsTheCopy
    <2>2. CASE source # NotBuilt
      <3>1. PICK saved \in BOOLEAN, currency \in {{}, {"PLN"}} :
                LET src == SavedSource(source, saved) IN
                /\ ~DuplicateRefused(src, currency, "copy", VideoMedia)
                /\ IsCopy(plan, CopiedPlan(src, currency, "copy", VideoMedia))
        BY <2>2 DEF SInv, PlanIsTheCopy
      <3> DEFINE src == SavedSource(source, saved)
                 copy == CopiedPlan(src, currency, "copy", VideoMedia)
      <3>2. IsCopy(plan', copy) /\ ~DuplicateRefused(src, currency, "copy", VideoMedia)
        BY <3>1, <1>6
      <3>3. src' = src /\ copy' = copy
        BY <1>1 DEF SavedSource
      <3> HIDE DEF src, copy
      <3>4. IsCopy(plan', copy') /\ ~DuplicateRefused(src', currency, "copy", VideoMedia)
        BY <3>2, <3>3
      <3>5. QED BY <3>4 DEF PlanIsTheCopy, src, copy
    <2>3. QED BY <2>1, <2>2
  <1>8. PlatformsAreNamed'
    <2>1. ASSUME NEW s \in AdSets(plan') PROVE s.placements.platforms \cap Placements = {}
      <3>1. PICK i \in DOMAIN plan.ad_sets : s = plan'.ad_sets[i]
        BY <1>5 DEF AdSets, ToSet
      <3>2. plan.ad_sets[i] \in AdSets(plan)
        BY DEF AdSets, ToSet
      <3>3. QED BY <3>1, <3>2, <1>4 DEF SInv, PlatformsAreNamed
    <2>2. QED BY <2>1 DEF PlatformsAreNamed
  <1>9. SourceWasBuilt' /\ AdsAreDone'
    BY <1>1 DEF SInv, SourceWasBuilt, AdsAreDone
  <1>10. QED
    BY <1>7, <1>8, <1>9 DEF SInv

(* A campaign that was built is what a source is.                          *)
LEMMA BuiltIsASource ==
    ASSUME IInv, SInv, stage = "ads_created"
    PROVE  /\ campaign.account \in DOMAIN RealCurrency
           /\ OneOf(campaign.campaign)
           /\ \A i \in DOMAIN campaign.ad_sets :
                 LET s == campaign.ad_sets[i] IN
                 /\ OneOf(s) /\ TargetingIsOurs(s.targeting)
                 /\ BudgetFields(campaign.campaign) # {} => BudgetFields(s) = {}
                 /\ \A j \in DOMAIN s.ads : MadeWell(s.ads[j].creative)
  <1>1. stage \in Started /\ plan \in PlanType /\ PlanIsSound(plan, account)
        /\ campaign \in MetaCampaignType
    BY PlanInHand DEF IInv, TypeOK, Started
  <1>2. campaign.account \in DOMAIN RealCurrency
    BY <1>1, TheAccount
  <1>3. OneOf(campaign.campaign)
    <2>1. /\ campaign.campaign.lifetime = MinorOf(plan.budget, "lifetime")
          /\ campaign.campaign.daily >= 0 /\ campaign.campaign.daily \in Int
          /\ campaign.campaign.daily = 0 <=> MinorOf(plan.budget, "daily") = 0
      BY <1>1 DEF IInv, CampaignIsPlanned, MetaCampaignType
    <2>2. /\ MinorOf(plan.budget, "daily") \in Nat /\ MinorOf(plan.budget, "lifetime") \in Nat
          /\ MinorOf(plan.budget, "daily") = 0 \/ MinorOf(plan.budget, "lifetime") = 0
      BY <1>1, BudgetsOfPlan, OneBudgetIsOne
    <2>3. QED BY <2>1, <2>2 DEF OneOf
  <1>4. ASSUME NEW i \in DOMAIN campaign.ad_sets
        PROVE  LET s == campaign.ad_sets[i] IN
               /\ OneOf(s) /\ TargetingIsOurs(s.targeting)
               /\ BudgetFields(campaign.campaign) # {} => BudgetFields(s) = {}
               /\ \A j \in DOMAIN s.ads : MadeWell(s.ads[j].creative)
    <2> DEFINE s == campaign.ad_sets[i]
               t == plan.ad_sets[i]
    <2>1. /\ t \in AdSets(plan) /\ s \in ToSet(campaign.ad_sets)
          /\ s.daily = MinorOf(t.budget, "daily") /\ s.lifetime = MinorOf(t.budget, "lifetime")
          /\ s.targeting = MetaTargeting(t)
      BY InItsPlace DEF ToSet
    <2>2. OneOf(s)
      <3>1. /\ MinorOf(t.budget, "daily") \in Nat /\ MinorOf(t.budget, "lifetime") \in Nat
            /\ MinorOf(t.budget, "daily") = 0 \/ MinorOf(t.budget, "lifetime") = 0
        BY <1>1, <2>1, BudgetsOfPlan, OneBudgetIsOne
      <3>2. QED BY <3>1, <2>1 DEF OneOf
    <2>3. TargetingIsOurs(s.targeting)
      <3>1. t.placements.platforms \cap Placements = {}
        BY <2>1 DEF SInv, PlatformsAreNamed
      <3>2. QED BY <2>1, <3>1, MetaTargetingIsOurs
    <2>4. BudgetFields(campaign.campaign) # {} => BudgetFields(s) = {}
      BY <2>1, InvImpliesTheRest DEF OneLevelPays
    <2>5. ASSUME NEW j \in DOMAIN s.ads PROVE MadeWell(s.ads[j].creative)
      <3> DEFINE r == Request(t.ads[j].creative)
      <3>1. r \in RequestType /\ ~Refused(r, VideoMedia)
            /\ \E videos \in SUBSET VideoMedia : s.ads[j].creative = Created(r, videos)
        BY AdInItsPlace
      <3> HIDE DEF r
      <3>2. QED BY <3>1, CreatedIsWell
    <2>6. QED BY <2>2, <2>3, <2>4, <2>5
  <1>5. QED BY <1>2, <1>3, <1>4

LEMMA SInvDuplicate ==
    ASSUME IInv, SInv, NEW saved \in BOOLEAN, NEW currency \in {{}, {"PLN"}},
           DuplicateCampaign(saved, currency)
    PROVE  SInv'
  <1> DEFINE src == SavedSource(campaign, saved)
             copy == CopiedPlan(src, currency, "copy", VideoMedia)
             refused == DuplicateRefused(src, currency, "copy", VideoMedia)
  <1>1. stage = "ads_created"
    BY DEF DuplicateCampaign
  <1>2. CASE refused
    <2>1. UNCHANGED <<plan, stage, campaign, source>>
      BY <1>2 DEF DuplicateCampaign
    <2>2. AdsAreDone'
      BY <2>1 DEF SInv, AdsAreDone, AllAdsBuilt
    <2>3. QED BY <2>1, <2>2, SInvKept
  <1>3. CASE ~refused
    <2>1. plan' = copy /\ source' = campaign /\ stage' = "planned"
      BY <1>3 DEF DuplicateCampaign
    <2>2. AdsAreDone'
      BY <2>1 DEF AdsAreDone
    <2>3. SourceWasBuilt'
      BY <1>1, <2>1, BuiltIsASource DEF SourceWasBuilt
    <2>4. SavedSource(source, saved)' = src
      BY <2>1 DEF SavedSource
    <2>5. PlatformsAreNamed'
      <3>1. ASSUME NEW s \in AdSets(copy) PROVE s.placements.platforms = {}
        <4>1. PICK i \in DOMAIN copy.ad_sets : s = copy.ad_sets[i]
          BY DEF AdSets, ToSet
        <4> DEFINE code == Code(src, currency)
                   budget == CopiedBudget(src.campaign, "campaign", code, src.currency_offset)
        <4>2. copy.ad_sets = [k \in DOMAIN src.ad_sets |->
                                CopiedAdSet(src.ad_sets[k], src, code, budget, VideoMedia)]
          BY Zenon DEF CopiedPlan
        <4> HIDE DEF copy, code, budget, src
        <4>3. s = CopiedAdSet(src.ad_sets[i], src, code, budget, VideoMedia)
          BY <4>1, <4>2
        <4>4. s.placements = CopiedPlacements(src.ad_sets[i].targeting)
          BY <4>3 DEF CopiedAdSet
        <4>5. QED BY <4>4 DEF CopiedPlacements
      <3> HIDE DEF copy
      <3>2. QED BY <2>1, <3>1 DEF PlatformsAreNamed
    <2>6. PlanIsTheCopy'
      <3> DEFINE src2 == SavedSource(source, saved)
                 copy2 == CopiedPlan(src2, currency, "copy", VideoMedia)
      <3>1. copy2' = copy /\ ~DuplicateRefused(src2', currency, "copy", VideoMedia)
        BY <1>3, <2>4
      <3>2. IsCopy(plan', copy2')
        <4> HIDE DEF copy, copy2
        <4>1. QED BY <2>1, <3>1 DEF IsCopy
      <3> HIDE DEF copy2, src2
      <3>3. ~DuplicateRefused(src2', currency, "copy", VideoMedia) /\ IsCopy(plan', copy2')
        BY <3>1, <3>2
      <3>4. QED BY <3>3 DEF PlanIsTheCopy, src2, copy2
    <2>7. QED BY <2>2, <2>3, <2>5, <2>6 DEF SInv
  <1>4. QED BY <1>2, <1>3

LEMMA SInvNext == IInv /\ SInv /\ [Next]_vars => SInv'
  <1> SUFFICES ASSUME IInv, SInv, [Next]_vars PROVE SInv'
    OBVIOUS
  <1>1. ASSUME NEW a \in Readings, ReadAccount(a) PROVE SInv'
    <2>1. UNCHANGED <<plan, source>> /\ AdsAreDone'
      BY <1>1 DEF ReadAccount, AdsAreDone
    <2>2. QED BY <2>1, SInvKept
  <1>2. CASE SetEnd
    BY <1>2, SInvSetEnd
  <1>3. CASE ValidatePlan
    <2>1. UNCHANGED <<plan, source>> /\ stage' # "ads_created"
      BY <1>3 DEF ValidatePlan
    <2>2. QED BY <2>1, SInvKept DEF AdsAreDone
  <1>4. CASE CreateCampaign
    <2>1. UNCHANGED <<plan, source>> /\ stage' # "ads_created"
      BY <1>4 DEF CreateCampaign
    <2>2. QED BY <2>1, SInvKept DEF AdsAreDone
  <1>5. CASE CreateAdSets
    <2>1. UNCHANGED <<plan, source>> /\ stage' # "ads_created"
      BY <1>5 DEF CreateAdSets
    <2>2. QED BY <2>1, SInvKept DEF AdsAreDone
  <1>6. CASE FinishUploads
    <2>1. UNCHANGED <<plan, source>> /\ stage' # "ads_created"
      BY <1>6 DEF FinishUploads
    <2>2. QED BY <2>1, SInvKept DEF AdsAreDone
  <1>7. CASE FinishBuild
    <2>1. UNCHANGED <<plan, source, campaign>> /\ AllAdsBuilt
      BY <1>7 DEF FinishBuild, meta
    <2>2. AdsAreDone'
      BY <2>1 DEF AdsAreDone, AllAdsBuilt
    <2>3. QED BY <2>1, <2>2, SInvKept
  <1>8. ASSUME NEW a \in AllRefs(plan), UploadAsset(a) PROVE SInv'
    <2>1. UNCHANGED <<plan, source>> /\ stage' # "ads_created"
      BY <1>8 DEF UploadAsset
    <2>2. QED BY <2>1, SInvKept DEF AdsAreDone
  <1>9. ASSUME NEW i \in DOMAIN plan.ad_sets, CreateAd(i) PROVE SInv'
    <2>1. UNCHANGED <<plan, source>> /\ stage' # "ads_created"
      BY <1>9 DEF CreateAd
    <2>2. QED BY <2>1, SInvKept DEF AdsAreDone
  <1>10. ASSUME NEW i \in DOMAIN plan.ad_sets, CreateAdRefused(i) PROVE SInv'
    <2>1. UNCHANGED <<plan, source>> /\ stage' # "ads_created"
      BY <1>10 DEF CreateAdRefused
    <2>2. QED BY <2>1, SInvKept DEF AdsAreDone
  <1>11. ASSUME NEW x \in VideoMedia, Transcode(x) PROVE SInv'
    <2>1. UNCHANGED <<plan, source, stage, campaign>>
      BY <1>11 DEF Transcode
    <2>2. AdsAreDone'
      BY <2>1 DEF SInv, AdsAreDone, AllAdsBuilt
    <2>3. QED BY <2>1, <2>2, SInvKept
  <1>12. ASSUME NEW amount \in NewBudgets, ChangeBudget(amount) PROVE SInv'
    <2>1. UNCHANGED <<plan, source, stage>> /\ stage = "ads_created"
      BY <1>12 DEF ChangeBudget
    <2>2. \E daily : campaign' = [campaign EXCEPT !.campaign.daily = daily]
      BY <1>12 DEF ChangeBudget
    <2>3. campaign'.ad_sets = campaign.ad_sets
      BY <2>2 DEF IInv, TypeOK, MetaCampaignType
    <2>4. AdsAreDone'
      BY <2>1, <2>3 DEF SInv, AdsAreDone, AllAdsBuilt
    <2>5. QED BY <2>1, <2>4, SInvKept
  <1>13. ASSUME NEW saved \in BOOLEAN, NEW currency \in {{}, {"PLN"}},
                DuplicateCampaign(saved, currency)
         PROVE  SInv'
    BY <1>13, SInvDuplicate
  <1>14. CASE UNCHANGED vars
    <2>1. UNCHANGED <<plan, source, stage, campaign>>
      BY <1>14 DEF vars
    <2>2. AdsAreDone'
      BY <2>1 DEF SInv, AdsAreDone, AllAdsBuilt
    <2>3. QED BY <2>1, <2>2, SInvKept
  <1>15. QED
    BY <1>1, <1>2, <1>3, <1>4, <1>5, <1>6, <1>7, <1>8, <1>9, <1>10, <1>11, <1>12, <1>13, <1>14
       DEF Next, Build, MetaWorks

LEMMA SInvHolds ==
    ASSUME NoPlatformIsAPlacement
    PROVE  Spec => []SInv
  <1>1. Init => SInv
    BY SInvInit
  <1>2. QED
    BY <1>1, SInvNext, InvHolds, PTL DEF Spec

-----------------------------------------------------------------------------
(* A copy that is built, against its source.                               *)

(* What the plan of a copy has of the source.                              *)
LEMMA CopyParts ==
    ASSUME NEW src, NEW currency
    PROVE  LET code == Code(src, currency)
               copy == CopiedPlan(src, currency, "copy", VideoMedia)
               budget == CopiedBudget(src.campaign, "campaign", code, src.currency_offset)
           IN  /\ copy.budget = budget
               /\ copy.ad_sets = [k \in DOMAIN src.ad_sets |->
                                     CopiedAdSet(src.ad_sets[k], src, code, budget, VideoMedia)]
  <1> DEFINE code == Code(src, currency)
             copy == CopiedPlan(src, currency, "copy", VideoMedia)
             budget == CopiedBudget(src.campaign, "campaign", code, src.currency_offset)
  <1>1. copy = [ad_account_id |-> src.account, name |-> "copy",
                objective |-> src.campaign.objective,
                budget |-> budget, schedule |-> [start |-> {}, end |-> {}], spend_cap |-> {},
                special_ad_categories |-> src.campaign.special_ad_categories \ {"NONE"},
                dsa |-> UNION {s.dsa : s \in ToSet(src.ad_sets)},
                ad_sets |-> [i \in DOMAIN src.ad_sets |->
                               CopiedAdSet(src.ad_sets[i], src, code, budget, VideoMedia)]]
    BY Zenon DEF CopiedPlan
  <1> HIDE DEF copy, budget, code
  <1>2. copy.budget = budget
        /\ copy.ad_sets = [i \in DOMAIN src.ad_sets |->
                              CopiedAdSet(src.ad_sets[i], src, code, budget, VideoMedia)]
    BY <1>1
  <1>3. QED BY <1>2 DEF copy, budget, code

(* The scale that the source's amounts were read in is the account's.      *)
LEMMA TheCopysScale ==
    ASSUME AccountIsRead, SourceScaleIsKnown, IInv, SInv, stage \in Started, source # NotBuilt,
           NEW saved \in BOOLEAN, NEW currency \in {{}, {"PLN"}},
           IsCopy(plan, CopiedPlan(SavedSource(source, saved), currency, "copy", VideoMedia))
    PROVE  LET src == SavedSource(source, saved)
               c == RealCurrency[source.account]
           IN  /\ Code(src, currency) = {c} /\ Currency(plan) = {c}
               /\ Scale(c, src.currency_offset) \in Offsets
               /\ Scale(c, AccountOffset(account, c)) = Scale(c, src.currency_offset)
  <1> DEFINE src == SavedSource(source, saved)
             copy == CopiedPlan(src, currency, "copy", VideoMedia)
             code == Code(src, currency)
             a == source.account
             budget == CopiedBudget(src.campaign, "campaign", code, src.currency_offset)
  <1>1. /\ src.account = a /\ src.currency \in {{}, {RealCurrency[a]}}
        /\ src.currency_offset = IF OffsetIsSaved THEN RealOffset[a] ELSE NotGiven
    BY DEF SavedSource
  <1>2. copy.ad_account_id = src.account /\ copy.budget = budget
        /\ copy.ad_sets = [k \in DOMAIN src.ad_sets |->
                              CopiedAdSet(src.ad_sets[k], src, code, budget, VideoMedia)]
    <2>1. copy.ad_account_id = src.account
      BY Zenon DEF CopiedPlan
    <2>2. QED BY <2>1, CopyParts
  <1>0. IsCopy(plan, copy)
    OBVIOUS
  <1>3. a = plan.ad_account_id /\ a = campaign.account
    BY <1>0, <1>1, <1>2, TheAccount DEF IsCopy
  <1>4. /\ Currency(plan) = {RealCurrency[a]} /\ RealOffset[a] \in Offsets
        /\ Scale(RealCurrency[a], AccountOffset(account, RealCurrency[a])) = RealOffset[a]
    BY <1>3, TheScale
  <1>5. a \in DOMAIN RealCurrency
    BY DEF SInv, SourceWasBuilt
  <1>6. Scale(RealCurrency[a], src.currency_offset) = RealOffset[a]
    <2>1. CASE OffsetIsSaved
      BY <2>1, <1>1, <1>4 DEF Scale, Offsets, NotGiven, FINEST
    <2>2. CASE ~OffsetIsSaved
      BY <2>2, <1>1, <1>5 DEF Scale, SourceScaleIsKnown
    <2>3. QED BY <2>1, <2>2
  <1> HIDE DEF src
  <1>7. ASSUME NEW b \in Budgets(plan) PROVE b.currency \in code
    <2>1. \A obj, level : \A d \in CopiedBudget(obj, level, code, src.currency_offset) : d.currency \in code
      <3> HIDE DEF code
      <3>1. QED BY DEF CopiedBudget, Budget
    <2> HIDE DEF copy, code
    <2>2. CASE b \in plan.budget
      BY <2>1, <2>2, <1>0, <1>2 DEF IsCopy
    <2>3. CASE \E s \in AdSets(plan) : b \in s.budget
      <3>1. PICK s \in AdSets(plan) : b \in s.budget
        BY <2>3
      <3>2. PICK i \in DOMAIN plan.ad_sets : s = plan.ad_sets[i]
        BY DEF AdSets, ToSet
      <3>3. b \in copy.ad_sets[i].budget /\ i \in DOMAIN copy.ad_sets
        BY <3>1, <3>2, <1>0 DEF IsCopy
      <3> HIDE DEF budget
      <3>4. b \in CopiedAdSet(src.ad_sets[i], src, code, budget, VideoMedia).budget
        BY <3>3, <1>2
      <3>5. b \in CopiedBudget(src.ad_sets[i], "ad_set", code, src.currency_offset)
        BY <3>4 DEF CopiedAdSet
      <3>6. QED BY <3>5, <2>1
    <2>4. QED BY <2>2, <2>3 DEF Budgets
  <1>8. RealCurrency[a] \in code
    BY <1>4, <1>7 DEF Currency
  <1>9. code = {RealCurrency[a]}
    BY <1>1, <1>8 DEF Code
  <1>10. QED
    BY <1>4, <1>6, <1>9 DEF src

(* An ad set that was planned as a copy, and not refused.                  *)
IsCopiedAdSet(i, c, offset) ==
    LET old == source.ad_sets[i]
        t == plan.ad_sets[i]
        budget == CopiedBudget(source.campaign, "campaign", {c}, offset)
    IN  /\ plan.budget = budget /\ DOMAIN plan.ad_sets = DOMAIN source.ad_sets
        /\ t.budget = IF budget # {} THEN {} ELSE CopiedBudget(old, "ad_set", {c}, offset)
        /\ t.targeting = CopiedTargeting(old.targeting)
        /\ t.placements = CopiedPlacements(old.targeting)
        /\ t.bid_amount = Amounts(old.bid_amount, {c}, offset)
        /\ t.bid_strategy = old.bid_strategy
        /\ t.optimization_goal = old.optimization_goal
        /\ t.tracking.conversion_event = old.promoted_object.custom_event_type
        /\ t.tracking.custom_conversion = old.promoted_object.custom_conversion_id
        /\ t.tracking.dataset = old.promoted_object.pixel_id
        /\ DOMAIN t.ads = DOMAIN old.ads
        /\ \A j \in DOMAIN old.ads :
              /\ t.ads[j].creative = CopiedCreative(old.ads[j].creative, VideoMedia)
              /\ ~CreativeRefused(old.ads[j].creative)

LEMMA CopiedAdSetParts ==
    ASSUME NEW saved \in BOOLEAN, NEW currency \in {{}, {"PLN"}},
           NEW c, Code(SavedSource(source, saved), currency) = {c},
           IsCopy(plan, CopiedPlan(SavedSource(source, saved), currency, "copy", VideoMedia)),
           ~DuplicateRefused(SavedSource(source, saved), currency, "copy", VideoMedia),
           NEW i \in DOMAIN source.ad_sets
    PROVE  IsCopiedAdSet(i, c, SavedSource(source, saved).currency_offset)
  <1> DEFINE src == SavedSource(source, saved)
             copy == CopiedPlan(src, currency, "copy", VideoMedia)
             old == source.ad_sets[i]
             offset == src.currency_offset
             budget == CopiedBudget(source.campaign, "campaign", {c}, offset)
             made == CopiedAdSet(old, src, {c}, budget, VideoMedia)
             t == plan.ad_sets[i]
  <1>1. src.campaign = source.campaign /\ src.ad_sets = source.ad_sets
    BY DEF SavedSource
  <1>2. Code(src, currency) = {c} /\ IsCopy(plan, copy)
        /\ ~DuplicateRefused(src, currency, "copy", VideoMedia)
    OBVIOUS
  <1> HIDE DEF src
  <1>3. copy.budget = budget
        /\ copy.ad_sets = [k \in DOMAIN source.ad_sets |->
                              CopiedAdSet(source.ad_sets[k], src, {c}, budget, VideoMedia)]
    BY <1>1, <1>2, CopyParts
  <1> HIDE DEF copy, budget
  <1>4. DOMAIN copy.ad_sets = DOMAIN source.ad_sets /\ copy.ad_sets[i] = made
    BY <1>3
  <1>5. /\ plan.budget = budget /\ DOMAIN plan.ad_sets = DOMAIN source.ad_sets
        /\ t.budget = made.budget /\ t.targeting = made.targeting
        /\ t.placements = made.placements /\ t.bid_amount = made.bid_amount
        /\ t.bid_strategy = made.bid_strategy /\ t.tracking = made.tracking
        /\ t.optimization_goal = made.optimization_goal /\ t.ads = made.ads
    <2>1. /\ plan.budget = copy.budget /\ DOMAIN plan.ad_sets = DOMAIN copy.ad_sets
          /\ LET u == copy.ad_sets[i] IN
             /\ t.budget = u.budget /\ t.targeting = u.targeting
             /\ t.placements = u.placements /\ t.bid_amount = u.bid_amount
             /\ t.bid_strategy = u.bid_strategy /\ t.tracking = u.tracking
             /\ t.optimization_goal = u.optimization_goal /\ t.ads = u.ads
      BY <1>2, <1>4 DEF IsCopy
    <2> HIDE DEF made
    <2>2. QED BY <1>3, <1>4, <2>1
  <1>6. /\ made.budget = IF budget # {} THEN {} ELSE CopiedBudget(old, "ad_set", {c}, offset)
        /\ made.targeting = CopiedTargeting(old.targeting)
        /\ made.placements = CopiedPlacements(old.targeting)
        /\ made.bid_amount = Amounts(old.bid_amount, {c}, offset)
        /\ made.bid_strategy = old.bid_strategy
        /\ made.optimization_goal = old.optimization_goal
        /\ made.tracking.conversion_event = old.promoted_object.custom_event_type
        /\ made.tracking.custom_conversion = old.promoted_object.custom_conversion_id
        /\ made.tracking.dataset = old.promoted_object.pixel_id
        /\ made.ads = [j \in DOMAIN old.ads |->
                          [name |-> old.ads[j].name,
                           creative |-> CopiedCreative(old.ads[j].creative, VideoMedia)]]
    BY DEF CopiedAdSet
  <1>7. ASSUME NEW j \in DOMAIN old.ads PROVE ~CreativeRefused(old.ads[j].creative)
    <2>1. old \in ToSet(source.ad_sets) /\ old.ads[j] \in ToSet(old.ads)
      BY DEF ToSet
    <2>2. ~AdSetRefused(old, {c}, offset)
      BY <1>1, <1>2, <2>1 DEF DuplicateRefused
    <2>3. QED BY <2>1, <2>2 DEF AdSetRefused
  <1> HIDE DEF made
  <1>8. DOMAIN t.ads = DOMAIN old.ads
        /\ \A j \in DOMAIN old.ads : t.ads[j].creative = CopiedCreative(old.ads[j].creative, VideoMedia)
    BY <1>5, <1>6
  <1>9. QED
    BY <1>5, <1>6, <1>7, <1>8 DEF IsCopiedAdSet, budget, src

(* The copied amounts come to what the source's were.                      *)
LEMMA CopySpendsTheSame ==
    ASSUME IInv, SInv, Built, source # NotBuilt, DOMAIN campaign.ad_sets = DOMAIN plan.ad_sets,
           NEW c, Currency(plan) = {c}, NEW offset, Scale(c, offset) \in Offsets,
           Scale(c, AccountOffset(account, c)) = Scale(c, offset),
           NEW i \in DOMAIN source.ad_sets, i \in DOMAIN campaign.ad_sets,
           IsCopiedAdSet(i, c, offset)
    PROVE  /\ campaign.campaign.daily = source.campaign.daily
           /\ campaign.campaign.lifetime = source.campaign.lifetime
           /\ campaign.ad_sets[i].daily = source.ad_sets[i].daily
           /\ campaign.ad_sets[i].lifetime = source.ad_sets[i].lifetime
           /\ MetaAdSet(plan.ad_sets[i]).bid_amount = source.ad_sets[i].bid_amount
  <1> DEFINE old == source.ad_sets[i]
             new == campaign.ad_sets[i]
             t == plan.ad_sets[i]
  <1>0. /\ plan.budget = CopiedBudget(source.campaign, "campaign", {c}, offset)
        /\ t.budget = IF plan.budget # {} THEN {} ELSE CopiedBudget(old, "ad_set", {c}, offset)
        /\ t.bid_amount = Amounts(old.bid_amount, {c}, offset)
    BY DEF IsCopiedAdSet
  <1>1. /\ OneOf(source.campaign) /\ OneOf(old)
        /\ BudgetFields(source.campaign) # {} => BudgetFields(old) = {}
    BY DEF SInv, SourceWasBuilt
  <1>2. stage \in Started /\ shown = {}
    BY DEF Built, Started
  <1>3. /\ MinorOf(plan.budget, "daily") = source.campaign.daily
        /\ MinorOf(plan.budget, "lifetime") = source.campaign.lifetime
        /\ plan.budget = {} <=> BudgetFields(source.campaign) = {}
    BY <1>0, <1>1, BudgetComesBack
  <1>4. /\ campaign.campaign.daily = MinorOf(plan.budget, "daily")
        /\ campaign.campaign.lifetime = MinorOf(plan.budget, "lifetime")
    BY <1>2 DEF IInv, CampaignIsPlanned
  <1>5. new.daily = MinorOf(t.budget, "daily") /\ new.lifetime = MinorOf(t.budget, "lifetime")
    BY InItsPlace
  <1>6. MinorOf(t.budget, "daily") = old.daily /\ MinorOf(t.budget, "lifetime") = old.lifetime
    <2>1. CASE plan.budget = {}
      BY <2>1, <1>0, <1>1, BudgetComesBack
    <2>2. CASE plan.budget # {}
      <3>1. t.budget = {} /\ old.daily = 0 /\ old.lifetime = 0
        BY <2>2, <1>0, <1>1, <1>3, NoFieldsNoBudget
      <3> HIDE DEF t
      <3>2. \A x : MinorOf(t.budget, x) = 0
        BY <3>1 DEF MinorOf
      <3>3. QED BY <3>1, <3>2
    <2>3. QED BY <2>1, <2>2
  <1>7. MetaAdSet(t).bid_amount = old.bid_amount
    <2> DEFINE bid == CHOOSE b \in t.bid_amount : TRUE
               d == CHOOSE x \in Currency(plan) : TRUE
               shows == Display(FromMinor(old.bid_amount, c, offset))
    <2>1. MetaAdSet(t).bid_amount = IF t.bid_amount = {} THEN 0 ELSE Resolved(bid, d, account)
      BY DEF MetaAdSet
    <2>2. d = c
      OBVIOUS
    <2>3. old.bid_amount \in Int
      <3>1. source.ad_sets \in Seq(MetaAdSetType)
        BY DEF IInv, TypeOK, MetaCampaignType
      <3>2. old \in MetaAdSetType
        BY <3>1, MembersOfSequence
      <3>3. QED BY <3>2 DEF MetaAdSetType
    <2>4. Resolved(shows, c, account) = old.bid_amount
      BY <2>3, AmountComesBack
    <2>5. t.bid_amount = IF old.bid_amount = 0 THEN {} ELSE {shows}
      BY <1>0 DEF Amounts
    <2>6. CASE old.bid_amount = 0
      BY <2>1, <2>5, <2>6
    <2>7. CASE old.bid_amount # 0
      <3> HIDE DEF shows, t, old
      <3>1. t.bid_amount # {} /\ bid = shows
        BY <2>5, <2>7
      <3>2. QED BY <2>1, <2>2, <2>4, <3>1
    <2>8. QED BY <2>6, <2>7
  <1>8. QED
    BY <1>3, <1>4, <1>5, <1>6, <1>7

(* The ads of a copy that is done.                                         *)
LEMMA CopyHasTheSameAds ==
    ASSUME IInv, SInv, Built, source # NotBuilt,
           NEW i \in DOMAIN source.ad_sets, i \in DOMAIN campaign.ad_sets,
           NEW currency, NEW offset, IsCopiedAdSet(i, currency, offset)
    PROVE  /\ DOMAIN campaign.ad_sets[i].ads = DOMAIN source.ad_sets[i].ads
           /\ \A j \in DOMAIN source.ad_sets[i].ads :
                 LET old == source.ad_sets[i].ads[j].creative
                     new == campaign.ad_sets[i].ads[j].creative
                 IN  /\ new.media = old.media /\ new.cards = old.cards /\ new.url = old.url
                     /\ new.page = old.page /\ new.shape = old.shape
  <1> DEFINE Ad == [name : STRING, creative : MadeCreativeType]
             news == campaign.ad_sets[i].ads
             olds == source.ad_sets[i].ads
             wanted == plan.ad_sets[i].ads
  <1>0. /\ DOMAIN wanted = DOMAIN olds
        /\ \A j \in DOMAIN olds :
              /\ wanted[j].creative = CopiedCreative(olds[j].creative, VideoMedia)
              /\ ~CreativeRefused(olds[j].creative)
    BY DEF IsCopiedAdSet
  <1>1. /\ campaign.ad_sets[i] \in MetaAdSetType /\ i \in DOMAIN plan.ad_sets
        /\ plan \in PlanType /\ source.ad_sets \in Seq(MetaAdSetType)
    BY InItsPlace DEF IInv, TypeOK, MetaCampaignType
  <1>2. source.ad_sets[i] \in MetaAdSetType
    BY <1>1, MembersOfSequence
  <1>3. news \in Seq(Ad) /\ olds \in Seq(Ad)
    BY <1>1, <1>2 DEF MetaAdSetType
  <1>4. DOMAIN news = DOMAIN olds /\ \A j \in DOMAIN olds : olds[j] \in Ad
    <2>1. Len(news) = Len(wanted)
      BY <1>1 DEF SInv, AdsAreDone, AllAdsBuilt, Built
    <2>2. DOMAIN wanted = 1 .. Len(wanted)
      BY <1>1, PlanParts
    <2> HIDE DEF Ad, news, olds, wanted
    <2>3. DOMAIN news = 1 .. Len(news) /\ \A j \in DOMAIN olds : olds[j] \in Ad
      BY <1>3, MembersOfSequence
    <2>4. DOMAIN news = DOMAIN wanted
      BY <2>1, <2>2, <2>3
    <2>5. QED BY <1>0, <2>3, <2>4 DEF wanted, olds
  <1>5. ASSUME NEW j \in DOMAIN olds
        PROVE  LET old == olds[j].creative
                   new == news[j].creative
               IN  /\ new.media = old.media /\ new.cards = old.cards /\ new.url = old.url
                   /\ new.page = old.page /\ new.shape = old.shape
    <2> DEFINE old == olds[j].creative
               c == CopiedCreative(old, VideoMedia)
    <2>1. wanted[j].creative = c /\ ~CreativeRefused(old)
      BY <1>0
    <2>2. old \in MadeCreativeType /\ MadeWell(old)
      BY <1>4 DEF SInv, SourceWasBuilt
    <2>3. /\ CreativeAccepted(wanted[j].creative) /\ Request(wanted[j].creative) \in RequestType
          /\ \E videos \in SUBSET VideoMedia : news[j].creative = Created(Request(wanted[j].creative), videos)
      BY <1>4, AdInItsPlace
    <2> HIDE DEF old, news, wanted
    <2>4. PICK videos : news[j].creative = Created(Request(c), videos)
      BY <2>1, <2>3
    <2>5. CreativeAccepted(c) /\ Request(c) \in RequestType
      BY <2>1, <2>3
    <2>6. QED BY <2>1, <2>2, <2>4, <2>5, CopyShowsTheSame DEF old
  <1>6. QED
    BY <1>4, <1>5

LEMMA InvImpliesSame ==
    ASSUME AccountIsRead, SourceScaleIsKnown, IInv, SInv
    PROVE  CopyDeliversTheSame
  <1> SUFFICES ASSUME Built, source # NotBuilt
               PROVE  /\ BudgetFields(campaign.campaign) = BudgetFields(source.campaign)
                      /\ [i \in DOMAIN campaign.ad_sets |-> Delivery(campaign.ad_sets[i])]
                           = [i \in DOMAIN source.ad_sets |-> Delivery(source.ad_sets[i])]
    BY DEF CopyDeliversTheSame
  <1>1. /\ stage \in Started \ {"campaign_created"} /\ plan \in PlanType
        /\ campaign.ad_sets \in Seq(MetaAdSetType) /\ source.ad_sets \in Seq(MetaAdSetType)
    BY DEF Built, Started, IInv, TypeOK, MetaCampaignType
  <1>2. PICK saved \in BOOLEAN, currency \in {{}, {"PLN"}} :
            /\ ~DuplicateRefused(SavedSource(source, saved), currency, "copy", VideoMedia)
            /\ IsCopy(plan, CopiedPlan(SavedSource(source, saved), currency, "copy", VideoMedia))
    BY DEF SInv, PlanIsTheCopy
  <1> DEFINE src == SavedSource(source, saved)
             offset == src.currency_offset
             c == RealCurrency[source.account]
  <1>3. /\ Code(src, currency) = {c} /\ Currency(plan) = {c} /\ Scale(c, offset) \in Offsets
        /\ Scale(c, AccountOffset(account, c)) = Scale(c, offset)
    BY <1>1, <1>2, TheCopysScale
  <1>4. ASSUME NEW i \in DOMAIN source.ad_sets
        PROVE  IsCopiedAdSet(i, c, offset)
    <2>1. Code(SavedSource(source, saved), currency) = {c}
      BY <1>3
    <2> HIDE DEF c
    <2>2. QED BY <1>2, <2>1, CopiedAdSetParts
  <1> HIDE DEF src, c, offset
  <1>5. \E i : i \in DOMAIN source.ad_sets
    <2>1. source.ad_sets # <<>>
      BY <1>2 DEF DuplicateRefused, SavedSource
    <2>2. QED BY <1>1, <2>1, MembersOfSequence
  <1>6. /\ DOMAIN campaign.ad_sets = DOMAIN plan.ad_sets
        /\ DOMAIN source.ad_sets = DOMAIN plan.ad_sets
    <2>1. Len(campaign.ad_sets) = Len(plan.ad_sets)
      BY <1>1 DEF IInv, AdSetsArePlanned
    <2>2. DOMAIN campaign.ad_sets = 1 .. Len(campaign.ad_sets)
      BY <1>1, MembersOfSequence
    <2>3. DOMAIN plan.ad_sets = DOMAIN source.ad_sets
      BY <1>4, <1>5 DEF IsCopiedAdSet
    <2>4. QED BY <1>1, <2>1, <2>2, <2>3, PlanParts
  <1>7. ASSUME NEW i \in DOMAIN source.ad_sets
        PROVE  /\ campaign.campaign.daily = source.campaign.daily
               /\ campaign.campaign.lifetime = source.campaign.lifetime
               /\ campaign.ad_sets[i].daily = source.ad_sets[i].daily
               /\ campaign.ad_sets[i].lifetime = source.ad_sets[i].lifetime
               /\ MetaAdSet(plan.ad_sets[i]).bid_amount = source.ad_sets[i].bid_amount
    BY <1>3, <1>4, <1>6, CopySpendsTheSame
  <1>8. ASSUME NEW i \in DOMAIN source.ad_sets
        PROVE  Delivery(campaign.ad_sets[i]) = Delivery(source.ad_sets[i])
    <2> DEFINE old == source.ad_sets[i]
               new == campaign.ad_sets[i]
               t == plan.ad_sets[i]
               Shows(s) == [j \in DOMAIN s.ads |->
                               <<s.ads[j].creative.media, s.ads[j].creative.cards,
                                 s.ads[j].creative.url, s.ads[j].creative.page,
                                 s.ads[j].creative.shape>>]
    <2>1. old \in MetaAdSetType /\ new \in MetaAdSetType
      BY <1>1, <1>6, MembersOfSequence
    <2>2. /\ new.bid_amount = MetaAdSet(t).bid_amount /\ new.bid_strategy = MetaAdSet(t).bid_strategy
          /\ new.optimization_goal = MetaAdSet(t).optimization_goal
          /\ new.targeting = MetaAdSet(t).targeting
          /\ new.promoted_object = MetaAdSet(t).promoted_object
      <3>1. [new EXCEPT !.ads = <<>>] = MetaAdSet(t)
        BY <1>1, <1>6 DEF IInv, AdSetsArePlanned
      <3> HIDE DEF new
      <3>2. QED BY <2>1, <3>1, SameButAds
    <2>3. new.bid_amount = old.bid_amount /\ new.daily = old.daily /\ new.lifetime = old.lifetime
      BY <1>7, <2>2
    <2>4. /\ new.bid_strategy = old.bid_strategy /\ new.optimization_goal = old.optimization_goal
          /\ new.targeting = MetaTargeting(t)
      BY <1>4, <2>2 DEF MetaAdSet, IsCopiedAdSet
    <2>5. new.promoted_object = old.promoted_object
      <3>1. new.promoted_object = [pixel_id |-> t.tracking.dataset,
                                   custom_event_type |-> t.tracking.conversion_event,
                                   custom_conversion_id |-> t.tracking.custom_conversion]
        BY <2>2 DEF MetaAdSet
      <3>2. old.promoted_object = [pixel_id |-> old.promoted_object.pixel_id,
                                   custom_event_type |-> old.promoted_object.custom_event_type,
                                   custom_conversion_id |-> old.promoted_object.custom_conversion_id]
        BY <2>1 DEF MetaAdSetType
      <3>3. /\ t.tracking.dataset = old.promoted_object.pixel_id
            /\ t.tracking.conversion_event = old.promoted_object.custom_event_type
            /\ t.tracking.custom_conversion = old.promoted_object.custom_conversion_id
        BY <1>4 DEF IsCopiedAdSet
      <3>4. QED BY <3>1, <3>2, <3>3
    <2>6. /\ new.targeting.countries = old.targeting.countries
          /\ new.targeting.age_min = old.targeting.age_min
          /\ new.targeting.age_max = old.targeting.age_max
          /\ new.targeting.audiences = old.targeting.audiences
          /\ new.targeting.excluded = old.targeting.excluded
          /\ new.targeting.advantage_audience = old.targeting.advantage_audience
          /\ new.targeting.other = old.targeting.other
      <3>1. t.targeting = CopiedTargeting(old.targeting)
        BY <1>4 DEF IsCopiedAdSet
      <3>2. old.targeting \in MetaTargetingType
        BY <2>1 DEF MetaAdSetType
      <3> HIDE DEF t, new, old
      <3>3. new.targeting.other = t.targeting.raw \ PlacementKeys
        BY <2>4 DEF MetaTargeting
      <3>4. t.targeting.raw = old.targeting.other \cup PlacementKeysOf(old.targeting)
        BY <3>1 DEF CopiedTargeting
      <3>5. PlacementKeysOf(old.targeting) \subseteq PlacementKeys
        BY Zenon DEF PlacementKeysOf
      <3>6. old.targeting.other \cap PlacementKeys = {}
        BY <3>2 DEF MetaTargetingType
      <3>7. new.targeting.other = old.targeting.other
        BY <3>3, <3>4, <3>5, <3>6
      <3>8. QED BY <2>4, <3>1, <3>7 DEF MetaTargeting, CopiedTargeting
    <2>7. Delivers(new.targeting) = Delivers(old.targeting)
      <3>1. old.targeting \in MetaTargetingType /\ TargetingIsOurs(old.targeting)
        BY <2>1 DEF MetaAdSetType, SInv, SourceWasBuilt
      <3>2. t.placements = CopiedPlacements(old.targeting)
        BY <1>4 DEF IsCopiedAdSet
      <3> HIDE DEF t, old, new
      <3>3. /\ MetaTargeting(t).publisher_platforms = old.targeting.publisher_platforms
            /\ MetaTargeting(t).positions = old.targeting.positions
        BY <3>1, <3>2, CopyDeliversThere
      <3>4. QED BY <2>4, <3>3 DEF Delivers
    <2>8. Shows(new) = Shows(old)
      <3>1. /\ DOMAIN new.ads = DOMAIN old.ads
            /\ \A j \in DOMAIN old.ads :
                  LET a == old.ads[j].creative
                      b == new.ads[j].creative
                  IN  /\ b.media = a.media /\ b.cards = a.cards /\ b.url = a.url
                      /\ b.page = a.page /\ b.shape = a.shape
        BY <1>4, <1>6, CopyHasTheSameAds
      <3> HIDE DEF new, old
      <3>2. QED BY <3>1
    <2> HIDE DEF new, old
    <2>9. Delivery(new) = Delivery(old)
      BY <2>3, <2>4, <2>5, <2>6, <2>7, <2>8 DEF Delivery
    <2>10. QED BY <2>9 DEF new, old
  <1>9. BudgetFields(campaign.campaign) = BudgetFields(source.campaign)
    <2>1. /\ campaign.campaign.daily = source.campaign.daily
          /\ campaign.campaign.lifetime = source.campaign.lifetime
      BY <1>5, <1>7
    <2>2. QED BY <2>1 DEF BudgetFields
  <1>10. QED BY <1>6, <1>8, <1>9

(* Where account and source say their currencies' scales, and no platform  *)
(* of a draft has a placement's name: a copy that is built, of whatever    *)
(* campaign was built before, spends what its source spends, reaches whom  *)
(* it reaches and shows what it shows (duplicate.py, "the same again").    *)
THEOREM CopyIsTheSame ==
    ASSUME AccountIsRead, SourceScaleIsKnown, NoPlatformIsAPlacement
    PROVE  Spec => []CopyDeliversTheSame
  <1>1. IInv /\ SInv => CopyDeliversTheSame
    BY InvImpliesSame
  <1>2. Spec => []SInv
    BY SInvHolds
  <1>3. QED
    BY <1>1, <1>2, InvHolds, PTL
=============================================================================
