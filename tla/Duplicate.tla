----------------------------- MODULE Duplicate -----------------------------
(***************************************************************************)
(* duplicate.py and `duplicate-plan': a campaign as it was read from Meta, *)
(* turned into a new plan, or refused.                                     *)
(*                                                                         *)
(* A source is [account, currency, currency_offset, campaign, ad_sets] in  *)
(* the Marketing API's fields: money in minor units, 0 for none; a         *)
(* creative has a shape of Creatives.                                      *)
(***************************************************************************)
EXTENDS Creatives, Money

(* The keys of a targeting that say where it delivers.                     *)
PlacementKeys == {"publisher_platforms", "facebook_positions", "instagram_positions"}

(* A campaign and its ad sets in the Marketing API's fields; `other' holds *)
(* the keys of a targeting that the plan has no field for.                 *)
MetaTargetingType ==
    [countries : SUBSET STRING, age_min : Optional(Int), age_max : Optional(Int),
     audiences : SUBSET STRING, excluded : SUBSET STRING,
     advantage_audience : Optional(BOOLEAN), other : SUBSET (STRING \ PlacementKeys),
     publisher_platforms : SUBSET STRING, positions : SUBSET Placements]

MetaAdSetType ==
    [name : STRING, daily : Int, lifetime : Int, bid_amount : Int, bid_strategy : STRING,
     optimization_goal : Optional(STRING), targeting : MetaTargetingType,
     promoted_object : [pixel_id : Optional(STRING), custom_event_type : Optional(STRING),
                        custom_conversion_id : Optional(STRING)],
     dsa : SUBSET STRING, end : SUBSET TimeType,
     ads : Seq([name : STRING, creative : MadeCreativeType])]

MetaCampaignType ==
    [account : STRING,
     campaign : [account : STRING, objective : STRING, special_ad_categories : SUBSET STRING,
                 daily : Int, lifetime : Int, spend_cap : Int],
     ad_sets : Seq(MetaAdSetType)]

-----------------------------------------------------------------------------
(* Money.                                                                  *)

(* The currency of the command outranks the one that was saved.            *)
Code(source, currency) == IF currency # {} THEN currency ELSE source.currency

(* Nothing in minor units is no amount; anything else needs a currency.    *)
AmountRefused(minor, code, offset) ==
    minor # 0 /\ (code = {} \/ \E c \in code : ~HasScale(c, offset))

Amounts(minor, code, offset) ==
    IF minor = 0 THEN {} ELSE {Display(FromMinor(minor, c, offset)) : c \in code}

(* A daily budget is looked for first.                                     *)
CopiedBudget(obj, level, code, offset) ==
    LET type == IF obj.daily # 0 THEN "daily" ELSE "lifetime"
        minor == IF obj.daily # 0 THEN obj.daily ELSE obj.lifetime
    IN  {Budget(level, type, amount, c) : amount \in Amounts(minor, code, offset), c \in code}

-----------------------------------------------------------------------------
(* Targeting and placements.                                               *)

(* A mistake: a platform without positions is left out.                    *)
CopiedPositionsNamed(targeting) ==
    {p \in targeting.positions : PlatformOf(p) \subseteq targeting.publisher_platforms}

(* Positions by their plan names; a platform without any stands alone.     *)
CopiedPositions(targeting) ==
    UNION {LET own == {p \in targeting.positions : PlatformOf(p) = {platform}}
           IN  IF own = {} THEN {platform} ELSE own : platform \in targeting.publisher_platforms}

CopiedPlacements(targeting) ==
    LET positions == CopiedPositions(targeting) IN
    [mode |-> IF positions = {} THEN "automatic" ELSE "manual",
     platforms |-> {}, positions |-> positions]

(* The keys of the placements that a targeting has.                        *)
PlacementKeysOf(targeting) ==
    {key \in PlacementKeys :
        CASE key = "publisher_platforms" -> targeting.publisher_platforms # {}
          [] key = "facebook_positions" ->
                 \E p \in targeting.positions : PlatformOf(p) = {"facebook"}
          [] key = "instagram_positions" ->
                 \E p \in targeting.positions : PlatformOf(p) = {"instagram"}}

(* Every key the plan does not model, the placements' own included, and    *)
(* all of a geography of more than countries, is kept as it is in `raw'.   *)
CopiedTargeting(targeting) ==
    [countries |-> targeting.countries,
     age_min |-> targeting.age_min, age_max |-> targeting.age_max,
     audiences |-> targeting.audiences, excluded |-> targeting.excluded,
     advantage_audience |-> targeting.advantage_audience,
     age_suggestion |-> {}, interests |-> {},
     raw |-> targeting.other \cup PlacementKeysOf(targeting)]

-----------------------------------------------------------------------------
(* Creatives.                                                              *)

FromMedia(media, videos) ==
    [sources |-> {IF media \in videos THEN "video_id" ELSE "image_hash"},
     key |-> media, video |-> media \in videos, placement |-> {}]

CopiedVariant(variant) == [angle |-> "as in the source", cta |-> variant.cta]

NoCreative ==
    [mode |-> "existing_post", url |-> {}, page |-> {}, instagram_account |-> {},
     post |-> FALSE, instagram_media |-> FALSE, assets |-> <<>>, cards |-> <<>>,
     variants |-> <<>>, enhancements |-> {}]

(* object_story_spec is empty for both kinds of post, and with it the Page *)
(* and the first place where the Instagram account is looked for.          *)
CopiedPost(c) ==
    IF c.shape = "instagram_post"
    THEN [NoCreative EXCEPT !.instagram_media = TRUE, !.instagram_account = c.instagram_account]
    ELSE [NoCreative EXCEPT !.post = TRUE, !.page = c.page]

CopiedLink(c, videos) ==
    [NoCreative EXCEPT
        !.mode = IF c.shape = "video" THEN "single_video"
                 ELSE IF c.cards # <<>> THEN "carousel" ELSE "single_image",
        !.url = c.url, !.page = c.page, !.instagram_account = c.instagram_account,
        !.assets = [i \in DOMAIN c.media |-> FromMedia(c.media[i].media, videos)],
        !.cards = [i \in DOMAIN c.cards |->
                      [asset |-> FromMedia(c.cards[i].media, videos), link |-> c.cards[i].link]],
        !.variants = <<CopiedVariant(Head(c.variants))>>]

CopiedCreative(c, videos) ==
    IF c.shape \in {"post", "instagram_post"} THEN CopiedPost(c) ELSE CopiedLink(c, videos)

(* asset_feed_spec is refused by name; the other refusals are of fields    *)
(* that were not read.                                                     *)
CreativeRefused(c) ==
    \/ c.shape \in {"feed", "none"}
    \/ /\ c.shape \in {"link", "video"}
       /\ c.url = {} \/ c.variants = <<>> \/ (c.media = <<>> /\ c.cards = <<>>)

-----------------------------------------------------------------------------
(* The ad set and the plan.                                                *)

CopiedAdSet(s, source, code, campaign_budget, videos) ==
    LET offset == source.currency_offset IN
    [name |-> s.name,
     budget |-> IF campaign_budget # {} THEN {}
                ELSE CopiedBudget(s, "ad_set", code, offset),
     schedule |-> [start |-> {}, end |-> {}],
     targeting |-> CopiedTargeting(s.targeting),
     placements |-> CopiedPlacements(s.targeting),
     bid_amount |-> Amounts(s.bid_amount, code, offset),
     bid_strategy |-> s.bid_strategy,
     optimization_goal |-> s.optimization_goal,
     tracking |-> [conversion_event |-> s.promoted_object.custom_event_type,
                   custom_conversion |-> s.promoted_object.custom_conversion_id,
                   dataset |-> s.promoted_object.pixel_id,
                   attribution_window |-> {}, utm |-> {}],
     ads |-> [i \in DOMAIN s.ads |-> [name |-> s.ads[i].name,
                                      creative |-> CopiedCreative(s.ads[i].creative, videos)]]]

AdSetRefused(s, code, offset) ==
    \/ s.targeting.countries = {} \/ s.ads = <<>>
    \/ \E minor \in {s.daily, s.lifetime, s.bid_amount} : AmountRefused(minor, code, offset)
    \/ \E ad \in ToSet(s.ads) : CreativeRefused(ad.creative)

(* duplicate_plan: what is copied, and what is not - the schedules, and    *)
(* without a word the spend cap and the tracking of URLs.                  *)
CopiedPlan(source, currency, name, videos) ==
    LET code == Code(source, currency)
        budget == CopiedBudget(source.campaign, "campaign", code, source.currency_offset)
    IN  [ad_account_id |-> source.account, name |-> name,
         objective |-> source.campaign.objective,
         budget |-> budget, schedule |-> [start |-> {}, end |-> {}], spend_cap |-> {},
         special_ad_categories |-> source.campaign.special_ad_categories \ {"NONE"},
         dsa |-> UNION {s.dsa : s \in ToSet(source.ad_sets)},
         ad_sets |-> [i \in DOMAIN source.ad_sets |->
                         CopiedAdSet(source.ad_sets[i], source, code, budget, videos)]]

(* The plan's own model has the last word, and every amount the first.     *)
DuplicateRefused(source, currency, name, videos) ==
    LET code == Code(source, currency)
        offset == source.currency_offset
    IN  \/ source.ad_sets = <<>>
        \/ \E minor \in {source.campaign.daily, source.campaign.lifetime} :
               AmountRefused(minor, code, offset)
        \/ \E s \in ToSet(source.ad_sets) : AdSetRefused(s, code, offset)
        \/ ~Accepted(CopiedPlan(source, currency, name, videos))
=============================================================================
