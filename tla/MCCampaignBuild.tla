-------------------------- MODULE MCCampaignBuild --------------------------
(* Instances of CampaignBuild for TLC: the plans are one usual plan and,    *)
(* around it, every value of one part of it at a time.                      *)
EXTENDS CampaignBuild

FileKinds == [banner |-> "image", banner2 |-> "image", twin |-> "image", clip |-> "video",
              misnamed |-> "video"]
Contents == [banner |-> "imgA", banner2 |-> "imgB", twin |-> "imgA", clip |-> "vidA",
             misnamed |-> "vidB"]
AllVideos == {"vidA", "vidB", "vidC"}

Currencies == [act_pln |-> "PLN", act_huf |-> "HUF", act_jpy |-> "JPY"]
\* One account has another offset than the table of its currency
OffsetsOfTable == [act_pln |-> 100, act_huf |-> 1, act_jpy |-> 1]
OffsetsOfAccounts == [OffsetsOfTable EXCEPT !.act_huf = 100]

File(path) == [sources |-> {"local_path"}, key |-> path, video |-> path = "clip", placement |-> {}]
Hash(h) == [sources |-> {"image_hash"}, key |-> h, video |-> FALSE, placement |-> {}]
Video(v) == [sources |-> {"video_id"}, key |-> v, video |-> TRUE, placement |-> {}]
Pin(asset, p) == [asset EXCEPT !.placement = {p}]

Site == [https |-> TRUE, host |-> "example", template |-> FALSE, utm |-> {"source"}]
Copy == [angle |-> "price", cta |-> {}]
Copy2 == [angle |-> "trust", cta |-> {"SIGN_UP"}]

Creative(mode, assets, cards, variants) ==
    [mode |-> mode, url |-> {Site}, page |-> {"page"}, instagram_account |-> {"ig"},
     post |-> FALSE, instagram_media |-> FALSE, assets |-> assets, cards |-> cards,
     variants |-> variants, enhancements |-> {}]
Card(asset) == [asset |-> asset, link |-> {}]
Image == Creative("single_image", <<File("banner")>>, <<>>, <<Copy>>)
Post == [Creative("existing_post", <<>>, <<>>, <<>>) EXCEPT !.url = {}, !.post = TRUE]
InstagramPost == [Post EXCEPT !.post = FALSE, !.instagram_media = TRUE]
Multi(assets) == Creative("multi_variant", assets, <<>>, <<Copy, Copy2>>)

NoDates == [start |-> {}, end |-> {}]
Ends == [start |-> {[at |-> 1, utc |-> TRUE]}, end |-> {[at |-> 2, utc |-> TRUE]}]
Automatic == [mode |-> "automatic", platforms |-> {}, positions |-> {}]
Manual(platforms, positions) ==
    [mode |-> "manual", platforms |-> platforms, positions |-> positions]

PL == [countries |-> {"PL"}, age_min |-> {}, age_max |-> {}, audiences |-> {}, excluded |-> {},
       advantage_audience |-> {TRUE}, age_suggestion |-> {}, interests |-> {}, raw |-> {}]
NoTracking == [conversion_event |-> {}, custom_conversion |-> {}, dataset |-> {},
               attribution_window |-> {}, utm |-> {}]

AdSet(creatives) ==
    [name |-> "broad", budget |-> {}, schedule |-> NoDates, targeting |-> PL,
     placements |-> Automatic, bid_amount |-> {}, bid_strategy |-> "LOWEST_COST_WITHOUT_CAP",
     optimization_goal |-> {"LINK_CLICKS"}, tracking |-> NoTracking,
     ads |-> [i \in DOMAIN creatives |-> [name |-> "ad", creative |-> creatives[i]]]]

Amount(n) == n * FINEST
Of(level, type, n, c) == Budget(level, type, n, c)

Usual ==
    [ad_account_id |-> "act_pln", name |-> "webinar", objective |-> "OUTCOME_LEADS",
     budget |-> {Of("campaign", "daily", Amount(70), "PLN")}, schedule |-> NoDates,
     spend_cap |-> {}, special_ad_categories |-> {}, dsa |-> DsaFields,
     ad_sets |-> <<AdSet(<<Image>>)>>]

WithAdSet(s) == [Usual EXCEPT !.ad_sets = <<s>>]
WithCreative(c) == WithAdSet(AdSet(<<c>>))

Budgeted(a, level, type, n, c, dates) ==
    [Usual EXCEPT !.ad_account_id = a,
        !.budget = IF level = "campaign" THEN {Of(level, type, n, c)} ELSE {},
        !.ad_sets[1].budget = IF level = "ad_set" THEN {Of(level, type, n, c)} ELSE {},
        !.ad_sets[1].schedule = dates]

(* One 70.00, one a hundredth of a unit more, one below every scale.       *)
OfBudgets ==
    {Budgeted(a, level, type, n, c, dates) :
        a \in DOMAIN Currencies, level \in {"campaign", "ad_set"}, type \in {"daily", "lifetime"},
        n \in {Amount(70), Amount(70) + 100, Amount(70) + 1}, c \in {"PLN", "HUF", "JPY"},
        dates \in {NoDates, Ends}}

OfLevels ==
    {[Usual EXCEPT !.budget = b, !.ad_sets = <<[AdSet(<<Image>>) EXCEPT !.budget = c],
                                              [AdSet(<<Image>>) EXCEPT !.budget = d, !.name = "narrow"]>>] :
        b \in {{}, {Of("campaign", "daily", Amount(70), "PLN")}},
        c, d \in {{}, {Of("ad_set", "daily", Amount(20), "PLN")}}}

OfBids ==
    {WithAdSet([AdSet(<<Image>>) EXCEPT !.bid_strategy = strategy, !.bid_amount = bid]) :
        strategy \in {"LOWEST_COST_WITHOUT_CAP", "COST_CAP"},
        bid \in {{}, {Amount(5)}, {Amount(5) + 1}}}

OfCountries ==
    {[WithAdSet([AdSet(<<Image>>) EXCEPT !.targeting.countries = c]) EXCEPT !.dsa = dsa] :
        c \in {{"PL"}, {"US"}, {"PL", "US"}}, dsa \in SUBSET DsaFields}

OfAudiences ==
    {WithAdSet([AdSet(<<Image>>) EXCEPT !.targeting.audiences = a, !.targeting.excluded = x,
                   !.targeting.age_max = high, !.targeting.age_min = low, !.targeting.raw = raw]) :
        a, x \in {{}, {"buyers"}}, high \in {{}, {40}}, low \in {{}, {30}, {50}},
        raw \in {{}, {"cities"}}}

Pinnings ==
    {<<File("banner"), File("banner2")>>,
     <<Pin(File("banner"), "instagram_stories"), File("banner2")>>,
     <<Pin(File("banner"), "instagram_stories"), Pin(File("banner2"), "facebook_feed"), Hash("imgC")>>,
     <<Pin(File("banner"), "instagram_stories"), Pin(File("banner2"), "instagram_stories"), Hash("imgC")>>,
     <<Pin(File("banner"), "instagram_stories"), Pin(File("banner2"), "facebook_feed")>>,
     <<Pin(File("banner"), "instagram_stories"), File("banner"), File("banner2")>>,
     <<Pin(File("clip"), "instagram_stories"), File("banner2")>>,
     <<Pin(File("banner"), "instagram_stories"), File("twin")>>,
     <<Pin(File("clip"), "instagram_stories"), Video("vidC")>>,
     <<File("misnamed")>>, <<File("clip")>>}

OfPlacements == {Automatic, Manual({"instagram"}, {}), Manual({}, {"facebook_feed"}),
                 Manual({"facebook", "instagram"}, {"facebook_feed", "instagram_stories"}),
                 Manual({"facebook", "instagram"}, {"instagram_stories"}),
                 Manual({"facebook"}, {"instagram_stories"})}

OfPins == {WithAdSet([AdSet(<<Multi(assets), Image>>) EXCEPT !.placements = p]) :
              assets \in Pinnings, p \in OfPlacements}

OfCreatives ==
    {WithCreative(c) : c \in
        {Image, Creative("single_image", <<Hash("imgC")>>, <<>>, <<Copy>>),
         Creative("single_image", <<File("clip")>>, <<>>, <<Copy>>),
         Creative("single_video", <<File("banner"), File("clip")>>, <<>>, <<Copy2>>),
         Creative("single_video", <<Video("vidC")>>, <<>>, <<Copy>>),
         Creative("single_image", <<File("misnamed")>>, <<>>, <<Copy>>),
         Post, [Post EXCEPT !.page = {}],
         Creative("carousel", <<>>, <<Card(File("banner"))>>, <<Copy>>),
         Creative("carousel", <<>>, <<Card(File("banner")), Card(File("clip"))>>, <<Copy>>),
         Creative("carousel", <<>>, <<Card(Hash("imgC")), Card(Video("vidC"))>>, <<Copy>>)}}
    \cup {WithAdSet([AdSet(<<Post, Creative("carousel", <<>>,
                             <<Card(File("banner")), Card(File("clip"))>>, <<Copy2>>)>>)
              EXCEPT !.ads[2].name = "second"])}

OfTracking ==
    {WithAdSet([AdSet(<<Image>>) EXCEPT !.tracking = [NoTracking EXCEPT !.conversion_event = e,
                   !.dataset = d, !.utm = u], !.optimization_goal = goal]) :
        e \in {{}, {"LEAD"}}, d \in {{}, {"pixel"}, {"other"}}, u \in {{}, {"source"}},
        goal \in {{"LINK_CLICKS"}, {"OFFSITE_CONVERSIONS"}, {"REACH"}}}

OfNames ==
    {[Usual EXCEPT !.name = n, !.ad_sets = <<[AdSet(<<Image>>) EXCEPT !.name = m], AdSet(<<Image>>)>>] :
        n \in {"webinar", "{date}"}, m \in {"broad", "narrow"}}

OfUrls ==
    {WithCreative([Image EXCEPT !.url = {[Site EXCEPT !.https = https, !.host = host, !.template = t]}]) :
        https, t \in BOOLEAN, host \in {"example", "localhost", "intranet"}}
    \cup {WithCreative([Image EXCEPT !.variants = <<[Copy EXCEPT !.cta = {"SHOP"}]>>]),
          WithCreative([Image EXCEPT !.url = {}]), WithCreative([Image EXCEPT !.variants = <<>>]),
          WithCreative([Image EXCEPT !.page = {"other"}]),
          WithCreative([Image EXCEPT !.instagram_account = {"other"}])}

OfSchedules ==
    {[Usual EXCEPT !.schedule = [start |-> {[at |-> 1, utc |-> TRUE]}, end |-> {end}]] :
        end \in [at : {1, 2}, utc : BOOLEAN]}
    \cup {[Usual EXCEPT !.budget = {Of("campaign", "lifetime", Amount(70), "PLN")}, !.schedule = dates] :
            dates \in {NoDates, Ends}}

OfCampaigns ==
    {[Usual EXCEPT !.objective = o, !.special_ad_categories = sc, !.spend_cap = cap] :
        o \in {"OUTCOME_LEADS", "OUTCOME_SALES"}, sc \in {{}, {"HOUSING"}},
        cap \in {{}, {[amount |-> Amount(400), currency |-> "PLN"]},
                 {[amount |-> Amount(600), currency |-> "HUF"]}}}

OnPlatforms == {WithAdSet([AdSet(<<Image>>) EXCEPT !.placements = p]) : p \in OfPlacements}

SomeDrafts == OfBudgets \cup OfLevels \cup OfBids \cup OfCountries \cup OfAudiences
              \cup OfPins \cup OfCreatives \cup OfTracking \cup OfNames \cup OfUrls
              \cup OfSchedules \cup OfCampaigns \cup OnPlatforms

PostDrafts == {WithCreative(InstagramPost)}
MisnamedDrafts == {WithCreative(Creative("single_image", <<File("misnamed")>>, <<>>, <<Copy>>))}
TwinDrafts == {WithCreative(Multi(<<Pin(File("banner"), "instagram_stories"), File("twin")>>))}
PinnedVideoDrafts == {WithCreative(Multi(<<Video("vidC"), Pin(File("clip"), "instagram_stories")>>))}
OfHuf == {Budgeted("act_huf", "campaign", "daily", Amount(70), "HUF", NoDates)}

Read(a, offset) ==
    [id |-> a, currency |-> {Currencies[a]}, currency_offset |-> offset, denied |-> {},
     min_daily_budget |-> 500, available_page_ids |-> {"page"},
     available_instagram_account_ids |-> {"ig"}, available_dataset_ids |-> {"pixel"},
     available_conversion_events |-> {}, available_custom_audience_ids |-> {"buyers"},
     valid_objectives |-> {"OUTCOME_LEADS"}, valid_optimization_goals |-> {"LINK_CLICKS", "OFFSITE_CONVERSIONS"},
     valid_call_to_action_types |-> {"LEARN_MORE", "SIGN_UP"}]

Reads == {Read(a, OffsetsOfAccounts[a]) : a \in DOMAIN Currencies}
         \cup {Read("act_pln", NotGiven),
               [Read("act_pln", 100) EXCEPT !.denied = {"has_payment_method"}]}

NoBrand == {}
Brand == {[special_ad_category |-> {}, dsa |-> {"payor"}]}
HousingBrand == {[special_ad_category |-> {"HOUSING"}, dsa |-> {}]}
SomeBrands == {NoBrand, Brand, HousingBrand}

SomeAmounts == {Amount(35), Amount(80) + 100}

(* The theorems of CampaignBuildProofs are about instances like this one.  *)
ASSUME TheoremsApply == AccountIsRead /\ NoPlatformIsAPlacement

(* What the .cfg files name.  TLC sorts the value of a definition before    *)
(* its workers share it, and not one that is written where a .cfg points.  *)
TheFileKind == FileKinds
TheFileContent == Contents
TheVideoMedia == AllVideos
TheDrafts == SomeDrafts
TheBrands == SomeBrands
TheReadings == Reads
TheRealCurrency == Currencies
TheRealOffset == OffsetsOfAccounts
TheNewBudgets == SomeAmounts
TheMisnamed == MisnamedDrafts
TheHuf == OfHuf
ThePosts == PostDrafts
=============================================================================
