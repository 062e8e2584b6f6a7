----------------------------- MODULE Creatives -----------------------------
(***************************************************************************)
(* api/creatives.py and `api create-creative': what a creative is asked    *)
(* with, what is refused before Meta is asked, and what Meta then keeps.   *)
(*                                                                         *)
(* A request is one `api create-creative' command.  An asset in it is      *)
(* [media, placement], a card is [media, link, still]: media is an image   *)
(* hash or a video id, still says that the card brings its own thumbnail.  *)
(* A creative on Meta has one shape:                                       *)
(*   link      link_data with an image or with cards                       *)
(*   video     video_data                                                  *)
(*   feed      asset_feed_spec, the identity in object_story_spec          *)
(*   post, instagram_post    no object_story_spec                          *)
(* Texts are kept only in that a variant has one.                          *)
(***************************************************************************)
EXTENDS CampaignPlan

DefaultCta == {"LEARN_MORE"}

(* A creative on Meta; only a feed labels its media.                       *)
MadeCreativeType ==
    [shape : {"link", "video", "feed", "post", "instagram_post"},
     page : Optional(STRING), instagram_account : Optional(STRING),
     media : Seq([media : STRING, label : Optional(Placements)]),
     cards : Seq([media : STRING, link : Optional(UrlType)]),
     variants : Seq(VariantType), url : Optional(UrlType), still : BOOLEAN,
     rules : Seq(SUBSET Placements)]

CtaOr(default, variant) == IF variant.cta = {} THEN default ELSE variant.cta

(* What every creative on Meta has, and the shapes fill in.                *)
Blank(page, instagram_account) ==
    [shape |-> "none", page |-> page, instagram_account |-> instagram_account,
     media |-> <<>>, cards |-> <<>>, variants |-> <<>>, url |-> {},
     still |-> FALSE, rules |-> <<>>]

-----------------------------------------------------------------------------
(* Meta's generated stills: none until it has transcoded the video.  A     *)
(* revoked token, the other way out of the call, is in AssetUpload's       *)
(* error classes and not repeated here.                                    *)
PickVideoThumbnail(media, ready) == media \in ready

OneMedium(r) == <<[media |-> r.assets[1].media, label |-> {}]>>

(* ads_create_creative of Meta's MCP server, for a single image.           *)
LinkCreative(r) ==
    [Blank(r.page, r.instagram_account) EXCEPT
        !.shape = "link", !.media = OneMedium(r),
        !.variants = r.variants, !.url = r.url]

(* A video without a still is created all the same.                        *)
VideoCreative(r, ready) ==
    [Blank(r.page, r.instagram_account) EXCEPT
        !.shape = "video", !.media = OneMedium(r), !.url = r.url,
        !.variants = <<[Head(r.variants) EXCEPT !.cta = CtaOr(DefaultCta, Head(r.variants))]>>,
        !.still = PickVideoThumbnail(r.assets[1].media, ready)]

(* object_story_id carries the Page; object_id is the Page of an Instagram *)
(* post.                                                                   *)
ExistingPostCreative(r) ==
    [Blank(r.page, r.instagram_account) EXCEPT
        !.shape = IF r.instagram_media THEN "instagram_post" ELSE "post"]

-----------------------------------------------------------------------------
(* Multi-variant creatives.  `placements' maps a hash or an id: a medium   *)
(* given twice is pinned once, where it was pinned last.                   *)

Media(assets) == {a.media : a \in ToSet(assets)}

(* _parse_placements: one pin per medium, the last one wins.               *)
ParsePlacements(assets) ==
    LET pins == {i \in DOMAIN assets : assets[i].placement # {}}
    IN  [x \in {assets[i].media : i \in pins} |->
            LET last == CHOOSE i \in pins :
                            /\ assets[i].media = x
                            /\ \A j \in pins : assets[j].media = x => j <= i
            IN  CHOOSE p \in assets[last].placement : TRUE]

(* _label: the placement an asset is labelled with; none is the default.   *)
Label(media, pinned) == IF media \in DOMAIN pinned THEN {pinned[media]} ELSE {}

Labelled(assets, pinned) ==
    [i \in DOMAIN assets |-> [media |-> assets[i].media, label |-> Label(assets[i].media, pinned)]]

(* A mistake: the default rule comes first, and matches everything.        *)
CustomizationRulesDefaultFirst(pinned) ==
    IF DOMAIN pinned = {} THEN <<>>
    ELSE LET named == SetToSeq({pinned[x] : x \in DOMAIN pinned})
         IN  <<{}>> \o [i \in DOMAIN named |-> {named[i]}]

(* One rule per pinned placement, by priority, then the default rule, for  *)
(* the label none: the placement it matches is the label it shows.         *)
CustomizationRules(pinned) ==
    IF DOMAIN pinned = {} THEN <<>>
    ELSE LET named == SetToSeq({pinned[x] : x \in DOMAIN pinned})
         IN  Append([i \in DOMAIN named |-> {named[i]}], {})

FeedCreative(r) ==
    LET pinned == ParsePlacements(r.assets) IN
    [Blank(r.page, r.instagram_account) EXCEPT
        !.shape = "feed", !.url = r.url, !.variants = r.variants,
        !.media = Labelled(r.assets, pinned),
        !.rules = CustomizationRules(pinned)]

(* What Meta shows in a placement: the assets that the first matching rule *)
(* names; without rules, any asset.                                        *)
Serves(creative, placement) ==
    LET rules == creative.rules
        matching == {i \in DOMAIN rules : rules[i] \subseteq {placement}}
        first == CHOOSE i \in matching : \A j \in matching : i <= j
        shown == IF rules = <<>> THEN ToSet(creative.media)
                 ELSE {a \in ToSet(creative.media) : a.label = rules[first]}
    IN  {a.media : a \in shown}

-----------------------------------------------------------------------------
(* Carousels: cards in the order given.                                    *)

(* A mistake: only a card's own thumbnail counts.                          *)
CardStillOwn(card, videos, ready) == card.media \notin videos \/ card.still

CardStill(card, videos, ready) ==
    \/ card.media \notin videos
    \/ card.still
    \/ PickVideoThumbnail(card.media, ready)

CarouselCreative(r) ==
    [Blank(r.page, r.instagram_account) EXCEPT
        !.shape = "link", !.url = r.url,
        !.variants = <<[Head(r.variants) EXCEPT !.cta = CtaOr(DefaultCta, Head(r.variants))]>>,
        !.cards = [i \in DOMAIN r.cards |->
            [media |-> r.cards[i].media,
             link |-> IF r.cards[i].link = {} THEN r.url ELSE r.cards[i].link]]]

-----------------------------------------------------------------------------
(* run_create_creative.                                                    *)

Videos(r, videos) == Media(r.assets) \cap videos

(* What the options say before any creative function is called.            *)
OptionsGiven(r) ==
    IF r.mode = "existing_post" THEN r.post # r.instagram_media
    ELSE r.page # {} /\ r.url # {} /\ r.variants # <<>>

PostRefused(r) ==
    r.instagram_media /\ (r.instagram_account = {} \/ r.page = {})

FeedRefused(r, videos) ==
    LET pinned == ParsePlacements(r.assets) IN
    \/ r.variants = <<>> \/ r.assets = <<>>
    \/ Videos(r, videos) # {} /\ Media(r.assets) \ videos # {}
    \/ \E x \in DOMAIN pinned : pinned[x] \notin Placements
    \/ DOMAIN pinned # {} /\ Media(r.assets) \subseteq DOMAIN pinned

(* --video-id is given once.                                               *)
OneVideoId(r, videos) == Cardinality(Videos(r, videos)) <= 1

(* What no later call can make right, whatever Meta does meanwhile.        *)
Refused(r, videos) ==
    \/ ~OptionsGiven(r)
    \/ r.mode = "existing_post" /\ PostRefused(r)
    \/ r.mode = "single_video" /\ Videos(r, videos) = {}
    \/ r.mode = "multi_variant" /\ (FeedRefused(r, videos) \/ ~OneVideoId(r, videos))
    \/ r.mode = "carousel" /\ Len(r.cards) \notin CAROUSEL_MIN_CARDS .. CAROUSEL_MAX_CARDS

(* A video card waits until Meta has processed the video.                  *)
Waits(r, videos, ready) ==
    r.mode = "carousel" /\ \E card \in ToSet(r.cards) : ~CardStill(card, videos, ready)

Created(r, ready) ==
    CASE r.mode = "single_image"  -> LinkCreative(r)
      [] r.mode = "single_video"  -> VideoCreative(r, ready)
      [] r.mode = "existing_post" -> ExistingPostCreative(r)
      [] r.mode = "multi_variant" -> FeedCreative(r)
      [] r.mode = "carousel"      -> CarouselCreative(r)
=============================================================================
