--------------------------- MODULE MCApprovalGate ---------------------------
(* Instances of ApprovalGate for TLC: one tool of each kind.               *)
EXTENDS ApprovalGate

MetaTools == {"ads_get_ad_entities", "ads_create_ad", "ads_update_entity", "ads_activate_entity",
              "ads_boost_ig_post", "ads_creative_delete", "ads_creative_upload_media",
              "ads_log_ui_interaction", "ads_create_custom_audience", "ads_experiment_start"}

WordsOf ==
    [ads_get_ad_entities |-> {"get", "ad", "entities"}, ads_create_ad |-> {"create", "ad"},
     ads_update_entity |-> {"update", "entity"}, ads_activate_entity |-> {"activate", "entity"},
     ads_boost_ig_post |-> {"boost", "ig", "post"}, ads_creative_delete |-> {"creative", "delete"},
     ads_creative_upload_media |-> {"creative", "upload", "media"},
     ads_log_ui_interaction |-> {"log", "ui", "interaction"},
     ads_create_custom_audience |-> {"create", "custom", "audience"},
     ads_experiment_start |-> {"experiment", "start"}]

Unrouted == [ads_log_ui_interaction |-> "read"]
Hints == [local_image_upload |-> {"ads_creative_upload_media"}]

Cap(risk, tools, declared) ==
    [preferred |-> "official_mcp", fallback |-> "none", risk |-> risk, tools |-> tools,
     cli |-> FALSE, notes |-> FALSE, declared |-> declared]

TheMap ==
    [read_structure |-> Cap("read", {"ads_get_ad_entities"}, FALSE),
     create_ad |-> Cap("create_paused", {"ads_create_ad"}, FALSE),
     update_inactive |-> Cap("update_inactive", {"ads_update_entity"}, FALSE),
     delete_entity |-> [Cap("delete", {"ads_update_entity"}, TRUE) EXCEPT
                           !.fallback = "api_fallback", !.cli = TRUE],
     activate |-> Cap("activate", {"ads_activate_entity"}, TRUE),
     boost |-> Cap("create_paused", {"ads_boost_ig_post"}, TRUE),
     delete_creative |-> Cap("delete", {"ads_creative_delete"}, TRUE),
     preview_creative |-> Cap("read", {"ads_get_ad_entities", "ads_creative_delete"}, FALSE),
     audience |-> Cap("update_active", {"ads_create_custom_audience"}, TRUE),
     local_image_upload |-> [Cap("create_paused", {"ads_creative_upload_media"}, FALSE) EXCEPT
                                !.fallback = "api_fallback", !.cli = TRUE],
     lead_forms |-> [Cap("create_paused", {}, FALSE) EXCEPT !.preferred = "none", !.notes = TRUE]]

\* The flags forgotten; the upload still a gap, with and without a command;
\* an unknown class; a flag on a class that needs no approval.
Flagless == [c \in DOMAIN TheMap |-> [TheMap[c] EXCEPT !.declared = FALSE]]
WithGap == [TheMap EXCEPT !.local_image_upload =
               [@ EXCEPT !.preferred = "api_fallback", !.tools = {}]]
NoCommand == [WithGap EXCEPT !.local_image_upload.cli = FALSE]
Mistyped == [TheMap EXCEPT !.activate.risk = "activated"]
Flagged == [TheMap EXCEPT !.create_ad.declared = TRUE]

Maps == {TheMap, Flagless, WithGap, NoCommand, Mistyped}
FlaggedMaps == {Flagged}
OneMap == {TheMap}

Known == MetaTools \ {"ads_log_ui_interaction", "ads_experiment_start"}
Inventory(documented, unverified) == [documented |-> documented, unverified |-> unverified]
SomeInventories == {Inventory(Known, {"ads_log_ui_interaction"}),
                    Inventory(Known \ {"ads_creative_upload_media"}, {"ads_log_ui_interaction",
                                                            "ads_creative_upload_media"}),
                    Inventory(MetaTools, {})}
OneInventory == {Inventory(Known, {"ads_log_ui_interaction"})}
Lives == {Known, Known \cup {"ads_log_ui_interaction"}, MetaTools}

Call(tool, statuses, confirmed) == [tool |-> tool, statuses |-> statuses, confirmed |-> confirmed]
SomeCalls ==
    {Call(t, {}, "false") : t \in MetaTools}
    \cup {Call("ads_create_ad", {<<v, d>>}, "false") :
             v \in {"ACTIVE", "active", "PAUSED", "paused", "not_text"}, d \in {0, 8}}
    \cup {Call("ads_boost_ig_post", {}, v) : v \in {"true", "text_true"}}
DeepCalls == {Call("ads_create_ad", {<<"ACTIVE", 9>>}, "false")}

Harmful == {"ads_update_entity", "ads_activate_entity", "ads_creative_delete",
            "ads_create_custom_audience", "ads_experiment_start"}

BothHosts == {"claude", "codex"}
AllModes == {"", "strict", "0"}

(* What the .cfg files name.  TLC sorts the value of a definition before    *)
(* its workers share it, and not one that is written where a .cfg points.  *)
TheUnrouted == Unrouted
TheGapHints == Hints
TheTools == MetaTools
TheWords == WordsOf
TheMaps == Maps
TheInventories == SomeInventories
TheLiveTools == Lives
TheHosts == BothHosts
TheModes == AllModes
TheCalls == SomeCalls
TheHarms == Harmful
TheOneMap == OneMap
TheOneInventory == OneInventory
TheDeepCalls == DeepCalls
=============================================================================
