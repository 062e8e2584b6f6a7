---------------------------- MODULE Capabilities ----------------------------
(***************************************************************************)
(* capabilities.py, tool_inventory.py and build_hook_tool_classes.py: the  *)
(* map from what a skill wants to do to the layer that does it, the table  *)
(* of approval classes generated from it, and the comparison of the map    *)
(* with the tools that a session really has.                               *)
(*                                                                         *)
(* A registry maps the names of capabilities to [preferred, fallback,      *)
(* risk, tools, cli, notes, declared]; an inventory is [documented,        *)
(* unverified], two sets of tools.                                         *)
(***************************************************************************)
EXTENDS Integers, FiniteSets

CONSTANTS
    UNROUTED,     \* the classes of tools that no capability routes to
    GapHints      \* for each gap, the tools whose names are worth reading

Providers == {"official_mcp", "api_fallback", "none"}

(* The classes, in ascending order of consequence.                         *)
RiskOrder ==
    <<"read", "create_paused", "update_inactive", "update_active", "budget_increase",
      "activate", "bulk", "delete", "pii_upload">>

RiskLevels == {RiskOrder[i] : i \in 1 .. 9}

RiskRank(level) == CHOOSE i \in 1 .. 9 : RiskOrder[i] = level

(* Fixed in the code, so that no typo in the map can take one out.         *)
APPROVAL_REQUIRED ==
    {"update_active", "budget_increase", "activate", "bulk", "delete", "pii_upload"}

-----------------------------------------------------------------------------
(* The class decides; an entry can only ask for more.                      *)
RequiresApproval(cap) == cap.risk \in APPROVAL_REQUIRED \/ cap.declared

IsGap(cap) == cap.preferred = "api_fallback"

HasDeprecatedFallback(cap) ==
    cap.preferred = "official_mcp" /\ cap.fallback = "api_fallback" /\ cap.cli

Gaps(registry) == {c \in DOMAIN registry : IsGap(registry[c])}

(* _parse_capability and load_registry: what a map must be to load; a      *)
(* class the code does not know is refused.                                *)
Loads(registry) ==
    /\ DOMAIN registry # {}
    /\ \A c \in DOMAIN registry :
           /\ registry[c].preferred \in Providers /\ registry[c].fallback \in Providers
           /\ registry[c].risk \in RiskLevels

(* capabilities --validate.                                                *)
Problems(registry) ==
    {c \in DOMAIN registry :
        CASE registry[c].preferred = "api_fallback" -> ~registry[c].cli
          [] registry[c].preferred = "official_mcp" -> registry[c].tools = {}
          [] OTHER                                  -> ~registry[c].notes}

-----------------------------------------------------------------------------
(* Routing.                                                                *)

(* A mistake: whether the MCP is connected is not asked.                   *)
RoutableAnyway(cap, mcp_available) == cap.preferred # "none"

(* The capability has a layer, and that layer is there.                    *)
Routable(cap, mcp_available) ==
    \/ cap.preferred = "api_fallback"
    \/ cap.preferred = "official_mcp" /\ mcp_available

Route(cap, mcp_available) ==
    [provider |-> cap.preferred, requires_approval |-> RequiresApproval(cap),
     tools |-> cap.tools, cli |-> IsGap(cap) /\ cap.cli]

(* For the `api' commands: a gap, or one the MCP has taken over since.     *)
FallbackRoutable(cap) == IsGap(cap) \/ HasDeprecatedFallback(cap)

FallbackRoute(cap) ==
    [provider |-> "api_fallback", requires_approval |-> RequiresApproval(cap),
     tools |-> cap.tools, cli |-> cap.cli]

-----------------------------------------------------------------------------
(* The table of the approval hook.                                         *)

(* The capabilities that route a tool: only the MCP's own.                 *)
RoutedBy(registry, tool) ==
    {c \in DOMAIN registry : registry[c].preferred = "official_mcp" /\ tool \in registry[c].tools}

RoutedTools(registry) ==
    UNION {registry[c].tools : c \in {d \in DOMAIN registry : registry[d].preferred = "official_mcp"}}

(* A mistake: the mildest class a tool is used in.                         *)
ClassOfMildest(registry, tool) ==
    LET levels == {registry[c].risk : c \in RoutedBy(registry, tool)} IN
    IF levels = {} THEN UNROUTED[tool]
    ELSE CHOOSE l \in levels : \A k \in levels : RiskRank(k) >= RiskRank(l)

(* A tool of several capabilities has the strictest of their classes.      *)
ClassOf(registry, tool) ==
    LET levels == {registry[c].risk : c \in RoutedBy(registry, tool)} IN
    IF levels = {} THEN UNROUTED[tool]
    ELSE CHOOSE l \in levels : \A k \in levels : RiskRank(k) <= RiskRank(l)

(* The script refuses a tool classed twice, and one without a class.       *)
CanBuildTable(registry, inventory) ==
    /\ Loads(registry)
    /\ DOMAIN UNROUTED \cap RoutedTools(registry) = {}
    /\ inventory.documented \cup inventory.unverified
           \subseteq RoutedTools(registry) \cup DOMAIN UNROUTED

(* A mistake: what no capability routes is written without its class.      *)
TableUnclassed(registry) ==
    [approval_required |-> APPROVAL_REQUIRED,
     tools |-> [t \in RoutedTools(registry) \cup DOMAIN UNROUTED |->
                   IF t \in DOMAIN UNROUTED THEN "unrouted" ELSE ClassOf(registry, t)]]

Table(registry) ==
    [approval_required |-> APPROVAL_REQUIRED,
     tools |-> [t \in RoutedTools(registry) \cup DOMAIN UNROUTED |-> ClassOf(registry, t)]]

-----------------------------------------------------------------------------
(* capabilities --compare: the map against the tools of a session.         *)

MappedTools(registry) == UNION {registry[c].tools : c \in DOMAIN registry}

New(live, inventory) == live \ (inventory.documented \cup inventory.unverified)

WorthReading(live, inventory) == New(live, inventory) \cup (inventory.unverified \cap live)

GapCandidates(live, registry, inventory) ==
    {c \in DOMAIN GapHints \cap Gaps(registry) :
        WorthReading(live, inventory) \cap GapHints[c] # {}}

(* Drift.clean                                                             *)
Clean(live, registry, inventory) ==
    /\ MappedTools(registry) \cup inventory.documented \subseteq live
    /\ New(live, inventory) = {}
    /\ GapCandidates(live, registry, inventory) = {}
=============================================================================
