---------------------------- MODULE ApprovalGate ----------------------------
(***************************************************************************)
(* hooks/approval_gate.py, the PreToolUse hook that stands between an      *)
(* agent and Meta's MCP tools, with the map and the table of classes it    *)
(* works from, the host that runs it and the user it asks.                 *)
(* Only the last call and the last route are kept.                         *)
(*                                                                         *)
(* Meta changes its tools, a maintainer edits the map, compares it with a  *)
(* session and generates the table; what an installed plugin finds in its  *)
(* place may be missing or damaged.  A call is [tool, statuses, confirmed]:*)
(* each status that is somewhere in its input, as <<value, depth>>, and    *)
(* what `confirmed' says.  Every name is one that the hook's pattern takes *)
(* for a tool of Meta's, and every input an object: a host calls the hook  *)
(* for no other name, and sends no other input.                            *)
(***************************************************************************)
EXTENDS Capabilities

CONSTANTS
    Tools,          \* Meta's tools, those it has now and may add
    Words,          \* the words in the name of each
    Registries,     \* what a maintainer may make of capabilities.yaml
    Inventories,    \* and of mcp-tools.yaml
    LiveTools,      \* the tools a session may have
    Hosts,          \* "claude" asks the user, "codex" cannot
    Modes,          \* META_ADS_AGENT_HOOKS: "", "strict" or "0"
    Calls,          \* the calls an agent may make
    Harms           \* the tools that do harm unasked, whatever the map says

ASSUME WordsAssumption == DOMAIN Words = Tools
ASSUME CallsAssumption == \A c \in Calls : c.tool \in Tools
ASSUME ToolsAssumption ==
    /\ \A l \in LiveTools : l \subseteq Tools
    /\ \A i \in Inventories : i.documented \cup i.unverified \subseteq Tools
    /\ \A t \in DOMAIN UNROUTED : UNROUTED[t] \in RiskLevels
ASSUME HostsAssumption == Hosts \subseteq {"claude", "codex"}
ASSUME HintsAssumption == \A c \in DOMAIN GapHints : GapHints[c] \subseteq Tools

VARIABLES
    registry, inventory,
    live,         \* the tools the session has
    compared,     \* the last comparison came out clean, and nothing changed since
    classes,      \* tool-classes.json: a table, missing, or odd
    host, mode,
    call,         \* the call the agent makes, a set of at most one
    answer,       \* the hook's: "waits", "silent", "ask" or "deny"
    done,         \* the last call Meta executed, and whether the user was asked
    routed        \* the last route the agent was given

vars == <<registry, inventory, live, compared, classes, host, mode, call, answer, done, routed>>
map == <<registry, inventory, live, compared, classes, routed>>
session == <<host, mode>>

-----------------------------------------------------------------------------
(* approval_gate.py: the pure part.                                        *)

WRITE_WORDS == {"create", "update", "delete", "activate", "boost", "connect", "upload",
                "schedule", "set", "remove", "add", "pause", "duplicate", "copy", "publish"}
READ_WORDS == {"get", "read", "list", "search", "check", "insights", "library", "help"}

DELIVERING_CREATES == {"ads_create_campaign", "ads_create_ad_set", "ads_create_ad"}

LooksLikeARead(tool) ==
    Words[tool] \cap WRITE_WORDS = {} /\ Words[tool] \cap READ_WORDS # {}

MAX_DEPTH == 8

(* _walk and _statuses: a value is found at any level down to the deepest, *)
(* in a list or in a JSON string alike; a status that is no text is not    *)
(* one.  A status counts in upper case.                                    *)
StatusesOf(c) ==
    {s[1] : s \in {x \in c.statuses : x[2] <= MAX_DEPTH /\ x[1] # "not_text"}}

Upper(status) == IF status = "active" THEN "ACTIVE"
                 ELSE IF status = "paused" THEN "PAUSED" ELSE status

(* confirmed=true, or the text.                                            *)
Truthy(value) == value \in {"true", "text_true"}

(* A mistake: a lower-case status is no status.                            *)
CreatesLiveExact(c) ==
    c.tool \in DELIVERING_CREATES /\ "ACTIVE" \in StatusesOf(c)

CreatesLive(c) ==
    c.tool \in DELIVERING_CREATES /\ \E s \in StatusesOf(c) : Upper(s) # "PAUSED"

AlwaysAsks(c) ==
    \/ c.tool = "ads_update_entity"
    \/ c.tool = "ads_boost_ig_post" /\ Truthy(c.confirmed)

(* The file: kind "table", "missing" - absent, or no JSON object - or      *)
(* "odd", an object that decide stumbles over.                             *)
File(kind, table) == [kind |-> kind, table |-> table]

(* By its class; a tool without one unless its name is a read.             *)
ClassAsks(c, table) ==
    IF \E t \in table : c.tool \in DOMAIN t.tools
    THEN \E t \in table : t.tools[c.tool] \in t.approval_required
    ELSE ~LooksLikeARead(c.tool)

Decide(c, table) ==
    IF CreatesLive(c) THEN "deny"
    ELSE IF AlwaysAsks(c) \/ ClassAsks(c, table) THEN "ask" ELSE "silent"

(* An ask that nobody can put is a denial.                                 *)
Strict(kind, m, h) ==
    IF kind = "ask" /\ (m = "strict" \/ h = "codex") THEN "deny" ELSE kind

(* main: a table that is not what decide expects raises, and raises asks.  *)
Answer(c, file, m, h) ==
    IF m = "0" THEN "silent"
    ELSE Strict(IF file.kind = "odd" /\ ~CreatesLive(c) THEN "ask" ELSE Decide(c, file.table),
                m, h)

-----------------------------------------------------------------------------
(* The map and its table.                                                  *)

EditMap(r, i) ==
    /\ Loads(r)
    /\ registry' = r /\ inventory' = i /\ compared' = FALSE
    /\ UNCHANGED <<live, classes, session, call, answer, done, routed>>

MetaChangesTools(l) ==
    /\ call = {} /\ live' = l /\ compared' = FALSE
    /\ UNCHANGED <<registry, inventory, classes, session, call, answer, done, routed>>

Compare ==
    /\ compared' = Clean(live, registry, inventory)
    /\ UNCHANGED <<registry, inventory, live, classes, session, call, answer, done, routed>>

BuildTable ==
    /\ call = {} /\ CanBuildTable(registry, inventory)
    /\ classes' = File("table", {Table(registry)})
    /\ UNCHANGED <<registry, inventory, live, compared, session, call, answer, done, routed>>

(* The file is lost, or is JSON of another shape.                          *)
DamageTable(kind) ==
    /\ call = {} /\ classes' = File(kind, {})
    /\ UNCHANGED <<registry, inventory, live, compared, session, call, answer, done, routed>>

-----------------------------------------------------------------------------
(* A session.                                                              *)

StartSession(h, m) ==
    /\ call = {} /\ host' = h /\ mode' = m
    /\ UNCHANGED <<map, call, answer, done>>

(* A skill asks the map for the layer; `api' commands ask for theirs.      *)
AskRoute(c, mcp_available) ==
    /\ call = {} /\ Routable(registry[c], mcp_available)
    /\ routed' = {[capability |-> c, mcp |-> mcp_available, by |-> "skill",
                   route |-> Route(registry[c], mcp_available), cap |-> registry[c],
                   valid |-> Problems(registry) = {}]}
    /\ done' = {}
    /\ UNCHANGED <<registry, inventory, live, compared, classes, session, call, answer>>

AskFallback(c) ==
    /\ call = {} /\ FallbackRoutable(registry[c])
    /\ routed' = {[capability |-> c, mcp |-> TRUE, by |-> "api",
                   route |-> FallbackRoute(registry[c]), cap |-> registry[c],
                   valid |-> Problems(registry) = {}]}
    /\ done' = {}
    /\ UNCHANGED <<registry, inventory, live, compared, classes, session, call, answer>>

CallTool(c) ==
    /\ call = {} /\ c.tool \in live
    /\ call' = {c} /\ answer' = "waits"
    /\ done' = {} /\ routed' = {}
    /\ UNCHANGED <<registry, inventory, live, compared, classes, session>>

RunHook ==
    /\ answer = "waits"
    /\ answer' = Answer(CHOOSE c \in call : TRUE, classes, mode, host)
    /\ UNCHANGED <<map, session, call, done>>

Finish(asked) ==
    /\ done' = {[call |-> c, asked |-> asked, table |-> classes, hook |-> mode # "0"] : c \in call}
    /\ call' = {} /\ answer' = "silent"
    /\ UNCHANGED <<map, session>>

(* The host: silence leaves the call to the user's own settings, which may *)
(* let it through; an ask is put to the user - or, where it cannot be, is  *)
(* a failed hook and the call runs; a denial is the end of the call.       *)
RunSilently == call # {} /\ answer = "silent" /\ Finish(FALSE)

RunAsked == answer = "ask" /\ Finish(host = "claude")

EndCall ==
    /\ answer \in {"ask", "deny"}
    /\ call' = {} /\ answer' = "silent"
    /\ UNCHANGED <<map, session, done>>

-----------------------------------------------------------------------------
Init ==
    /\ registry \in {r \in Registries : Loads(r)} /\ inventory \in Inventories
    /\ live \in LiveTools /\ compared = FALSE
    /\ classes = File("missing", {})
    /\ host \in Hosts /\ mode \in Modes
    /\ call = {} /\ answer = "silent" /\ done = {} /\ routed = {}

Next ==
    \/ \E r \in Registries, i \in Inventories : EditMap(r, i)
    \/ \E l \in LiveTools : MetaChangesTools(l)
    \/ Compare \/ BuildTable
    \/ \E kind \in {"missing", "odd"} : DamageTable(kind)
    \/ \E h \in Hosts, m \in Modes : StartSession(h, m)
    \/ \E c \in DOMAIN registry, mcp_available \in BOOLEAN : AskRoute(c, mcp_available)
    \/ \E c \in DOMAIN registry : AskFallback(c)
    \/ \E c \in Calls : CallTool(c)
    \/ RunHook \/ RunSilently \/ RunAsked \/ EndCall

Spec == Init /\ [][Next]_vars

-----------------------------------------------------------------------------
(* Every variable keeps its type.                                          *)
TypeOK ==
    /\ Loads(registry) /\ live \subseteq Tools
    /\ inventory.documented \cup inventory.unverified \subseteq Tools
    /\ compared \in BOOLEAN
    /\ classes.kind \in {"table", "missing", "odd"}
    /\ classes.kind = "table" =>
           \A t \in classes.table : \A tool \in DOMAIN t.tools : t.tools[tool] \in RiskLevels
    /\ host \in Hosts /\ mode \in Modes
    /\ \A c \in call : c.tool \in live
    /\ answer # "silent" => call # {}
    /\ answer \in {"waits", "silent", "ask", "deny"}

(* The call was checked, by the table that this map generates.             *)
CheckedBy(d) == d.hook /\ d.table = File("table", {Table(registry)})

(* ADR-011: "an activation, a budget change, a delete or a customer-list   *)
(* upload cannot happen without the user seeing a prompt for that call":   *)
(* with the hook on, on any host, no tool runs unasked that some           *)
(* capability of the map uses with a class that needs approval - whatever  *)
(* other, milder capabilities use it, and whatever the entries declare -   *)
(* and no boost that creates something.                                    *)
ApprovedBeforeItActs ==
    \A d \in done :
        /\ CheckedBy(d) =>
               \A c \in RoutedBy(registry, d.call.tool) :
                   registry[c].risk \in APPROVAL_REQUIRED => d.asked
        /\ d.hook /\ d.call.tool = "ads_boost_ig_post" /\ Truthy(d.call.confirmed) => d.asked

(* ADR-011: "A new write tool from Meta should meet a question, not        *)
(* silence": with the table lost, damaged, or older than the tool, what    *)
(* does harm is still asked about.                                         *)
UnknownHarmIsAsked ==
    \A d \in done :
        /\ d.hook /\ d.call.tool \in Harms
        /\ \A t \in d.table.table : d.call.tool \notin DOMAIN t.tools
        => d.asked

(* The two together: nothing that a person must approve runs unasked,      *)
(* whatever state the table is in (hooks/approval_gate.py, decide).        *)
HarmIsAsked == ApprovedBeforeItActs /\ UnknownHarmIsAsked

(* ADR-011: "A create whose input sets a status other than PAUSED is       *)
(* denied": no answer of the user, and no state of the table, lets one     *)
(* through.                                                                *)
NothingLiveIsCreated ==
    \A d \in done :
        d.hook /\ d.call.tool \in DELIVERING_CREATES =>
            \A s \in d.call.statuses : Upper(s[1]) \in {"PAUSED", "not_text"}

(* capabilities.py:171: absence of the MCP does not let the fallback take  *)
(* over: a skill is sent to a layer that is there, and to the fallback     *)
(* only for a gap; and in a map that validates the route names its means.  *)
FallbackStaysInItsPlace ==
    \A r \in routed :
        /\ r.by = "skill" => IF r.route.provider = "official_mcp" THEN r.mcp
                             ELSE r.route.provider = "api_fallback" /\ IsGap(r.cap)
        /\ r.valid => r.route.cli \/ (r.route.provider = "official_mcp" /\ r.route.tools # {})

(* A comparison that comes out clean, and a table generated from that map, *)
(* leave no tool of the session to the guess by its name.                  *)
CleanMapCoversSession ==
    /\ compared /\ CanBuildTable(registry, inventory)
    /\ classes = File("table", {Table(registry)})
    => \A t \in classes.table : live \subseteq DOMAIN t.tools

(* The two together: every way an action takes is one the map names for a  *)
(* session like this one (capabilities.py, route; tool_inventory.py).      *)
RoutesAreKnown == FallbackStaysInItsPlace /\ CleanMapCoversSession

(* capabilities.py:106 "A registry entry cannot opt out of an approval     *)
(* the class demands; it can only opt in to a stricter stance".            *)
DeclaredIsAsked ==
    \A d \in done :
        CheckedBy(d) =>
            \A c \in RoutedBy(registry, d.call.tool) :
                RequiresApproval(registry[c]) /\ d.call.tool # "ads_boost_ig_post" => d.asked
=============================================================================
