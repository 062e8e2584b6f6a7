------------------------- MODULE ApprovalGateProofs -------------------------
(***************************************************************************)
(* Proofs about ApprovalGate for every map, inventory, set of tools and of *)
(* calls: what the hook's answer guarantees of the call that runs, and what *)
(* the map guarantees of a route.                                          *)
(***************************************************************************)
EXTENDS ApprovalGate, TLAPS

(* Every status is where the hook looks for it.                            *)
ShallowCalls == \A c \in Calls : \A s \in c.statuses : s[2] <= MAX_DEPTH

(* No tool that does harm has a name that looks like a read.               *)
HarmIsNamed == \A t \in Harms : ~LooksLikeARead(t)

-----------------------------------------------------------------------------
(* The class of a tool in the table                                        *)

LEMMA RankOfOrder ==
    ASSUME NEW i \in 1 .. 9
    PROVE  RiskRank(RiskOrder[i]) = i
  <1>1. \A j \in 1 .. 9 : RiskOrder[j] = RiskOrder[i] => j = i
    BY DEF RiskOrder
  <1>2. QED
    BY <1>1 DEF RiskRank

(* Some class of a set of classes is the strictest.                        *)
LEMMA StrictestExists ==
    ASSUME NEW levels, levels \subseteq RiskLevels, levels # {}
    PROVE  \E l \in levels : \A k \in levels : RiskRank(k) <= RiskRank(l)
  <1>1. \E i \in 1 .. 9 : RiskOrder[i] \in levels /\ \A j \in 1 .. 9 : RiskOrder[j] \in levels => j <= i
    <2>1. PICK k \in 1 .. 9 : RiskOrder[k] \in levels
      BY DEF RiskLevels
    <2>2. DEFINE In(i) == RiskOrder[i] \in levels
    <2>3. \/ In(1) \/ In(2) \/ In(3) \/ In(4) \/ In(5) \/ In(6) \/ In(7) \/ In(8) \/ In(9)
      BY <2>1
    <2>4. \E i \in 1 .. 9 : In(i) /\ \A j \in 1 .. 9 : In(j) => j <= i
      <3>. HIDE DEF In
      <3>1. QED BY <2>3
    <2>5. QED
      BY <2>4
  <1>2. PICK i \in 1 .. 9 : RiskOrder[i] \in levels /\ \A j \in 1 .. 9 : RiskOrder[j] \in levels => j <= i
    BY <1>1
  <1>3. ASSUME NEW k \in levels
        PROVE  RiskRank(k) <= RiskRank(RiskOrder[i])
    <2>1. PICK j \in 1 .. 9 : k = RiskOrder[j]
      BY DEF RiskLevels
    <2>2. QED
      BY <1>2, <2>1, RankOfOrder
  <1>4. QED
    BY <1>2, <1>3

(* What is stricter than a class that needs approval needs it as well.     *)
LEMMA ApprovalIsUpwards ==
    ASSUME NEW k \in RiskLevels, NEW l \in RiskLevels,
           k \in APPROVAL_REQUIRED, RiskRank(k) <= RiskRank(l)
    PROVE  l \in APPROVAL_REQUIRED
  <1>1. PICK i \in 1 .. 9 : k = RiskOrder[i]
    BY DEF RiskLevels
  <1>2. PICK j \in 1 .. 9 : l = RiskOrder[j]
    BY DEF RiskLevels
  <1>3. i <= j
    BY <1>1, <1>2, RankOfOrder
  <1>4. i >= 4
    BY <1>1 DEF RiskOrder, APPROVAL_REQUIRED
  <1>5. QED
    BY <1>2, <1>3, <1>4 DEF RiskOrder, APPROVAL_REQUIRED

LevelsOf(r, tool) == {r[c].risk : c \in RoutedBy(r, tool)}

LEMMA ClassIsStrictest ==
    ASSUME NEW r, Loads(r), NEW tool, RoutedBy(r, tool) # {}
    PROVE  /\ ClassOf(r, tool) \in LevelsOf(r, tool)
           /\ \A k \in LevelsOf(r, tool) : RiskRank(k) <= RiskRank(ClassOf(r, tool))
  <1>1. LevelsOf(r, tool) \subseteq RiskLevels /\ LevelsOf(r, tool) # {}
    BY DEF LevelsOf, RoutedBy, Loads
  <1>2. \E l \in LevelsOf(r, tool) : \A k \in LevelsOf(r, tool) : RiskRank(k) <= RiskRank(l)
    BY <1>1, StrictestExists
  <1>3. ClassOf(r, tool) =
            CHOOSE l \in LevelsOf(r, tool) : \A k \in LevelsOf(r, tool) : RiskRank(k) <= RiskRank(l)
    BY <1>1 DEF ClassOf, LevelsOf
  <1>4. QED
    BY <1>2, <1>3

(* A tool that some capability uses with a class that needs approval is    *)
(* in the table with such a class.                                         *)
LEMMA TableAsks ==
    ASSUME NEW r, Loads(r), NEW tool, NEW c \in RoutedBy(r, tool), r[c].risk \in APPROVAL_REQUIRED
    PROVE  tool \in DOMAIN Table(r).tools /\ Table(r).tools[tool] \in Table(r).approval_required
  <1>1. ClassOf(r, tool) \in APPROVAL_REQUIRED
    <2>1. r[c].risk \in LevelsOf(r, tool) /\ LevelsOf(r, tool) \subseteq RiskLevels
      BY DEF LevelsOf, RoutedBy, Loads
    <2>2. /\ ClassOf(r, tool) \in LevelsOf(r, tool)
          /\ \A k \in LevelsOf(r, tool) : RiskRank(k) <= RiskRank(ClassOf(r, tool))
      BY ClassIsStrictest
    <2>3. QED
      BY <2>1, <2>2, ApprovalIsUpwards
  <1>2. tool \in RoutedTools(r)
    BY DEF RoutedBy, RoutedTools
  <1>3. QED
    BY <1>1, <1>2 DEF Table

LEMMA TableType ==
    ASSUME NEW r, Loads(r), NEW tool \in DOMAIN Table(r).tools
    PROVE  Table(r).tools[tool] \in RiskLevels
  <1>1. tool \in RoutedTools(r) \cup DOMAIN UNROUTED
    BY DEF Table
  <1>2. Table(r).tools[tool] = ClassOf(r, tool)
    BY <1>1 DEF Table
  <1>3. CASE RoutedBy(r, tool) # {}
    <2>1. LevelsOf(r, tool) \subseteq RiskLevels
      BY DEF LevelsOf, RoutedBy, Loads
    <2>2. QED
      BY <1>2, <1>3, <2>1, ClassIsStrictest
  <1>4. CASE RoutedBy(r, tool) = {}
    <2>1. tool \notin RoutedTools(r)
      BY <1>4 DEF RoutedBy, RoutedTools
    <2>2. ClassOf(r, tool) = UNROUTED[tool]
      BY <1>4 DEF ClassOf
    <2>3. QED
      BY <1>1, <1>2, <2>1, <2>2, ToolsAssumption
  <1>5. QED
    BY <1>3, <1>4

-----------------------------------------------------------------------------
(* Type correctness                                                        *)

LEMMA InitType == Init => TypeOK
  <1> SUFFICES ASSUME Init PROVE TypeOK
    OBVIOUS
  <1>1. Loads(registry)
    BY DEF Init
  <1>2. live \subseteq Tools /\ inventory.documented \cup inventory.unverified \subseteq Tools
    BY ToolsAssumption DEF Init
  <1>3. classes.kind = "missing"
    BY DEF Init, File
  <1>4. QED
    BY <1>1, <1>2, <1>3 DEF Init, TypeOK

LEMMA MapType ==
    ASSUME TypeOK,
           \/ \E r \in Registries, i \in Inventories : EditMap(r, i)
           \/ \E l \in LiveTools : MetaChangesTools(l)
           \/ Compare \/ BuildTable
           \/ \E kind \in {"missing", "odd"} : DamageTable(kind)
    PROVE  TypeOK'
  <1>1. CASE \E r \in Registries, i \in Inventories : EditMap(r, i)
    BY <1>1, ToolsAssumption DEF EditMap, session, TypeOK
  <1>2. CASE \E l \in LiveTools : MetaChangesTools(l)
    BY <1>2, ToolsAssumption DEF MetaChangesTools, session, TypeOK
  <1>3. CASE Compare
    BY <1>3 DEF Compare, Clean, session, TypeOK
  <1>4. CASE BuildTable
    <2>1. \A t \in {Table(registry)} : \A tool \in DOMAIN t.tools : t.tools[tool] \in RiskLevels
      BY TableType DEF TypeOK
    <2>2. QED
      BY <1>4, <2>1 DEF BuildTable, File, session, TypeOK
  <1>5. CASE \E kind \in {"missing", "odd"} : DamageTable(kind)
    BY <1>5 DEF DamageTable, File, session, TypeOK
  <1>6. QED
    BY <1>1, <1>2, <1>3, <1>4, <1>5

LEMMA AnswerType ==
    ASSUME NEW c, NEW t, NEW m, NEW h
    PROVE  Answer(c, t, m, h) \in {"silent", "ask", "deny"}
  BY DEF Answer, Strict, Decide

LEMMA SessionType ==
    ASSUME TypeOK,
           \/ \E h \in Hosts, m \in Modes : StartSession(h, m)
           \/ \E c \in DOMAIN registry, mcp_available \in BOOLEAN : AskRoute(c, mcp_available)
           \/ \E c \in DOMAIN registry : AskFallback(c)
           \/ \E c \in Calls : CallTool(c)
           \/ RunHook \/ RunSilently \/ RunAsked \/ EndCall
    PROVE  TypeOK'
  <1>1. CASE \E h \in Hosts, m \in Modes : StartSession(h, m)
    BY <1>1 DEF StartSession, map, TypeOK
  <1>2. CASE \/ \E c \in DOMAIN registry, mcp_available \in BOOLEAN : AskRoute(c, mcp_available)
             \/ \E c \in DOMAIN registry : AskFallback(c)
    BY <1>2 DEF AskRoute, AskFallback, session, TypeOK
  <1>3. CASE \E c \in Calls : CallTool(c)
    BY <1>3 DEF CallTool, session, TypeOK
  <1>4. CASE RunHook
    <2>1. call # {}
      BY <1>4 DEF RunHook, TypeOK
    <2>2. answer' \in {"silent", "ask", "deny"}
      BY <1>4, AnswerType DEF RunHook
    <2>3. QED
      BY <1>4, <2>1, <2>2 DEF RunHook, map, session, TypeOK
  <1>5. CASE RunSilently \/ RunAsked \/ EndCall
    BY <1>5 DEF RunSilently, RunAsked, EndCall, Finish, map, session, TypeOK
  <1>6. QED
    BY <1>1, <1>2, <1>3, <1>4, <1>5

(* Every variable keeps its type; in particular every class in a table the *)
(* hook reads is one that the code knows.                                  *)
THEOREM TypeCorrect == Spec => []TypeOK
  <1>1. TypeOK /\ [Next]_vars => TypeOK'
    <2>1. TypeOK /\ Next => TypeOK'
      BY MapType, SessionType DEF Next
    <2>2. TypeOK /\ UNCHANGED vars => TypeOK'
      BY DEF TypeOK, vars
    <2>3. QED
      BY <2>1, <2>2
  <1>2. QED
    BY InitType, <1>1, PTL DEF Spec

-----------------------------------------------------------------------------
(* The call that runs                                                      *)

(* What the hook found for a call that ran with the hook on.               *)
Passed(d) ==
    d.hook =>
        /\ ~CreatesLive(d.call)
        /\ d.asked \/ (d.table.kind # "odd" /\ Decide(d.call, d.table.table) = "silent")

(* One call at a time; its answer is the hook's to the table and the       *)
(* session that are there, and so is that of the call that ran.            *)
GateInv ==
    /\ \A c, d \in call : c = d
    /\ \A c \in call : c \in Calls
    /\ answer \in {"waits", "silent", "ask", "deny"}
    /\ \A c \in call : answer = "waits" \/ answer = Answer(c, classes, mode, host)
    /\ \A d \in done : d.call \in Calls /\ Passed(d)

(* The states in which the file, the session and the call stay as they are.*)
LEMMA NothingPending ==
    ASSUME GateInv, call = {}, call' = {}, answer' = answer, done' = done \/ done' = {}
    PROVE  GateInv'
  BY DEF GateInv

LEMMA FinishKeepsGate ==
    ASSUME GateInv, NEW asked \in BOOLEAN, Finish(asked),
           \A c \in call : mode # "0" =>
               /\ ~CreatesLive(c)
               /\ asked \/ (classes.kind # "odd" /\ Decide(c, classes.table) = "silent")
    PROVE  GateInv'
  <1>1. ASSUME NEW d \in done'
        PROVE  d.call \in Calls /\ Passed(d)
    <2>1. PICK c \in call : d = [call |-> c, asked |-> asked, table |-> classes, hook |-> mode # "0"]
      BY DEF Finish
    <2>2. d.call = c /\ d.asked = asked /\ d.table = classes /\ d.hook = (mode # "0")
      BY <2>1
    <2>3. d.hook => mode # "0"
      BY <2>2
    <2>4. Passed(d)
      BY <2>2, <2>3 DEF Passed
    <2>5. QED
      BY <2>2, <2>4 DEF GateInv
  <1>2. QED
    BY <1>1 DEF Finish, GateInv

LEMMA GateStep ==
    ASSUME TypeOK, GateInv, Next
    PROVE  GateInv'
  <1>1. CASE \/ \E r \in Registries, i \in Inventories : EditMap(r, i)
             \/ Compare
    BY <1>1 DEF EditMap, Compare, session, GateInv
  <1>2. CASE \/ \E l \in LiveTools : MetaChangesTools(l)
             \/ BuildTable
             \/ \E kind \in {"missing", "odd"} : DamageTable(kind)
             \/ \E h \in Hosts, m \in Modes : StartSession(h, m)
             \/ \E c \in DOMAIN registry, mcp_available \in BOOLEAN : AskRoute(c, mcp_available)
             \/ \E c \in DOMAIN registry : AskFallback(c)
    BY <1>2, NothingPending
       DEF MetaChangesTools, BuildTable, DamageTable, StartSession, AskRoute, AskFallback
  <1>3. CASE \E c \in Calls : CallTool(c)
    BY <1>3 DEF CallTool, session, GateInv
  <1>4. CASE RunHook
    <2>1. answer' \in {"silent", "ask", "deny"}
      BY <1>4, AnswerType DEF RunHook
    <2>2. \A c \in call : answer' = Answer(c, classes, mode, host)
      <3>1. \A c \in call : c = (CHOOSE d \in call : TRUE)
        BY DEF GateInv
      <3>2. QED
        BY <1>4, <3>1 DEF RunHook
    <2>3. QED
      BY <1>4, <2>1, <2>2 DEF RunHook, map, session, GateInv
  <1>5. CASE RunSilently
    <2>1. ASSUME NEW c \in call, mode # "0"
          PROVE  ~CreatesLive(c) /\ classes.kind # "odd" /\ Decide(c, classes.table) = "silent"
      <3>1. Answer(c, classes, mode, host) = "silent"
        BY <1>5 DEF RunSilently, GateInv
      <3>2. ~(classes.kind = "odd" /\ ~CreatesLive(c))
        BY <2>1, <3>1 DEF Answer, Strict
      <3>3. Decide(c, classes.table) = "silent"
        BY <2>1, <3>1, <3>2 DEF Answer, Strict
      <3>4. ~CreatesLive(c)
        BY <3>3 DEF Decide
      <3>5. QED
        BY <3>2, <3>3, <3>4
    <2>2. QED
      BY <1>5, <2>1, FinishKeepsGate DEF RunSilently
  <1>6. CASE RunAsked
    <2>1. ASSUME NEW c \in call, mode # "0"
          PROVE  ~CreatesLive(c) /\ host = "claude"
      <3>1. Answer(c, classes, mode, host) = "ask"
        BY <1>6 DEF RunAsked, GateInv
      <3>2. ~CreatesLive(c)
        <4>1. SUFFICES ASSUME CreatesLive(c) PROVE FALSE
          OBVIOUS
        <4>2. Decide(c, classes.table) = "deny"
          BY <4>1 DEF Decide
        <4>3. Answer(c, classes, mode, host) = "deny"
          BY <2>1, <4>1, <4>2 DEF Answer, Strict
        <4>4. QED
          BY <3>1, <4>3
      <3>3. host # "codex"
        BY <2>1, <3>1 DEF Answer, Strict
      <3>4. QED
        BY <3>2, <3>3, HostsAssumption DEF TypeOK
    <2>2. QED
      BY <1>6, <2>1, FinishKeepsGate DEF RunAsked
  <1>7. CASE EndCall
    BY <1>7 DEF EndCall, map, session, GateInv
  <1>8. QED
    BY <1>1, <1>2, <1>3, <1>4, <1>5, <1>6, <1>7 DEF Next

(* The answer to a call is the hook's, in the state in which the call runs.*)
THEOREM GateInvariant == Spec => []GateInv
  <1>1. Init => GateInv
    BY DEF Init, GateInv
  <1>2. TypeOK /\ GateInv /\ [Next]_vars => GateInv'
    BY GateStep DEF vars, GateInv
  <1>3. QED
    BY <1>1, <1>2, TypeCorrect, PTL DEF Spec

(* No create that would start delivering gets through, whatever the table, *)
(* the host and the user's answer - if its status is where the hook looks. *)
THEOREM NoLiveCreate ==
    ASSUME ShallowCalls
    PROVE  Spec => []NothingLiveIsCreated
  <1>1. ASSUME GateInv, NEW d \in done, d.hook, d.call.tool \in DELIVERING_CREATES,
               NEW s \in d.call.statuses
        PROVE  Upper(s[1]) \in {"PAUSED", "not_text"}
    <2>1. s[2] <= MAX_DEPTH
      BY <1>1, ShallowCalls DEF GateInv, ShallowCalls
    <2>2. s[1] # "not_text" => s[1] \in StatusesOf(d.call)
      BY <2>1 DEF StatusesOf
    <2>3. ~CreatesLive(d.call)
      BY <1>1 DEF GateInv, Passed
    <2>4. s[1] # "not_text" => Upper(s[1]) = "PAUSED"
      BY <1>1, <2>2, <2>3 DEF CreatesLive
    <2>5. s[1] = "not_text" => Upper(s[1]) = "not_text"
      BY DEF Upper
    <2>6. QED
      BY <2>4, <2>5
  <1>2. GateInv => NothingLiveIsCreated
    BY <1>1 DEF NothingLiveIsCreated
  <1>3. QED
    BY <1>2, GateInvariant, PTL

LEMMA ApprovalFromGate == TypeOK /\ GateInv => ApprovedBeforeItActs
  <1> SUFFICES ASSUME TypeOK, GateInv, NEW d \in done
               PROVE  /\ CheckedBy(d) =>
                             \A c \in RoutedBy(registry, d.call.tool) :
                                 registry[c].risk \in APPROVAL_REQUIRED => d.asked
                      /\ d.hook /\ d.call.tool = "ads_boost_ig_post" /\ Truthy(d.call.confirmed) => d.asked
    BY DEF ApprovedBeforeItActs
  <1>1. Passed(d)
    BY DEF GateInv
  <1>2. ASSUME CheckedBy(d), NEW c \in RoutedBy(registry, d.call.tool),
               registry[c].risk \in APPROVAL_REQUIRED
        PROVE  d.asked
    <2>1. /\ d.call.tool \in DOMAIN Table(registry).tools
          /\ Table(registry).tools[d.call.tool] \in Table(registry).approval_required
      BY <1>2, TableAsks DEF TypeOK
    <2>2. d.hook /\ d.table.table = {Table(registry)}
      BY <1>2 DEF CheckedBy, File
    <2>3. ClassAsks(d.call, d.table.table)
      BY <2>1, <2>2 DEF ClassAsks
    <2>4. Decide(d.call, d.table.table) # "silent"
      BY <2>3 DEF Decide
    <2>5. QED
      BY <1>1, <2>2, <2>4 DEF Passed
  <1>3. ASSUME d.hook, d.call.tool = "ads_boost_ig_post", Truthy(d.call.confirmed)
        PROVE  d.asked
    BY <1>1, <1>3 DEF Passed, Decide, AlwaysAsks
  <1>4. QED
    BY <1>2, <1>3

LEMMA UnknownFromGate ==
    ASSUME HarmIsNamed
    PROVE  GateInv => UnknownHarmIsAsked
  <1> SUFFICES ASSUME GateInv, NEW d \in done, d.hook, d.call.tool \in Harms,
                      \A t \in d.table.table : d.call.tool \notin DOMAIN t.tools
               PROVE  d.asked
    BY DEF UnknownHarmIsAsked
  <1>1. Decide(d.call, d.table.table) # "silent"
    <2>1. ~\E t \in d.table.table : d.call.tool \in DOMAIN t.tools
      OBVIOUS
    <2>2. ~LooksLikeARead(d.call.tool)
      BY HarmIsNamed DEF HarmIsNamed
    <2>3. ClassAsks(d.call, d.table.table)
      BY <2>1, <2>2 DEF ClassAsks
    <2>4. QED
      BY <2>3 DEF Decide
  <1>2. QED
    BY <1>1 DEF GateInv, Passed

(* Nothing that a person must approve runs unasked: what a capability of   *)
(* the map uses with such a class, however mildly others use it, and what  *)
(* does harm under a name that does not look like a read.                  *)
THEOREM HarmIsAlwaysAsked ==
    ASSUME HarmIsNamed
    PROVE  Spec => []HarmIsAsked
  <1>1. TypeOK /\ GateInv => HarmIsAsked
    BY ApprovalFromGate, UnknownFromGate, HarmIsNamed DEF HarmIsAsked
  <1>2. QED
    BY <1>1, TypeCorrect, GateInvariant, PTL

-----------------------------------------------------------------------------
(* Routes                                                                  *)

(* A comparison that came out clean still holds.                           *)
RouteInv ==
    /\ compared => Clean(live, registry, inventory)
    /\ FallbackStaysInItsPlace

LEMMA RouteStep ==
    ASSUME RouteInv, Next
    PROVE  RouteInv'
  <1>1. (compared => Clean(live, registry, inventory))'
    BY DEF RouteInv, Next, EditMap, MetaChangesTools, Compare, BuildTable, DamageTable, StartSession,
           AskRoute, AskFallback, CallTool, RunHook, RunSilently, RunAsked, EndCall, Finish, map, session
  <1>2. FallbackStaysInItsPlace'
    <2>1. CASE \E c \in DOMAIN registry, mcp_available \in BOOLEAN : AskRoute(c, mcp_available)
      BY <2>1 DEF AskRoute, FallbackStaysInItsPlace, Routable, Route, IsGap, Problems
    <2>2. CASE \E c \in DOMAIN registry : AskFallback(c)
      <3>1. PICK c \in DOMAIN registry : AskFallback(c)
        BY <2>2
      <3>2. Problems(registry) = {} => registry[c].cli
        <4>1. CASE IsGap(registry[c])
          BY <4>1 DEF IsGap, Problems
        <4>2. CASE HasDeprecatedFallback(registry[c])
          BY <4>2 DEF HasDeprecatedFallback
        <4>3. QED
          BY <3>1, <4>1, <4>2 DEF AskFallback, FallbackRoutable
      <3>3. FallbackRoute(registry[c]).cli = registry[c].cli
        BY DEF FallbackRoute
      <3>4. ASSUME NEW r \in routed'
            PROVE  r.by = "api" /\ (r.valid => r.route.cli)
        <4>1. /\ r.by = "api" /\ r.route = FallbackRoute(registry[c])
              /\ r.valid = (Problems(registry) = {})
          BY <3>1 DEF AskFallback
        <4>2. QED
          BY <3>2, <3>3, <4>1
      <3>5. QED
        BY <3>4 DEF FallbackStaysInItsPlace
    <2>3. CASE routed' = routed \/ routed' = {}
      BY <2>3 DEF RouteInv, FallbackStaysInItsPlace
    <2>4. QED
      BY <2>1, <2>2, <2>3
         DEF Next, EditMap, MetaChangesTools, Compare, BuildTable, DamageTable, StartSession,
             CallTool, RunHook, RunSilently, RunAsked, EndCall, Finish, map
  <1>3. QED
    BY <1>1, <1>2 DEF RouteInv

(* A skill is sent to a layer that is there; a table from a map that was   *)
(* compared clean knows every tool of the session.                         *)
THEOREM RoutesStayKnown == Spec => []RoutesAreKnown
  <1>1. Init => RouteInv
    BY DEF Init, RouteInv, FallbackStaysInItsPlace
  <1>2. RouteInv /\ [Next]_vars => RouteInv'
    BY RouteStep DEF vars, RouteInv, FallbackStaysInItsPlace
  <1>3. RouteInv => RoutesAreKnown
    BY DEF RouteInv, RoutesAreKnown, CleanMapCoversSession, Clean, New, CanBuildTable, File, Table
  <1>4. QED
    BY <1>1, <1>2, <1>3, PTL DEF Spec
=============================================================================
