--------------------------- MODULE DisabledTools ---------------------------
(***************************************************************************)
(* Which tools are switched off: the governance state                      *)
(* (mcp/core/governance/governance-state-manager.ts), one row that is read *)
(* and written as a whole; the copy of its list of disabled tools in every *)
(* server instance (disabled-tools-cache.ts), which calls are checked      *)
(* against; and the edits of the row, by tools and by event automation     *)
(* (governance-event-automation.ts), which switches a tool off when it is  *)
(* reported to fail too often (GovernedTool.tla says when that is), unless *)
(* the settings in the same row spare the tool.                            *)
(*                                                                         *)
(* A load and a save are each one query under an advisory lock, but the    *)
(* lock is not held from one to the other, so an edit is a load and, some  *)
(* steps later, a save of the whole row.  A save notifies every instance;  *)
(* a notification, a timer and a check with an old cache start a refresh,  *)
(* unless one is under way.                                                *)
(***************************************************************************)
EXTENDS Naturals

CONSTANTS Instances,   \* server processes on one database
          Tools,       \* the tools that edits are about, none of them protected
                       \* by default
          Editors,     \* the calls that edit the row or fail, each once
          Home,        \* Home[e]: the instance that editor e runs in
          MaxQueryFaults  \* bound: queries that fail, notifications that are lost

ASSUME DisabledAssumption ==
    /\ Home \in [Editors -> Instances]
    /\ MaxQueryFaults \in Nat

VARIABLES stored,      \* the row: its disabled tools and its settings
          cache,       \* cache[i]: the list as instance i knows it
          refreshing,  \* refreshing[i]: the refresh that startRefresh began
          notified,    \* the instances with a notification not handled yet
          edit,        \* edit[e]: how far edit e is
          queryFaults  \* queries failed and notifications lost so far

cacheVars == <<cache, refreshing, notified>>
toolsVars == <<stored, cacheVars, edit, queryFaults>>

\* spared: the tools automation leaves alone, the protected ones or, while
\* automation.enabled or autoDisableTool is off, all of them.
Rows == [disabled : SUBSET Tools, spared : SUBSET Tools]

NoRow == [disabled |-> {}, spared |-> {}]

\* Who edits. Automation looks whether the tool is spared or disabled
\* already, then loads the row again. "apply" (apply_resource_actions) loads it
\* once, and so do the others: update_resource_lifecycle, the settings
\* (update_event_automation_config), and what leaves both as they were (usage
\* and bug counts, shutdown).
Edits ==
    [by : {"automation"}, tool : Tools] \cup [by : {"apply", "others"}]

NoEdit == [by |-> "nobody"]

Steps == {"none", "look", "load", "save", "refresh", "set", "done"}

Refreshes == [step : {"none", "load", "set"}, seen : SUBSET Tools]

EditStates == [of : Edits \cup {NoEdit}, step : Steps, seen : Rows]

\* What an edit of the list makes of the row it loaded, and one of the
\* settings.
ListEdited(row) == {[row EXCEPT !.disabled = list] : list \in SUBSET Tools}

SettingsEdited(row) == {[row EXCEPT !.spared = tools] : tools \in SUBSET Tools}

Edited(by, row) ==
    IF by = "apply" THEN ListEdited(row)
    ELSE ListEdited(row) \cup SettingsEdited(row)

\* Every instance has loaded the list at start-up.
ToolsInit ==
    /\ stored \in Rows
    /\ cache = [i \in Instances |-> stored.disabled]
    /\ refreshing = [i \in Instances |-> [step |-> "none", seen |-> {}]]
    /\ notified = {}
    /\ edit = [e \in Editors |-> [of |-> NoEdit, step |-> "none", seen |-> NoRow]]
    /\ queryFaults = 0

QueryFault ==
    /\ queryFaults < MaxQueryFaults
    /\ queryFaults' = queryFaults + 1

-----------------------------------------------------------------------------
(* The cache.                                                              *)

\* startRefresh: a refresh under way is left alone, and the request is gone.
StartRefresh(i) ==
    IF refreshing[i].step = "none"
    THEN refreshing' = [refreshing EXCEPT ![i].step = "load"]
    ELSE UNCHANGED refreshing

\* LISTEN governance_state_updated.
HandleNotification(i) ==
    /\ i \in notified
    /\ notified' = notified \ {i}
    /\ StartRefresh(i)
    /\ UNCHANGED <<stored, cache, edit, queryFaults>>

\* The interval timer, or maybeRefresh of a check that finds an old cache.
Tick(i) ==
    /\ refreshing[i].step = "none"
    /\ StartRefresh(i)
    /\ UNCHANGED <<stored, cache, notified, edit, queryFaults>>

\* The database answers; when it does not the new cache is empty.
RefreshLoad(i) ==
    /\ refreshing[i].step = "load"
    /\ \/ /\ refreshing' = [refreshing EXCEPT ![i] = [step |-> "set", seen |-> stored.disabled]]
          /\ UNCHANGED queryFaults
       \/ /\ QueryFault
          /\ refreshing' = [refreshing EXCEPT ![i] = [step |-> "set", seen |-> {}]]
    /\ UNCHANGED <<stored, cache, notified, edit>>

\* Faulty variant: refreshInFlight is not reset.
RefreshSetKeepsFlight(i) ==
    /\ refreshing[i].step = "set"
    /\ cache' = [cache EXCEPT ![i] = refreshing[i].seen]
    /\ UNCHANGED <<stored, refreshing, notified, edit, queryFaults>>

RefreshSet(i) ==
    /\ refreshing[i].step = "set"
    /\ cache' = [cache EXCEPT ![i] = refreshing[i].seen]
    /\ refreshing' = [refreshing EXCEPT ![i] = [step |-> "none", seen |-> {}]]
    /\ UNCHANGED <<stored, notified, edit, queryFaults>>

-----------------------------------------------------------------------------
(* The edits.                                                              *)

Advance(e, step, seen) ==
    edit' = [edit EXCEPT ![e].step = step, ![e].seen = seen]

Finish(e) ==
    edit' = [edit EXCEPT ![e] = [of |-> NoEdit, step |-> "done", seen |-> NoRow]]

\* A tool that edits the row is called and loads it; when the load throws the
\* call is over.
BeginEdit(e, by) ==
    /\ edit[e].step = "none"
    /\ \/ /\ \E row \in Edited(by, stored) :
                edit' = [edit EXCEPT ![e] =
                            [of |-> [by |-> by], step |-> "save", seen |-> row]]
          /\ UNCHANGED queryFaults
       \/ Finish(e) /\ QueryFault
    /\ UNCHANGED <<stored, cacheVars>>

\* registerToolFailure reports error_aggregate_detected for tool t, and
\* applyEventAutomation takes the report up.
ReportFailures(e, t) ==
    /\ edit[e].step = "none"
    /\ edit' = [edit EXCEPT ![e] =
          [of |-> [by |-> "automation", tool |-> t],
           step |-> "look", seen |-> NoRow]]
    /\ UNCHANGED <<stored, cacheVars, queryFaults>>

\* Faulty variant: whether the tool is disabled is looked up in the cache.
LookUpInCache(e) ==
    /\ edit[e].step = "look"
    /\ IF edit[e].of.tool \in stored.spared \cup cache[Home[e]]
       THEN Finish(e) ELSE Advance(e, "load", NoRow)
    /\ UNCHANGED <<stored, cacheVars, queryFaults>>

\* applyEventAutomation: the first load, and the settings it brings.
LookUp(e) ==
    /\ edit[e].step = "look"
    /\ IF edit[e].of.tool \in stored.spared \cup stored.disabled
       THEN Finish(e) ELSE Advance(e, "load", NoRow)
    /\ UNCHANGED <<stored, cacheVars, queryFaults>>

\* Faulty variant: automation that finds nothing to change does not finish.
LoadRowUnfinished(e) ==
    /\ edit[e].step = "load"
    /\ IF edit[e].of.tool \in stored.disabled
       THEN Advance(e, "done", NoRow)
       ELSE Advance(e, "save",
                    [stored EXCEPT !.disabled = @ \cup {edit[e].of.tool}])
    /\ UNCHANGED <<stored, cacheVars, queryFaults>>

\* setToolDisabledState loads the row again and saves only a change; it does
\* not look at the settings.
LoadRow(e) ==
    /\ edit[e].step = "load"
    /\ IF edit[e].of.tool \in stored.disabled
       THEN Finish(e)
       ELSE Advance(e, "save",
                    [stored EXCEPT !.disabled = @ \cup {edit[e].of.tool}])
    /\ UNCHANGED <<stored, cacheVars, queryFaults>>

\* saveGovernanceState: the row as the edit loaded and changed it, then
\* pg_notify, whose failure is swallowed.
SaveRow(e) ==
    /\ edit[e].step = "save"
    /\ stored' = edit[e].seen
    /\ \/ notified' = Instances /\ UNCHANGED queryFaults
       \/ QueryFault /\ UNCHANGED notified
    /\ IF edit[e].of.by \in {"automation", "apply"}
       THEN Advance(e, "refresh", NoRow) ELSE Finish(e)
    /\ UNCHANGED <<cache, refreshing>>

\* refresh of the instance the edit ran in, beside startRefresh: of the row
\* only the list is used.
EditorLoads(e) ==
    /\ edit[e].step = "refresh"
    /\ \/ Advance(e, "set", [NoRow EXCEPT !.disabled = stored.disabled])
          /\ UNCHANGED queryFaults
       \/ QueryFault /\ Advance(e, "set", NoRow)
    /\ UNCHANGED <<stored, cacheVars>>

EditorSets(e) ==
    /\ edit[e].step = "set"
    /\ cache' = [cache EXCEPT ![Home[e]] = edit[e].seen.disabled]
    /\ Finish(e)
    /\ UNCHANGED <<stored, refreshing, notified, queryFaults>>

\* A load or a save throws, the save perhaps after it was done: the edit ends
\* there (automation swallows the error, a tool reports it).
EditFails(e) ==
    /\ edit[e].step \in {"look", "load", "save"}
    /\ QueryFault
    /\ Finish(e)
    /\ \/ UNCHANGED stored
       \/ edit[e].step = "save" /\ stored' = edit[e].seen
    /\ UNCHANGED cacheVars

-----------------------------------------------------------------------------
CacheStep(i) == RefreshLoad(i) \/ RefreshSet(i)

EditStep(e) ==
    \/ LookUp(e) \/ LoadRow(e) \/ SaveRow(e)
    \/ EditorLoads(e) \/ EditorSets(e)

ToolsNext ==
    \/ \E i \in Instances : HandleNotification(i) \/ Tick(i) \/ CacheStep(i)
    \/ \E e \in Editors :
          \/ EditStep(e) \/ EditFails(e)
          \/ \E by \in {"apply", "others"} : BeginEdit(e, by)
          \/ \E t \in Tools : ReportFailures(e, t)

\* Queries are answered, the interval timer fires again and again.
ToolsFairness ==
    /\ \A i \in Instances : WF_toolsVars(Tick(i)) /\ WF_toolsVars(CacheStep(i))
    /\ \A e \in Editors : WF_toolsVars(EditStep(e))

ToolsSpec == ToolsInit /\ [][ToolsNext]_toolsVars /\ ToolsFairness

-----------------------------------------------------------------------------
(* Properties.                                                             *)

\* The types, and: a finished edit is forgotten, only automation looks before
\* it loads the row to change, and only automation and
\* apply_resource_actions refresh.
ToolsTypeOK ==
    /\ stored \in Rows
    /\ cache \in [Instances -> SUBSET Tools]
    /\ refreshing \in [Instances -> Refreshes]
    /\ notified \in SUBSET Instances
    /\ edit \in [Editors -> EditStates]
    /\ \A e \in Editors :
          /\ edit[e].step \in {"none", "done"} <=> edit[e].of = NoEdit
          /\ edit[e].step \in {"look", "load"} => edit[e].of.by = "automation"
          /\ edit[e].step \in {"refresh", "set"} =>
                edit[e].of.by \in {"automation", "apply"}
    /\ queryFaults \in 0..MaxQueryFaults

\* disabled-tools-cache.ts: when the edits are over every instance comes to
\* know the list as it is stored, and keeps it, although notifications get
\* lost or meet a refresh that has loaded already, and a failed load empties
\* the cache.
CacheSettles == <>[](\A i \in Instances : cache[i] = stored.disabled)

\* applyEventAutomation: a report of too many failures switches the tool off
\* in the row, whatever other edits write the row back in between.  It fails
\* to only when a query fails or the settings spare the tool: it is protected,
\* or automation or its rule is off, then or by a change that comes in the
\* meantime.  That a later save of a row loaded before switches the tool on
\* again is not excluded.
ReportsLand ==
    \A e \in Editors, t \in Tools :
        edit[e].step = "look" /\ edit[e].of.tool = t ~>
            t \in stored.disabled \cup stored.spared \/ queryFaults = MaxQueryFaults
=============================================================================
