---------------------------- MODULE GatewaySync ----------------------------
(***************************************************************************)
(* The change detection of gateway.Service. A poll asks a tracker which    *)
(* files changed, first the resources routers depend on, then the router   *)
(* rules; loads what changed in a goroutine per file, whose answers come   *)
(* back over a channel; and publishes the new set of routers as a whole.   *)
(* A session remembers what a failed poll left undone.                     *)
(***************************************************************************)
EXTENDS Integers, FiniteSets

CONSTANTS
  Route,       \* URLs of router rules
  Resource,    \* URLs of the resources below DependencyURL
  Initial,     \* files there when the service starts
  Editable,    \* files that may be written (a rule: its YAML)
  SqlEditable, \* rules whose SQL file may be written
  Removable,   \* files that may be removed
  Kinds,       \* what a written file may be like
  MaxVersion,  \* bound: writes of a file
  MaxSql,      \* bound: writes of the SQL file of a rule
  MaxFaults    \* bound: failures of the file listing

File == Route \cup Resource

\* A file can be loaded and initialised, not be loaded, or be loaded while
\* its initialisation fails.
Kind == {"good", "unreadable", "uninitialised", "absent"}

Content == [version : Nat, sql : Nat, kind : Kind]
NoFile == [version |-> 0, sql |-> 0, kind |-> "absent"]

Router == [rule : Content, ready : BOOLEAN]
NoRouter == [rule |-> NoFile, ready |-> FALSE]

ASSUME FilesAssumption ==
  /\ IsFiniteSet(File) /\ Route \cap Resource = {}
  /\ Initial \subseteq File /\ Editable \subseteq File /\ Removable \subseteq File
  /\ SqlEditable \subseteq Route
  /\ Kinds \subseteq Kind \ {"absent"} /\ "good" \in Kinds
  /\ MaxVersion \in Nat /\ MaxSql \in Nat /\ MaxFaults \in Nat

VARIABLES
  file,          \* the file system
  seen,          \* what the trackers last reported of each file
  overlooked,    \* history: rules with a change of their SQL that was lost on the way (see NotifyRoutes)
  stored,        \* rule -> version its .meta file was written for
  metaFresh,     \* rules whose .meta file was written and not reported yet
  faults,        \* failures of the file listing so far
  phase,         \* where the change detection is
  started,       \* New has returned
  cancelled,     \* Close was called
  updatedRes, updatedRoutes, deletedRoutes, cached, \* the session
  resources, live,   \* dataResourcesIndex, routersIndex (and mainRouter)
  result, routers,   \* the maps a poll builds to replace them
  changed,       \* viewResourcesChanged
  loading,       \* files whose goroutine has not answered
  failed         \* a goroutine of the poll answered with an error

session == <<updatedRes, updatedRoutes, deletedRoutes, cached>>
disk == <<file, stored, metaFresh>>
published == <<resources, live>>
vars == <<disk, seen, overlooked, faults, phase, started, cancelled, session, published,
          result, routers, changed, loading, failed>>

Phases == {"resources", "loadResources", "routes", "loadRoutes", "hung", "sleep",
           "stopped"}

TypeOK ==
  /\ file \in [File -> Content] /\ seen \in [File -> Content]
  /\ stored \in [Route -> Nat] /\ metaFresh \subseteq Route /\ overlooked \subseteq Route
  /\ faults \in 0..MaxFaults /\ phase \in Phases
  /\ started \in BOOLEAN /\ cancelled \in BOOLEAN
  /\ updatedRes \subseteq Resource /\ updatedRoutes \subseteq Route
  /\ deletedRoutes \subseteq Route /\ cached \in [Route -> Router]
  /\ resources \in [Resource -> Content] /\ result \in [Resource -> Content]
  /\ live \in [Route -> Router] /\ routers \in [Route -> Router]
  /\ changed \in BOOLEAN /\ failed \in BOOLEAN /\ loading \subseteq File

Present(content) == content.kind # "absent"

\* What Tracker.Notify reports: the files that differ from its last report.
Updated(files) ==
  {f \in files : Present(file[f]) /\ file[f].version # seen[f].version}
Removed(files) == {f \in files : Present(seen[f]) /\ ~Present(file[f])}
Report(files) == [f \in File |-> IF f \in files THEN file[f] ELSE seen[f]]

NothingCached == [r \in Route |-> NoRouter]

Init ==
  /\ file \in [File -> {NoFile} \cup [version : {1}, sql : {0}, kind : Kinds]]
  /\ \A f \in File : Present(file[f]) <=> f \in Initial
  /\ seen = [f \in File |-> NoFile]
  /\ stored = [r \in Route |-> 0] /\ metaFresh = {} /\ overlooked = {}
  /\ faults = 0 /\ phase = "resources"
  /\ started = FALSE /\ cancelled = FALSE
  /\ updatedRes = {} /\ updatedRoutes = {} /\ deletedRoutes = {}
  /\ cached = NothingCached
  /\ resources = [d \in Resource |-> NoFile] /\ result = resources
  /\ live = NothingCached /\ routers = NothingCached
  /\ changed = FALSE /\ loading = {} /\ failed = FALSE

-----------------------------------------------------------------------------
(* The environment: people and deployments write files, operators close.   *)

Write(f) ==
  /\ f \in Editable /\ file[f].version < MaxVersion
  /\ \E kind \in Kinds :
       file' = [file EXCEPT ![f] =
                  [version |-> @.version + 1, sql |-> @.sql, kind |-> kind]]
  /\ UNCHANGED <<seen, overlooked, stored, metaFresh, faults, phase, started, cancelled, session,
                 published, result, routers, changed, loading, failed>>

\* The SQL file of a rule is written at any time, even when the rule is gone. It decides
\* whether a rule that can be read can be initialised.
WriteSql(r) ==
  /\ r \in SqlEditable /\ file[r].sql < MaxSql
  /\ \E kind \in Kind :
       /\ IF file[r].kind \in {"good", "uninitialised"}
          THEN kind \in Kinds \ {"unreadable"}
          ELSE kind = file[r].kind
       /\ file' = [file EXCEPT ![r].sql = @ + 1, ![r].kind = kind]
  /\ UNCHANGED <<seen, overlooked, stored, metaFresh, faults, phase, started, cancelled, session,
                 published, result, routers, changed, loading, failed>>

Remove(f) ==
  /\ f \in Removable /\ Present(file[f])
  /\ file' = [file EXCEPT ![f].kind = "absent"]
  /\ UNCHANGED <<seen, overlooked, stored, metaFresh, faults, phase, started, cancelled, session,
                 published, result, routers, changed, loading, failed>>

Close ==
  /\ started /\ ~cancelled
  /\ cancelled' = TRUE
  /\ UNCHANGED <<disk, seen, overlooked, faults, phase, started, session, published, result,
                 routers, changed, loading, failed>>

-----------------------------------------------------------------------------
(* A poll: createRouterIfNeeded. UpdateFailureCounter, deferred, iterates  *)
(* Session.FailureCounter, to which no code ever adds a key.               *)

\* createRouterIfNeeded returns: New returns, or the loop sleeps again.
PollEnds == phase' = "sleep" /\ started' = TRUE

NotifyFails ==
  /\ phase \in {"resources", "routes"} /\ faults < MaxFaults
  /\ faults' = faults + 1
  /\ PollEnds
  /\ UNCHANGED <<disk, seen, overlooked, cancelled, session, published, result, routers, changed,
                 loading, failed>>

\* Removed resources leave the session (OnFileChange) and stay in the index:
\* nothing calls OnDependencyDeleted.
NotifyResources ==
  LET pending == (updatedRes \cup Updated(Resource)) \ Removed(Resource) IN
  /\ phase = "resources"
  /\ seen' = Report(Resource)
  /\ updatedRes' = pending
  /\ result' = [d \in Resource |-> IF d \in pending THEN NoFile ELSE resources[d]]
  /\ changed' = (pending # {})
  /\ loading' = pending /\ failed' = FALSE
  /\ phase' = IF pending = {} THEN "routes" ELSE "loadResources"
  /\ UNCHANGED <<disk, overlooked, faults, started, cancelled, updatedRoutes, deletedRoutes, cached,
                 published, routers>>

LoadResource(d) ==
  /\ phase = "loadResources" /\ d \in loading \cap Resource
  /\ loading' = loading \ {d}
  /\ \/ /\ file[d].kind \in {"good", "uninitialised"}
        /\ result' = [result EXCEPT ![d] = file[d]]
        /\ UNCHANGED failed
     \/ /\ file[d].kind \in {"unreadable", "absent"}
        /\ failed' = TRUE
        /\ UNCHANGED result
  /\ UNCHANGED <<disk, seen, overlooked, faults, phase, started, cancelled, session, published,
                 routers, changed>>

ResourcesLoaded ==
  /\ phase = "loadResources" /\ loading = {}
  /\ IF failed THEN PollEnds ELSE phase' = "routes" /\ UNCHANGED started
  /\ UNCHANGED <<disk, seen, overlooked, faults, cancelled, session, published, result, routers,
                 changed, loading, failed>>

\* A SQL file is attributed to the published routers that use it.
SqlUpdated == {r \in Route : live[r] # NoRouter /\ file[r].sql # seen[r].sql}

\* A change of SQL is attributed to nobody when its rule waits in the session, loaded
\* before the change and not published.
SqlOverlooked ==
  {r \in Route : live[r] = NoRouter /\ cached[r] # NoRouter /\ cached[r].rule.sql < file[r].sql}

\* shouldUpdateRouter answers, for each .meta file reported, with any published
\* router that is not in the session.
MetaUpdated(pending, deleted, picked) ==
  LET candidates == {r \in Route : live[r] # NoRouter} \ (pending \cup deleted) IN
  /\ picked \subseteq candidates
  /\ Cardinality(picked) <= Cardinality(metaFresh)
  /\ picked = {} => candidates = {} \/ metaFresh = {}

\* OnRouterUpdated and OnRouterDeleted drop everything a session holds of a
\* router (removeEach) before they note the change.
\* A faulty variant: a router loaded before the change stays in the session.
KeepCached(routes) == cached

DropCached(routes) == [r \in Route |-> IF r \in routes THEN NoRouter ELSE cached[r]]

\* The channel of getRouters is closed by its reader once it received
\* len(updatedMap) answers: without any it waits for ever. A change of the SQL of a rule
\* that was removed and is still published makes the session load it again, and forget
\* that it was removed.
NotifyRoutes ==
  /\ phase = "routes"
  /\ LET reported == Updated(Route) \cup SqlUpdated
         removed == Removed(Route)
         pending == (updatedRoutes \cup reported) \ removed
         deleted == (deletedRoutes \ reported) \cup removed
     IN \E picked \in SUBSET Route :
          /\ MetaUpdated(pending, deleted, picked)
          /\ updatedRoutes' = pending \cup picked
          /\ deletedRoutes' = deleted
          /\ cached' = DropCached(reported \cup removed \cup picked)
          /\ overlooked' = {r \in SqlUpdated \cup picked : ~Present(file[r]) /\ ~Present(seen[r])}
                            \cup ((overlooked \cup SqlOverlooked) \ (reported \cup removed \cup picked))
  /\ seen' = Report(Route) /\ metaFresh' = {}
  /\ loading' = updatedRoutes' /\ failed' = FALSE
  /\ routers' = [r \in Route |->
                   IF r \in updatedRoutes' \cup deletedRoutes' THEN NoRouter ELSE live[r]]
  /\ \/ /\ ~changed /\ updatedRoutes' = {} /\ deletedRoutes' = {}
        /\ PollEnds
     \/ /\ changed \/ deletedRoutes' # {}
        /\ updatedRoutes' = {}
        /\ phase' = "hung" /\ UNCHANGED started
     \/ /\ updatedRoutes' # {}
        /\ phase' = "loadRoutes" /\ UNCHANGED started
  /\ UNCHANGED <<file, stored, faults, cancelled, updatedRes, published, result, changed>>

\* loadRouterResource: a router in the session is taken as it is.
LoadCached(r) ==
  /\ cached[r] # NoRouter
  /\ routers' = [routers EXCEPT ![r] = cached[r]]
  /\ UNCHANGED <<failed, cached, stored, metaFresh>>

\* AddRouter comes before Init. Init writes the .meta file of a newer rule.
LoadNew(r) ==
  /\ cached[r] = NoRouter /\ file[r].kind \in {"good", "uninitialised"}
  /\ LET ready == file[r].kind = "good"
         loaded == [rule |-> file[r], ready |-> ready]
     IN /\ cached' = [cached EXCEPT ![r] = loaded]
        /\ IF ready
           THEN /\ routers' = [routers EXCEPT ![r] = loaded]
                /\ stored' = [stored EXCEPT ![r] = file[r].version]
                /\ metaFresh' = IF stored[r] = file[r].version THEN metaFresh
                                ELSE metaFresh \cup {r}
                /\ UNCHANGED failed
           ELSE failed' = TRUE /\ UNCHANGED <<routers, stored, metaFresh>>

LoadFails(r) ==
  /\ cached[r] = NoRouter /\ file[r].kind \in {"unreadable", "absent"}
  /\ failed' = TRUE
  /\ UNCHANGED <<routers, cached, stored, metaFresh>>

LoadRoute(r) ==
  /\ phase = "loadRoutes" /\ r \in loading \cap Route
  /\ loading' = loading \ {r}
  /\ LoadCached(r) \/ LoadNew(r) \/ LoadFails(r)
  /\ UNCHANGED <<file, seen, overlooked, faults, phase, started, cancelled, updatedRes,
                 updatedRoutes, deletedRoutes, published, result, changed>>

ForgetSession ==
  /\ updatedRes' = {} /\ updatedRoutes' = {} /\ deletedRoutes' = {}
  /\ cached' = NothingCached

\* A faulty variant: a new session for every poll.
RoutesFailedForget ==
  /\ phase = "loadRoutes" /\ loading = {} /\ failed
  /\ PollEnds /\ ForgetSession
  /\ UNCHANGED <<disk, seen, overlooked, faults, cancelled, published, result, routers, changed,
                 loading, failed>>

\* A faulty variant: the routers that could be loaded are published.
RoutesFailedPartly ==
  /\ phase = "loadRoutes" /\ loading = {} /\ failed
  /\ PollEnds /\ live' = routers
  /\ UNCHANGED <<disk, seen, overlooked, faults, cancelled, session, resources, result, routers, changed,
                 loading, failed>>

RoutesFailed ==
  /\ phase = "loadRoutes" /\ loading = {} /\ failed
  /\ PollEnds
  /\ UNCHANGED <<disk, seen, overlooked, faults, cancelled, session, published, result, routers,
                 changed, loading, failed>>

Publish ==
  /\ phase = "loadRoutes" /\ loading = {} /\ ~failed
  /\ live' = routers /\ resources' = result
  /\ ForgetSession
  /\ PollEnds
  /\ UNCHANGED <<disk, seen, overlooked, faults, cancelled, result, routers, changed, loading, failed>>

Wake ==
  /\ phase = "sleep"
  /\ phase' = IF cancelled THEN "stopped" ELSE "resources"
  /\ UNCHANGED <<disk, seen, overlooked, faults, started, cancelled, session, published, result,
                 routers, changed, loading, failed>>

Poll ==
  \/ NotifyResources \/ ResourcesLoaded \/ NotifyRoutes \/ RoutesFailed \/ Publish \/ Wake
  \/ \E d \in Resource : LoadResource(d)
  \/ \E r \in Route : LoadRoute(r)

Environment ==
  \/ \E f \in File : Write(f) \/ Remove(f)
  \/ \E r \in Route : WriteSql(r)
  \/ Close \/ NotifyFails

Next == Poll \/ Environment

\* The goroutine of detectChanges and those it starts run when they can; a
\* listing of files that fails does so at most MaxFaults times.
Spec == Init /\ [][Next]_vars /\ WF_vars(Poll)

-----------------------------------------------------------------------------
\* A content is at least as new as another.
Covers(content, other) == content.version >= other.version /\ content.sql >= other.sql

\* A rule or router has what the trackers reported of a rule, but for changes that were lost.
Has(r, content) ==
  /\ Present(seen[r]) => content.version >= seen[r].version
  /\ r \notin overlooked => content.sql >= seen[r].sql

\* A change reported once is never reported again: until a set of routers is
\* published that has it, the session keeps it (createRouterIfNeeded leaves the
\* session on every error, and sets it to nil only when it publishes).
\* The exception are changes of SQL files, which are attributed to published routers: one is lost
\* when its rule waits in the session, and one of a rule that was removed revokes that.
NothingLost ==
  /\ \A r \in Route : \/ r \in updatedRoutes \cup deletedRoutes
                      \/ (Present(seen[r]) \/ r \in overlooked) /\ Has(r, live[r].rule)
                      \/ ~Present(seen[r]) /\ live[r] = NoRouter
  /\ \A d \in Resource : \/ d \in updatedRes
                         \/ Present(seen[d]) => Covers(resources[d], seen[d])

\* The types are kept and no change is lost.
SyncSound == TypeOK /\ NothingLost

\* What is served goes forward: routers are replaced by ones of the same rule or a later one, and
\* taken away when the trackers have seen the rule removed; resources never become older
\* (createRouterIfNeeded publishes what was complete only, getDataResources and getRouters
\* begin with what is published).
ServedForward ==
  [][/\ \A r \in Route : live[r] # NoRouter =>
          \/ live'[r] # NoRouter /\ Covers(live'[r].rule, live[r].rule)
          \/ live'[r] = NoRouter /\ ~Present(seen[r])
     /\ \A d \in Resource : Covers(resources'[d], resources[d])]_vars

\* Once the files are left alone and can be used, what is served is what they
\* say, whatever failed before, but for SQL that was overlooked: the polls of
\* detectChanges get there, unless one hangs (see NotifyRoutes and CloseStops).
Current(r) ==
  \/ live[r] = [rule |-> file[r], ready |-> TRUE]
  \/ r \in overlooked /\ live[r].rule.version = file[r].version

Converges ==
  <>[](\/ cancelled \/ phase = "hung"
       \/ \E f \in File : file[f].kind # "good"
       \/ \A r \in Route : Current(r))

\* Close ends the change detection ("It is important to call Service.Close
\* before Service got Garbage collected", New).
CloseStops == cancelled ~> phase = "stopped"
=============================================================================
