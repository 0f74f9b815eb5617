------------------------- MODULE GatewaySyncProofs -------------------------
(***************************************************************************)
(* What is served goes forward, and no change is lost between the tracker  *)
(* that reports it once and the routers that are served, whatever fails in *)
(* between. Files, those of SQL included, are written and removed at any    *)
(* time; the changes of SQL that the service does lose are counted in      *)
(* overlooked.                                                             *)
(***************************************************************************)
EXTENDS GatewaySync, TLAPS

-----------------------------------------------------------------------------
(* Types.                                                                  *)

\* The state of the gateway's change detection keeps its types.
LEMMA InitTyped == Init => TypeOK
<1> SUFFICES ASSUME Init PROVE TypeOK
  OBVIOUS
<1>1. file \in [File -> Content]
  <2>1. ASSUME NEW c \in [version : {1}, sql : {0}, kind : Kinds] PROVE c \in Content
    <3>1. c.version = 1 /\ c.sql = 0 /\ c.kind \in Kind
      BY FilesAssumption
    <3> QED
      BY <3>1 DEF Content
  <2>2. NoFile \in Content
    BY DEF NoFile, Content, Kind
  <2> QED
    BY <2>1, <2>2 DEF Init
<1>2. NoFile \in Content /\ NoRouter \in Router
  BY DEF NoFile, NoRouter, Content, Router, Kind
<1>3. Route \subseteq File /\ Resource \subseteq File
  BY DEF File
<1>4. /\ seen \in [File -> Content] /\ resources \in [Resource -> Content]
      /\ result \in [Resource -> Content] /\ stored \in [Route -> Nat]
  BY <1>2 DEF Init
<1>5. cached \in [Route -> Router] /\ live \in [Route -> Router]
      /\ routers \in [Route -> Router]
  BY <1>2 DEF Init, NothingCached
<1>6. faults \in 0..MaxFaults /\ phase \in Phases
  BY FilesAssumption DEF Init, Phases
<1> QED
  BY <1>1, <1>4, <1>5, <1>6 DEF Init, TypeOK

\* A step of the service keeps the types of what it changes.
LEMMA StepTyped == TypeOK /\ [Next]_vars => TypeOK'
<1> SUFFICES ASSUME TypeOK, [Next]_vars PROVE TypeOK'
  OBVIOUS
<1> USE FilesAssumption
<1>0. NoFile \in Content /\ NoRouter \in Router
  BY DEF NoFile, NoRouter, Content, Router, Kind
<1>F. Route \subseteq File /\ Resource \subseteq File
  BY DEF File
<1>1. ASSUME NEW f \in File, Write(f) PROVE TypeOK'
  <2>1. PICK kind \in Kinds :
          file' = [file EXCEPT ![f] =
                     [version |-> @.version + 1, sql |-> @.sql, kind |-> kind]]
    BY <1>1 DEF Write
  <2>2. file[f].version \in Nat /\ file[f].sql \in Nat /\ kind \in Kind
    BY DEF TypeOK, Content
  <2>3. [version |-> file[f].version + 1, sql |-> file[f].sql, kind |-> kind] \in Content
    BY <2>2 DEF Content
  <2>4. file' \in [File -> Content]
    BY <2>1, <2>3 DEF TypeOK
  <2> QED
    BY <1>1, <2>4 DEF Write, TypeOK, session, published
<1>2. ASSUME NEW r \in Route, WriteSql(r) PROVE TypeOK'
  <2>1. PICK kind \in Kind :
          file' = [file EXCEPT ![r].sql = @ + 1, ![r].kind = kind]
    BY <1>2 DEF WriteSql
  <2>3. PICK mid : mid = [file EXCEPT ![r].sql = @ + 1]
    OBVIOUS
  <2>4. mid \in [File -> Content]
    <3>1. file \in [File -> Content]
      BY DEF TypeOK
    <3>2. [file[r] EXCEPT !.sql = @ + 1] \in Content
      BY <1>F, <3>1 DEF Content
    <3> QED BY <2>3, <3>1, <3>2
  <2>5. file' = [mid EXCEPT ![r].kind = kind]
    BY <2>1, <2>3
  <2>6. file' \in [File -> Content]
    BY <1>F, <2>1, <2>4, <2>5 DEF Content
  <2> QED
    BY <1>2, <2>6 DEF WriteSql, TypeOK, session, published
<1>3. ASSUME NEW f \in File, Remove(f) PROVE TypeOK'
  <2>1. file' \in [File -> Content]
    BY <1>3 DEF Remove, TypeOK, Content, Kind
  <2> QED
    BY <1>3, <2>1 DEF Remove, TypeOK, session, published
<1>4. CASE Close
  BY <1>4 DEF Close, TypeOK, disk, session, published
<1>5. CASE NotifyFails
  BY <1>5 DEF NotifyFails, PollEnds, Phases, TypeOK, disk, session, published
<1>6. CASE NotifyResources
  BY <1>6, <1>0, <1>F
  DEF NotifyResources, Phases, TypeOK, disk, published, Report, Updated, Removed
<1>7. ASSUME NEW d \in Resource, LoadResource(d) PROVE TypeOK'
  <2>1. result' \in [Resource -> Content]
    BY <1>7, <1>F DEF LoadResource, TypeOK
  <2> QED
    BY <1>7, <2>1 DEF LoadResource, TypeOK, disk, session, published
<1>8. CASE ResourcesLoaded
  BY <1>8 DEF ResourcesLoaded, PollEnds, Phases, TypeOK, disk, session, published
<1>9. CASE NotifyRoutes
  <2>1. updatedRoutes' \subseteq Route /\ deletedRoutes' \subseteq Route
    BY <1>9, <1>F DEF NotifyRoutes, TypeOK, Updated, Removed, SqlUpdated
  <2>2. cached' \in [Route -> Router]
    BY <1>9, <1>0 DEF NotifyRoutes, TypeOK, DropCached
  <2>3. routers' \in [Route -> Router]
    BY <1>9, <1>0 DEF NotifyRoutes, TypeOK
  <2>4. phase' \in Phases /\ started' \in BOOLEAN
    BY <1>9 DEF NotifyRoutes, PollEnds, Phases, TypeOK
  <2>5. seen' \in [File -> Content]
    BY <1>9 DEF NotifyRoutes, TypeOK, Report
  <2>6. overlooked' \subseteq Route
    BY <1>9 DEF NotifyRoutes, TypeOK, SqlUpdated, SqlOverlooked
  <2> QED
    BY <1>9, <1>F, <2>1, <2>2, <2>3, <2>4, <2>5, <2>6 DEF NotifyRoutes, TypeOK, published
<1>10. ASSUME NEW r \in Route, LoadRoute(r) PROVE TypeOK'
  <2>1. file[r] \in Content /\ file[r].version \in Nat
    BY <1>F DEF TypeOK, Content
  <2>2. cached' \in [Route -> Router] /\ routers' \in [Route -> Router]
    <3>1. CASE LoadCached(r)
      BY <3>1 DEF LoadCached, TypeOK
    <3>2. CASE LoadNew(r)
      <4> DEFINE ready == file[r].kind = "good"
                 loaded == [rule |-> file[r], ready |-> ready]
      <4>1. ready \in BOOLEAN
        OBVIOUS
      <4>2. loaded \in Router
        BY <2>1, <4>1 DEF Router
      <4>3. /\ cached' = [cached EXCEPT ![r] = loaded]
            /\ routers' = routers \/ routers' = [routers EXCEPT ![r] = loaded]
        BY <3>2 DEF LoadNew
      <4> HIDE DEF loaded
      <4> QED
        BY <4>2, <4>3 DEF TypeOK
    <3>3. CASE LoadFails(r)
      BY <3>3 DEF LoadFails, TypeOK
    <3> QED
      BY <1>10, <3>1, <3>2, <3>3 DEF LoadRoute
  <2>3. stored' \in [Route -> Nat] /\ metaFresh' \subseteq Route
    BY <1>10, <2>1 DEF LoadRoute, LoadCached, LoadNew, LoadFails, TypeOK
  <2>4. failed' \in BOOLEAN
    BY <1>10 DEF LoadRoute, LoadCached, LoadNew, LoadFails, TypeOK
  <2> QED
    BY <1>10, <2>2, <2>3, <2>4 DEF LoadRoute, TypeOK, published
<1>11. CASE RoutesFailed
  BY <1>11 DEF RoutesFailed, PollEnds, Phases, TypeOK, disk, session, published
<1>12. CASE Publish
  BY <1>12, <1>0
  DEF Publish, PollEnds, ForgetSession, NothingCached, Phases, TypeOK, disk
<1>13. CASE Wake
  BY <1>13 DEF Wake, Phases, TypeOK, disk, session, published
<1>14. CASE UNCHANGED vars
  BY <1>14 DEF vars, TypeOK, disk, session, published
<1> QED
  BY <1>1, <1>2, <1>3, <1>4, <1>5, <1>6, <1>7, <1>8, <1>9, <1>10, <1>11, <1>12, <1>13,
     <1>14 DEF Next, Poll, Environment

\* The change detection's state keeps its types, whatever happens to the files.
THEOREM TypeCorrect == Spec => []TypeOK
BY InitTyped, StepTyped, PTL DEF Spec

-----------------------------------------------------------------------------
(* Files and what trackers saw of them.                                    *)

\* A newer content covers an older one.
LEMMA CoversOlder ==
  ASSUME NEW a \in Content, NEW b \in Content, NEW c \in Content, Covers(a, b), Covers(b, c)
  PROVE  Covers(a, c)
BY DEF Covers, Content

\* A content covers itself, and the one of no file.
LEMMA CoversItself ==
  ASSUME NEW a \in Content
  PROVE  Covers(a, a) /\ Covers(a, NoFile)
BY DEF Covers, Content, NoFile

\* A file only becomes newer, and comes back as a newer one.
Grown(old, new) ==
  /\ Covers(new, old)
  /\ Present(new) => \/ Present(old) /\ new.version = old.version
                     \/ new.version # 0 /\ new.version > old.version

\* What a tracker saw was there, and was seen to be there unless a newer one is now.
SeenVersions ==
  \A f \in File :
    /\ Covers(file[f], seen[f])
    /\ seen[f].version = file[f].version /\ Present(file[f]) => Present(seen[f])
    /\ Present(file[f]) => file[f].version # 0
    /\ Present(seen[f]) => seen[f].version # 0

\* Every step leaves files as they are or newer.
LEMMA FilesGrow ==
  ASSUME TypeOK, [Next]_vars
  PROVE  \A f \in File : Grown(file[f], file'[f])
<1>1. file \in [File -> Content] /\ \A f \in File : file[f].version \in Nat /\ file[f].sql \in Nat
  BY DEF TypeOK, Content
<1>2. file' = file => \A f \in File : Grown(file[f], file'[f])
  BY <1>1 DEF Grown, Covers
<1>3. ASSUME NEW f \in File, Write(f) PROVE \A g \in File : Grown(file[g], file'[g])
  <2>1. PICK kind \in Kinds :
          file' = [file EXCEPT ![f] = [version |-> @.version + 1, sql |-> @.sql, kind |-> kind]]
    BY <1>3 DEF Write
  <2>2. /\ file'[f].version = file[f].version + 1 /\ file'[f].sql = file[f].sql
        /\ \A g \in File \ {f} : file'[g] = file[g]
    BY <1>1, <2>1
  <2> QED BY <1>1, <2>2 DEF Grown, Covers
<1>4. ASSUME NEW r \in Route, WriteSql(r) PROVE \A g \in File : Grown(file[g], file'[g])
  <2>1. PICK kind \in Kind :
          /\ file' = [file EXCEPT ![r].sql = @ + 1, ![r].kind = kind]
          /\ kind # "absent" => Present(file[r])
    BY <1>4 DEF WriteSql, Present
  <2>2. r \in File
    BY DEF File
  <2>3. /\ file'[r].version = file[r].version /\ file'[r].sql = file[r].sql + 1
        /\ Present(file'[r]) => Present(file[r])
        /\ \A g \in File \ {r} : file'[g] = file[g]
    <3>1. PICK mid : mid = [file EXCEPT ![r].sql = @ + 1]
      OBVIOUS
    <3>2. /\ mid \in [File -> Content] /\ \A g \in File \ {r} : mid[g] = file[g]
          /\ mid[r].version = file[r].version /\ mid[r].sql = file[r].sql + 1
      BY <1>1, <2>2, <3>1 DEF Content
    <3>3. file' = [mid EXCEPT ![r].kind = kind]
      BY <2>1, <3>1
    <3> QED BY <2>1, <2>2, <3>2, <3>3 DEF Content, Present
  <2> QED BY <1>1, <2>2, <2>3 DEF Grown, Covers
<1>5. ASSUME NEW f \in File, Remove(f) PROVE \A g \in File : Grown(file[g], file'[g])
  <2>1. /\ file'[f].version = file[f].version /\ file'[f].sql = file[f].sql /\ ~Present(file'[f])
        /\ \A g \in File \ {f} : file'[g] = file[g]
    BY <1>1, <1>5 DEF Remove, Content, Present
  <2> QED BY <1>1, <2>1 DEF Grown, Covers
<1>6. CASE Close \/ NotifyFails \/ NotifyResources \/ ResourcesLoaded \/ NotifyRoutes \/ RoutesFailed
           \/ Publish \/ Wake \/ UNCHANGED vars
  BY <1>2, <1>6 DEF Close, NotifyFails, NotifyResources, ResourcesLoaded, NotifyRoutes, RoutesFailed,
     Publish, Wake, vars, disk
<1>7. CASE \/ \E d \in Resource : LoadResource(d)
           \/ \E r \in Route : LoadRoute(r)
  BY <1>2, <1>7 DEF LoadResource, LoadRoute, disk
<1> QED BY <1>3, <1>4, <1>5, <1>6, <1>7 DEF Next, Poll, Environment

\* A tracker sees what is there, in a step that changes no file.
LEMMA SeenIsThere ==
  ASSUME TypeOK, [Next]_vars
  PROVE  \A f \in File : seen'[f] = seen[f] \/ (seen'[f] = file[f] /\ file' = file)
<1>1. CASE NotifyResources
  BY <1>1 DEF NotifyResources, Report, disk
<1>2. CASE NotifyRoutes
  BY <1>2 DEF NotifyRoutes, Report
<1>3. CASE UNCHANGED seen
  BY <1>3
<1>4. NotifyResources \/ NotifyRoutes \/ UNCHANGED seen
  BY DEF Next, Poll, Environment, Write, WriteSql, Remove, Close, NotifyFails, LoadResource, ResourcesLoaded,
     LoadRoute, RoutesFailed, Publish, Wake, vars
<1> QED BY <1>1, <1>2, <1>3, <1>4

\* Before the first poll nothing was seen.
LEMMA InitSeen == Init => SeenVersions
<1> SUFFICES ASSUME Init, NEW f \in File
             PROVE  /\ Covers(file[f], seen[f])
                    /\ seen[f].version = file[f].version /\ Present(file[f]) => Present(seen[f])
                    /\ Present(file[f]) => file[f].version # 0
                    /\ Present(seen[f]) => seen[f].version # 0
  BY DEF SeenVersions
<1>1. seen[f] = NoFile /\ file[f] \in {NoFile} \cup [version : {1}, sql : {0}, kind : Kinds]
  BY DEF Init
<1>2. CASE file[f] = NoFile
  BY <1>1, <1>2 DEF Covers, NoFile, Present
<1>3. CASE file[f] \in [version : {1}, sql : {0}, kind : Kinds]
  BY <1>1, <1>3 DEF Covers, NoFile, Present
<1> QED BY <1>1, <1>2, <1>3

\* Every step keeps what is known of files and what was seen of them.
LEMMA StepSeen == TypeOK /\ SeenVersions /\ [Next]_vars => SeenVersions'
<1> SUFFICES ASSUME TypeOK, SeenVersions, [Next]_vars, NEW f \in File
             PROVE  (/\ Covers(file[f], seen[f])
                     /\ seen[f].version = file[f].version /\ Present(file[f]) => Present(seen[f])
                     /\ Present(file[f]) => file[f].version # 0
                     /\ Present(seen[f]) => seen[f].version # 0)'
  BY DEF SeenVersions
<1>1. Grown(file[f], file'[f]) /\ (seen'[f] = seen[f] \/ (seen'[f] = file[f] /\ file'[f] = file[f]))
  BY FilesGrow, SeenIsThere
<1>2. /\ Covers(file[f], seen[f])
      /\ seen[f].version = file[f].version /\ Present(file[f]) => Present(seen[f])
      /\ Present(file[f]) => file[f].version # 0
      /\ Present(seen[f]) => seen[f].version # 0
  BY DEF SeenVersions
<1>3. file[f] \in Content /\ file'[f] \in Content /\ seen[f] \in Content
  BY StepTyped DEF TypeOK
<1>4. CASE seen'[f] = file[f] /\ file'[f] = file[f]
  BY <1>2, <1>3, <1>4, CoversItself DEF Present
<1>5. CASE seen'[f] = seen[f]
  <2>1. Covers(file'[f], seen[f])
    BY <1>1, <1>2, <1>3, CoversOlder DEF Grown
  <2>2. Present(file'[f]) => file'[f].version # 0
    BY <1>1, <1>2 DEF Grown
  <2>3. seen[f].version = file'[f].version /\ Present(file'[f]) => Present(seen[f])
    BY <1>1, <1>2, <1>3 DEF Grown, Covers, Content
  <2> QED BY <1>2, <1>5, <2>1, <2>2, <2>3 DEF Present
<1> QED BY <1>1, <1>4, <1>5

-----------------------------------------------------------------------------
(* What is served goes forward.                                            *)

\* Routers that are served or in the session are of rules that were there; those in the session
\* are at least as new as those that are served.
RoutersForward ==
  \A r \in Route :
    /\ Covers(file[r], live[r].rule)
    /\ Covers(file[r], cached[r].rule)
    /\ Covers(file[r], routers[r].rule)
    /\ cached[r] # NoRouter => Covers(cached[r].rule, live[r].rule)
    /\ r \in deletedRoutes => ~Present(seen[r])

\* A poll goes on from the routers that are served: those it was told of are loaded anew, or taken
\* away.
RoutersNewer ==
  phase = "loadRoutes" =>
    \A r \in Route :
      /\ r \in loading => r \in updatedRoutes
      /\ r \in updatedRoutes =>
           r \in loading \/ failed \/ (routers[r] # NoRouter /\ Covers(routers[r].rule, live[r].rule))
      /\ r \notin updatedRoutes => routers[r] = live[r] \/ (r \in deletedRoutes /\ routers[r] = NoRouter)

\* The same for resources, of which none is taken away.
ResultNewer ==
  /\ \A d \in Resource : Covers(file[d], resources[d]) /\ Covers(file[d], result[d])
  /\ phase = "loadResources" =>
       \A d \in Resource \ loading : failed \/ Covers(result[d], resources[d])
  /\ phase \in {"routes", "loadRoutes"} => \A d \in Resource : Covers(result[d], resources[d])

ForwardInv == TypeOK /\ SeenVersions /\ RoutersForward /\ RoutersNewer /\ ResultNewer

\* Nothing is served at first.
LEMMA InitForward == Init => ForwardInv
<1> SUFFICES ASSUME Init PROVE ForwardInv
  OBVIOUS
<1>1. TypeOK /\ SeenVersions
  BY InitTyped, InitSeen
<1>2. \A f \in File : Covers(file[f], NoFile)
  BY <1>1, CoversItself DEF TypeOK
<1>3. RoutersForward
  BY <1>2 DEF RoutersForward, Init, NothingCached, NoRouter, File
<1>4. RoutersNewer /\ ResultNewer
  BY <1>2 DEF RoutersNewer, ResultNewer, Init, File
<1> QED BY <1>1, <1>3, <1>4 DEF ForwardInv

\* Files become newer, or the poller's place changes; the session and what is served stay.
LEMMA FilesForward ==
  ASSUME ForwardInv, [Next]_vars,
         UNCHANGED <<seen, session, published, result, routers, loading, failed>>,
         \/ UNCHANGED phase \/ phase' \in {"sleep", "resources", "stopped"}
         \/ phase = "loadResources" /\ loading = {} /\ ~failed /\ phase' = "routes"
  PROVE  ForwardInv'
<1>1. TypeOK /\ TypeOK' /\ SeenVersions'
  BY StepTyped, StepSeen DEF ForwardInv
<1>2. \A f \in File : Covers(file'[f], file[f])
  BY <1>1, FilesGrow DEF Grown
<1>3. ASSUME NEW f \in File, NEW c \in Content, Covers(file[f], c) PROVE Covers(file'[f], c)
  <2>1. file[f] \in Content /\ file'[f] \in Content
    BY <1>1 DEF TypeOK
  <2> QED BY <1>2, <1>3, <2>1, CoversOlder
<1>4. RoutersForward'
  <2> SUFFICES ASSUME NEW r \in Route
               PROVE  (/\ Covers(file[r], live[r].rule)
                       /\ Covers(file[r], cached[r].rule)
                       /\ Covers(file[r], routers[r].rule)
                       /\ cached[r] # NoRouter => Covers(cached[r].rule, live[r].rule)
                       /\ r \in deletedRoutes => ~Present(seen[r]))'
    BY DEF RoutersForward
  <2>1. r \in File /\ live[r].rule \in Content /\ cached[r].rule \in Content /\ routers[r].rule \in Content
    BY <1>1 DEF TypeOK, Router, File
  <2>2. UNCHANGED <<live, cached, routers, deletedRoutes, seen>>
    BY DEF session, published
  <2>3. /\ Covers(file[r], live[r].rule)
        /\ Covers(file[r], cached[r].rule)
        /\ Covers(file[r], routers[r].rule)
        /\ cached[r] # NoRouter => Covers(cached[r].rule, live[r].rule)
        /\ r \in deletedRoutes => ~Present(seen[r])
    BY DEF ForwardInv, RoutersForward
  <2> QED BY <1>3, <2>1, <2>2, <2>3
<1>5. RoutersNewer'
  BY DEF ForwardInv, RoutersNewer, session, published
<1>6. ResultNewer'
  <2>1. UNCHANGED <<resources, result, loading, failed>>
    BY DEF published
  <2>2. ASSUME NEW d \in Resource PROVE Covers(file'[d], resources[d]) /\ Covers(file'[d], result[d])
    <3>1. d \in File /\ resources[d] \in Content /\ result[d] \in Content
      BY <1>1 DEF TypeOK, File
    <3> QED BY <1>3, <3>1 DEF ForwardInv, ResultNewer
  <2> QED BY <2>1, <2>2 DEF ForwardInv, ResultNewer
<1> QED BY <1>1, <1>4, <1>5, <1>6 DEF ForwardInv

\* Every step keeps what is served, loaded and remembered in their order.
LEMMA StepForward == ForwardInv /\ [Next]_vars => ForwardInv'
<1> SUFFICES ASSUME ForwardInv, [Next]_vars PROVE ForwardInv'
  OBVIOUS
<1>0. TypeOK /\ TypeOK' /\ SeenVersions /\ SeenVersions'
  BY StepTyped, StepSeen DEF ForwardInv
<1>F. Route \subseteq File /\ Resource \subseteq File /\ Route \cap Resource = {}
  BY FilesAssumption DEF File
<1>R. \A r \in Route : live[r] \in Router /\ cached[r] \in Router /\ file[r] \in Content
  BY <1>0, <1>F DEF TypeOK
<1>1. ASSUME NEW f \in File, Write(f) \/ Remove(f) PROVE ForwardInv'
  BY <1>1, FilesForward DEF Write, Remove
<1>2. ASSUME NEW r \in Route, WriteSql(r) PROVE ForwardInv'
  BY <1>2, FilesForward DEF WriteSql
<1>3. CASE Close \/ NotifyFails \/ ResourcesLoaded \/ RoutesFailed \/ Wake \/ UNCHANGED vars
  BY <1>3, FilesForward
  DEF Close, NotifyFails, ResourcesLoaded, RoutesFailed, Wake, PollEnds, vars
<1>4. CASE NotifyResources
  <2> DEFINE pending == (updatedRes \cup Updated(Resource)) \ Removed(Resource)
  <2>1. /\ UNCHANGED <<file, deletedRoutes, cached, resources, live, routers>>
        /\ seen' = Report(Resource) /\ loading' = pending
        /\ result' = [d \in Resource |-> IF d \in pending THEN NoFile ELSE resources[d]]
        /\ phase' = IF pending = {} THEN "routes" ELSE "loadResources"
    BY <1>4 DEF NotifyResources, disk, published
  <2>2. \A r \in Route : seen'[r] = seen[r]
    BY <1>F, <2>1 DEF Report
  <2>3. RoutersForward'
    BY <2>1, <2>2 DEF ForwardInv, RoutersForward, Present
  <2>4. RoutersNewer'
    BY <2>1 DEF RoutersNewer
  <2> HIDE DEF pending
  <2>5. \A d \in Resource \ pending : Covers(result'[d], resources[d])
    BY <1>0, <2>1, CoversItself DEF TypeOK
  <2>6. \A d \in Resource : Covers(file[d], resources[d]) /\ Covers(file[d], NoFile)
    BY <1>0, <1>F, CoversItself DEF TypeOK, ForwardInv, ResultNewer
  <2>7. ResultNewer'
    BY <2>1, <2>5, <2>6 DEF ResultNewer
  <2> QED BY <1>0, <2>3, <2>4, <2>7 DEF ForwardInv
<1>5. ASSUME NEW d \in Resource, LoadResource(d) PROVE ForwardInv'
  <2>1. /\ UNCHANGED <<file, seen, phase, updatedRoutes, deletedRoutes, cached, resources, live, routers>>
        /\ phase = "loadResources" /\ loading' = loading \ {d}
    BY <1>5 DEF LoadResource, disk, session, published
  <2>2. RoutersForward' /\ RoutersNewer'
    BY <2>1 DEF ForwardInv, RoutersForward, RoutersNewer
  <2>3. ASSUME NEW e \in Resource \ loading', ~failed' PROVE Covers(result'[e], resources[e])
    <3>1. ~failed /\ result' = [result EXCEPT ![d] = file[d]]
      BY <1>5, <2>3 DEF LoadResource
    <3>2. CASE e = d
      BY <1>0, <3>1, <3>2 DEF TypeOK, ForwardInv, ResultNewer
    <3>3. CASE e # d
      BY <1>0, <2>1, <2>3, <3>1, <3>3 DEF TypeOK, ForwardInv, ResultNewer
    <3> QED BY <3>2, <3>3
  <2>4. \A e \in Resource : result'[e] = result[e] \/ result'[e] = file[e]
    BY <1>0, <1>5 DEF LoadResource, TypeOK
  <2>5. \A e \in Resource : Covers(file[e], file[e])
    BY <1>0, <1>F, CoversItself DEF TypeOK
  <2>6. ResultNewer'
    BY <2>1, <2>3, <2>4, <2>5 DEF ForwardInv, ResultNewer
  <2> QED BY <1>0, <2>2, <2>6 DEF ForwardInv
<1>6. CASE NotifyRoutes
  <2> DEFINE reported == Updated(Route) \cup SqlUpdated
             deleted == (deletedRoutes \ reported) \cup Removed(Route)
  <2>1. /\ UNCHANGED <<file, resources, live, result>>
        /\ seen' = Report(Route) /\ loading' = updatedRoutes' /\ deletedRoutes' = deleted
        /\ \A r \in Route : cached'[r] = cached[r] \/ cached'[r] = NoRouter
        /\ routers' = [r \in Route |->
                         IF r \in updatedRoutes' \cup deletedRoutes' THEN NoRouter ELSE live[r]]
        /\ phase = "routes" /\ phase' # "loadResources" /\ phase' # "routes"
    BY <1>6 DEF NotifyRoutes, DropCached, published, PollEnds
  <2>2. \A r \in Route : seen'[r] = file[r]
    BY <1>F, <2>1 DEF Report
  <2>3. ASSUME NEW r \in Route, r \in deletedRoutes' PROVE ~Present(seen'[r])
    <3>1. CASE r \in Removed(Route)
      BY <2>2, <3>1 DEF Removed
    <3>2. CASE r \in deletedRoutes /\ r \notin Updated(Route)
      <4>1. ~Present(seen[r])
        BY <3>2 DEF ForwardInv, RoutersForward
      <4>2. Present(file[r]) => seen[r].version = file[r].version
        BY <3>2 DEF Updated
      <4> QED BY <1>0, <1>F, <2>2, <4>1, <4>2 DEF SeenVersions
    <3> QED BY <2>1, <2>3, <3>1, <3>2
  <2> HIDE DEF deleted
  <2>4. RoutersForward'
    <3> SUFFICES ASSUME NEW r \in Route
                 PROVE  /\ Covers(file[r], live[r].rule)
                        /\ Covers(file[r], cached'[r].rule)
                        /\ Covers(file[r], routers'[r].rule)
                        /\ cached'[r] # NoRouter => Covers(cached'[r].rule, live[r].rule)
      BY <2>1, <2>3 DEF RoutersForward, Covers
    <3>1. Covers(file[r], NoRouter.rule)
      BY <1>R, CoversItself DEF NoRouter
    <3>2. routers'[r] = live[r] \/ routers'[r] = NoRouter
      BY <2>1
    <3> QED BY <2>1, <3>1, <3>2 DEF ForwardInv, RoutersForward
  <2>5. RoutersNewer'
    BY <2>1 DEF RoutersNewer
  <2>6. ResultNewer'
    BY <2>1 DEF ForwardInv, ResultNewer
  <2> QED BY <1>0, <2>4, <2>5, <2>6 DEF ForwardInv
<1>7. ASSUME NEW r \in Route, LoadRoute(r) PROVE ForwardInv'
  <2>1. /\ UNCHANGED <<file, seen, phase, updatedRoutes, deletedRoutes, resources, live, result>>
        /\ phase = "loadRoutes" /\ loading' = loading \ {r} /\ r \in loading
    BY <1>7 DEF LoadRoute, published
  <2>2. r \in updatedRoutes
    BY <2>1 DEF ForwardInv, RoutersNewer
  <2>3. /\ \A q \in Route \ {r} : cached'[q] = cached[q] /\ routers'[q] = routers[q]
        /\ failed => failed'
    BY <1>0, <1>7 DEF LoadRoute, LoadCached, LoadNew, LoadFails, TypeOK
  <2>4. Covers(file[r], live[r].rule) /\ Covers(file[r], file[r])
    BY <1>R, CoversItself DEF ForwardInv, RoutersForward
  <2>5. /\ cached'[r] = cached[r] \/ cached'[r].rule = file[r]
        /\ routers'[r] = routers[r] \/ routers'[r] = cached[r] \/ routers'[r].rule = file[r]
    BY <1>0, <1>7 DEF LoadRoute, LoadCached, LoadNew, LoadFails, TypeOK
  <2>6. failed' \/ (routers'[r] # NoRouter /\ Covers(routers'[r].rule, live[r].rule))
    <3>1. CASE LoadCached(r)
      BY <1>0, <3>1 DEF LoadCached, TypeOK, ForwardInv, RoutersForward
    <3>2. CASE LoadNew(r) /\ file[r].kind = "good"
      <4>1. routers'[r] = [rule |-> file[r], ready |-> TRUE]
        BY <1>0, <3>2 DEF LoadNew, TypeOK
      <4> QED BY <2>4, <4>1 DEF NoRouter
    <3>3. CASE LoadFails(r) \/ (LoadNew(r) /\ file[r].kind # "good")
      BY <3>3 DEF LoadFails, LoadNew
    <3> QED BY <1>7, <3>1, <3>2, <3>3 DEF LoadRoute
  <2>7. RoutersForward'
    BY <2>1, <2>3, <2>4, <2>5 DEF ForwardInv, RoutersForward
  <2>8. RoutersNewer'
    BY <2>1, <2>2, <2>3, <2>6 DEF ForwardInv, RoutersNewer
  <2>9. ResultNewer'
    BY <2>1 DEF ForwardInv, ResultNewer
  <2> QED BY <1>0, <2>7, <2>8, <2>9 DEF ForwardInv
<1>8. CASE Publish
  <2>1. /\ phase = "loadRoutes" /\ loading = {} /\ ~failed /\ phase' = "sleep"
        /\ live' = routers /\ resources' = result /\ UNCHANGED <<file, seen, result, routers>>
        /\ deletedRoutes' = {} /\ cached' = NothingCached
    BY <1>8 DEF Publish, PollEnds, ForgetSession, disk
  <2>2. \A r \in Route : Covers(file[r], NoRouter.rule) /\ NothingCached[r] = NoRouter
    BY <1>R, CoversItself DEF NoRouter, NothingCached
  <2>3. RoutersForward'
    BY <2>1, <2>2 DEF ForwardInv, RoutersForward
  <2>4. RoutersNewer' /\ ResultNewer'
    BY <2>1 DEF ForwardInv, RoutersNewer, ResultNewer
  <2> QED BY <1>0, <2>3, <2>4 DEF ForwardInv
<1> QED
  BY <1>1, <1>2, <1>3, <1>4, <1>5, <1>6, <1>7, <1>8 DEF Next, Poll, Environment

\* What is served only goes forward, whatever is written, removed and fails: a failed poll publishes
\* nothing, one that succeeds publishes nothing older (createRouterIfNeeded).
THEOREM ServesForward == Spec => ServedForward
<1> DEFINE Forward ==
      /\ \A r \in Route : live[r] # NoRouter =>
           \/ live'[r] # NoRouter /\ Covers(live'[r].rule, live[r].rule)
           \/ live'[r] = NoRouter /\ ~Present(seen[r])
      /\ \A d \in Resource : Covers(resources'[d], resources[d])
<1>1. Init => ForwardInv
  BY InitForward
<1>2. ForwardInv /\ [Next]_vars => ForwardInv'
  BY StepForward
<1>3. ForwardInv /\ [Next]_vars => [Forward]_vars
  <2> SUFFICES ASSUME ForwardInv, [Next]_vars PROVE Forward
    OBVIOUS
  <2>1. \A r \in Route : Covers(live[r].rule, live[r].rule)
    BY CoversItself DEF ForwardInv, TypeOK, Router
  <2>2. \A d \in Resource : Covers(resources[d], resources[d])
    BY CoversItself DEF ForwardInv, TypeOK
  <2>3. CASE Publish
    <3>1. /\ phase = "loadRoutes" /\ loading = {} /\ ~failed
          /\ live' = routers /\ resources' = result
      BY <2>3 DEF Publish
    <3>2. \A d \in Resource : Covers(resources'[d], resources[d])
      BY <3>1 DEF ForwardInv, ResultNewer
    <3>3. ASSUME NEW r \in Route, live[r] # NoRouter
          PROVE  \/ live'[r] # NoRouter /\ Covers(live'[r].rule, live[r].rule)
                 \/ live'[r] = NoRouter /\ ~Present(seen[r])
      <4>1. CASE r \in updatedRoutes
        BY <3>1, <4>1 DEF ForwardInv, RoutersNewer
      <4>2. CASE r \notin updatedRoutes
        BY <2>1, <3>1, <3>3, <4>2 DEF ForwardInv, RoutersNewer, RoutersForward
      <4> QED BY <4>1, <4>2
    <3> QED BY <3>2, <3>3
  <2>4. UNCHANGED <<live, resources>> \/ Publish
    BY DEF Next, Poll, Environment, Write, WriteSql, Remove, Close, NotifyFails, NotifyResources, LoadResource,
       ResourcesLoaded, NotifyRoutes, LoadRoute, RoutesFailed, Wake, vars, published
  <2>5. CASE UNCHANGED <<live, resources>>
    BY <2>1, <2>2, <2>5
  <2> QED BY <2>3, <2>4, <2>5
<1> QED BY <1>1, <1>2, <1>3, PTL DEF Spec, ServedForward

-----------------------------------------------------------------------------
(* No reported change is lost.                                             *)

\* Resources have no SQL files.
NoSqlOfResources == \A d \in Resource : file[d].sql = 0 /\ seen[d].sql = 0

\* The session says of a rule what the tracker last reported, or that it is to be loaded although
\* it was removed; and it holds routers at least as new as that.
SessionAccurate ==
  \A r \in Route :
    /\ r \in updatedRoutes => (Present(seen[r]) \/ r \in overlooked) /\ r \notin deletedRoutes
    /\ r \in deletedRoutes => ~Present(seen[r])
    /\ cached[r] # NoRouter => r \in updatedRoutes /\ Has(r, cached[r].rule)

\* The map of resources being built has all that was reported, but for the
\* goroutines that have not answered or failed.
ResultComplete ==
  /\ phase = "loadResources" =>
       \A d \in Resource \ loading :
         failed \/ (Present(seen[d]) => Covers(result[d], seen[d]))
  /\ phase \in {"routes", "loadRoutes"} =>
       \A d \in Resource : Present(seen[d]) => Covers(result[d], seen[d])

\* So has the map of routers, and it keeps what did not change.
RoutersComplete ==
  phase = "loadRoutes" =>
    \A r \in Route :
      /\ r \in updatedRoutes =>
           r \in loading \/ failed \/ Has(r, routers[r].rule)
      /\ r \in loading => r \in updatedRoutes
      /\ r \in deletedRoutes => routers[r] = NoRouter
      /\ r \notin updatedRoutes \cup deletedRoutes => routers[r] = live[r]

SyncInv == TypeOK /\ NothingLost /\ SeenVersions /\ NoSqlOfResources /\ SessionAccurate
           /\ ResultComplete /\ RoutersComplete

\* Before the first poll nothing was seen, reported or published but what was there.
LEMMA InitInv == Init => SyncInv
<1> SUFFICES ASSUME Init PROVE SyncInv
  OBVIOUS
<1>1. TypeOK
  BY InitTyped
<1>2. ~Present(NoFile) /\ NoFile.version = 0 /\ NoFile.sql = 0
  BY DEF Present, NoFile
<1>3. SeenVersions /\ NoSqlOfResources
  <2>1. ASSUME NEW d \in Resource PROVE file[d].sql = 0 /\ seen[d].sql = 0
    <3>1. d \in File /\ file[d] \in {NoFile} \cup [version : {1}, sql : {0}, kind : Kinds]
      BY DEF Init, File
    <3>2. file[d].sql = 0
      BY <1>2, <3>1
    <3> QED BY <1>2, <3>1, <3>2 DEF Init
  <2> QED BY <2>1, InitSeen DEF NoSqlOfResources
<1>4. NothingLost
  BY <1>2, FilesAssumption DEF NothingLost, Init, NothingCached, File
<1>5. SessionAccurate
  BY DEF SessionAccurate, Init, NothingCached
<1>6. ResultComplete /\ RoutersComplete
  BY DEF ResultComplete, RoutersComplete, Init
<1> QED
  BY <1>1, <1>3, <1>4, <1>5, <1>6 DEF SyncInv

\* Nothing but the files and the poller's place changes.
LEMMA FilesChange ==
  ASSUME SyncInv, TypeOK', UNCHANGED <<seen, overlooked, session, published, result, routers, loading>>,
         failed' = failed,
         \/ UNCHANGED phase \/ phase' \in {"sleep", "resources", "stopped"}
         \/ phase = "loadResources" /\ loading = {} /\ ~failed /\ phase' = "routes",
         SeenVersions', NoSqlOfResources'
  PROVE  SyncInv'
<1>1. NothingLost'
  BY DEF SyncInv, NothingLost, Has, session, published
<1>2. SessionAccurate'
  BY DEF SyncInv, SessionAccurate, Has, session
<1>3. ResultComplete'
  BY DEF SyncInv, ResultComplete
<1>4. RoutersComplete'
  BY DEF SyncInv, RoutersComplete, Has, session, published
<1> QED
  BY <1>1, <1>2, <1>3, <1>4 DEF SyncInv

\* A tracker's report of some files.
LEMMA ReportSeen ==
  ASSUME SeenVersions, NEW files \in SUBSET File, seen' = Report(files)
  PROVE  /\ \A f \in File \ files : seen'[f] = seen[f]
         /\ \A f \in files :
              /\ seen'[f] = file[f]
              /\ Present(file[f]) /\ f \notin Updated(files) =>
                   Present(seen[f]) /\ seen[f].version = file[f].version
              /\ ~Present(file[f]) /\ f \notin Removed(files) => ~Present(seen[f])
<1>1. \A f \in File : seen'[f] = IF f \in files THEN file[f] ELSE seen[f]
  BY DEF Report
<1> QED
  BY <1>1 DEF SeenVersions, Updated, Removed

\* Every step keeps what the trackers, the session and a poll know accurate.
LEMMA StepInv == SyncInv /\ [Next]_vars => SyncInv'
<1> SUFFICES ASSUME SyncInv, [Next]_vars PROVE SyncInv'
  OBVIOUS
<1>0. TypeOK /\ TypeOK' /\ SeenVersions /\ SeenVersions'
  BY StepTyped, StepSeen DEF SyncInv
<1>F. Route \subseteq File /\ Resource \subseteq File /\ Route \cap Resource = {}
  BY FilesAssumption DEF File
<1>S. UNCHANGED <<file, seen>> => NoSqlOfResources'
  BY DEF SyncInv, NoSqlOfResources
<1>1. ASSUME NEW f \in File, Write(f) PROVE SyncInv'
  <2>1. PICK kind \in Kinds :
          file' = [file EXCEPT ![f] =
                     [version |-> @.version + 1, sql |-> @.sql, kind |-> kind]]
    BY <1>1 DEF Write
  <2>2. \A g \in File : file'[g].sql = file[g].sql
    BY <1>0, <2>1 DEF TypeOK
  <2>3. NoSqlOfResources'
    BY <1>1, <1>F, <2>2 DEF SyncInv, NoSqlOfResources, Write
  <2> QED
    BY <1>0, <1>1, <2>3, FilesChange DEF Write
<1>2. ASSUME NEW r \in Route, WriteSql(r) PROVE SyncInv'
  <2>1. PICK kind \in Kind : file' = [file EXCEPT ![r].sql = @ + 1, ![r].kind = kind]
    BY <1>2 DEF WriteSql
  <2>2. \A d \in Resource : file'[d] = file[d]
    BY <1>0, <1>F, <2>1 DEF TypeOK
  <2>3. NoSqlOfResources'
    BY <1>2, <2>2 DEF SyncInv, NoSqlOfResources, WriteSql
  <2> QED
    BY <1>0, <1>2, <2>3, FilesChange DEF WriteSql
<1>3. ASSUME NEW f \in File, Remove(f) PROVE SyncInv'
  <2>1. \A g \in File : file'[g].sql = file[g].sql
    BY <1>0, <1>3 DEF TypeOK, Remove, Content
  <2>2. NoSqlOfResources'
    BY <1>3, <1>F, <2>1 DEF SyncInv, NoSqlOfResources, Remove
  <2> QED
    BY <1>0, <1>3, <2>2, FilesChange DEF Remove
<1>4. CASE Close
  BY <1>0, <1>4, <1>S, FilesChange DEF Close, disk, session
<1>5. CASE NotifyFails
  BY <1>0, <1>5, <1>S, FilesChange DEF NotifyFails, PollEnds, disk, session
<1>6. CASE NotifyResources
  <2> DEFINE pending == (updatedRes \cup Updated(Resource)) \ Removed(Resource)
  <2>1. /\ seen' = Report(Resource) /\ UNCHANGED file
        /\ updatedRes' = pending /\ loading' = pending
        /\ result' = [d \in Resource |-> IF d \in pending THEN NoFile ELSE resources[d]]
        /\ phase' = IF pending = {} THEN "routes" ELSE "loadResources"
        /\ UNCHANGED <<overlooked, updatedRoutes, deletedRoutes, cached, resources, live>>
    BY <1>6 DEF NotifyResources, disk, published
  <2>2. /\ \A f \in File \ Resource : seen'[f] = seen[f]
        /\ \A f \in Resource :
             /\ seen'[f] = file[f]
             /\ Present(file[f]) /\ f \notin Updated(Resource) =>
                  Present(seen[f]) /\ seen[f].version = file[f].version
             /\ ~Present(file[f]) /\ f \notin Removed(Resource) => ~Present(seen[f])
    BY <1>0, <1>F, <2>1, ReportSeen
  <2>3. \A r \in Route : seen'[r] = seen[r]
    BY <1>F, <2>2
  <2>4. ASSUME NEW d \in Resource, d \notin pending, Present(seen'[d])
        PROVE  Covers(resources[d], seen'[d])
    <3>1. d \notin Removed(Resource)
      BY <2>2, <2>4 DEF Removed
    <3>2. d \notin updatedRes /\ Present(seen[d]) /\ seen'[d].version = seen[d].version
      BY <2>2, <2>4, <3>1
    <3>3. Covers(resources[d], seen[d])
      BY <3>2 DEF SyncInv, NothingLost
    <3>4. seen[d].sql = 0 /\ seen'[d].sql = 0
      BY <1>F, <2>2 DEF SyncInv, NoSqlOfResources
    <3> QED
      BY <3>2, <3>3, <3>4 DEF Covers
  <2> HIDE DEF pending
  <2>5. NothingLost'
    BY <2>1, <2>3, <2>4 DEF SyncInv, NothingLost, Has
  <2>6. SessionAccurate'
    BY <2>1, <2>3 DEF SyncInv, SessionAccurate, Has
  <2>7. ResultComplete'
    BY <2>1, <2>4 DEF ResultComplete
  <2>8. RoutersComplete'
    BY <2>1 DEF RoutersComplete
  <2>9. NoSqlOfResources'
    BY <2>1, <2>2 DEF SyncInv, NoSqlOfResources
  <2> QED
    BY <1>0, <2>5, <2>6, <2>7, <2>8, <2>9 DEF SyncInv
<1>7. ASSUME NEW d \in Resource, LoadResource(d) PROVE SyncInv'
  <2>1. /\ UNCHANGED <<file, seen, overlooked, phase, updatedRes, updatedRoutes, deletedRoutes,
                       cached, resources, live, routers>>
        /\ phase = "loadResources" /\ loading' = loading \ {d}
    BY <1>7 DEF LoadResource, disk, session, published
  <2>2. NothingLost' /\ SessionAccurate' /\ NoSqlOfResources' /\ RoutersComplete'
    BY <2>1 DEF SyncInv, NothingLost, SessionAccurate, NoSqlOfResources, RoutersComplete, Has
  <2>3. ASSUME NEW e \in Resource \ loading', Present(seen[e]), ~failed'
        PROVE  Covers(result'[e], seen[e])
    <3>1. ~failed /\ result' = [result EXCEPT ![d] = file[d]]
      BY <1>7, <2>3 DEF LoadResource
    <3>2. CASE e = d
      <4>1. result'[e] = file[d]
        BY <1>0, <3>1, <3>2 DEF TypeOK
      <4>2. Covers(file[d], seen[d])
        BY <1>0, <1>F DEF SeenVersions
      <4> QED
        BY <3>2, <4>1, <4>2
    <3>3. CASE e # d
      BY <1>0, <2>1, <2>3, <3>1, <3>3 DEF SyncInv, ResultComplete, TypeOK
    <3> QED
      BY <3>2, <3>3
  <2>4. ResultComplete'
    BY <2>1, <2>3 DEF ResultComplete
  <2> QED
    BY <1>0, <2>2, <2>4 DEF SyncInv
<1>8. CASE ResourcesLoaded
  BY <1>0, <1>8, <1>S, FilesChange DEF ResourcesLoaded, PollEnds, disk, session
<1>9. CASE NotifyRoutes
  <2> DEFINE reported == Updated(Route) \cup SqlUpdated
             pending == (updatedRoutes \cup reported) \ Removed(Route)
             deleted == (deletedRoutes \ reported) \cup Removed(Route)
  <2>1. \A r \in SqlUpdated : r \in Route /\ live[r] # NoRouter /\ file[r].sql # seen[r].sql
    BY DEF SqlUpdated
  <2>2. PICK picked \in SUBSET Route :
          /\ MetaUpdated(pending, deleted, picked)
          /\ updatedRoutes' = pending \cup picked
          /\ deletedRoutes' = deleted
          /\ cached' = DropCached(reported \cup Removed(Route) \cup picked)
          /\ overlooked' = {r \in SqlUpdated \cup picked : ~Present(file[r]) /\ ~Present(seen[r])}
                            \cup ((overlooked \cup SqlOverlooked) \ (reported \cup Removed(Route) \cup picked))
    BY <1>9 DEF NotifyRoutes
  <2>3. picked \subseteq {r \in Route : live[r] # NoRouter} \ (pending \cup deleted)
    BY <2>2 DEF MetaUpdated
  <2>4. /\ seen' = Report(Route) /\ UNCHANGED <<file, updatedRes, resources, live, result>>
        /\ loading' = updatedRoutes'
        /\ routers' = [r \in Route |->
                         IF r \in updatedRoutes' \cup deletedRoutes' THEN NoRouter ELSE live[r]]
        /\ phase = "routes" /\ phase' # "loadResources" /\ phase' # "routes"
    BY <1>9 DEF NotifyRoutes, published, PollEnds
  <2>5. /\ \A f \in File \ Route : seen'[f] = seen[f]
        /\ \A f \in Route :
             /\ seen'[f] = file[f]
             /\ Present(file[f]) /\ f \notin Updated(Route) =>
                  Present(seen[f]) /\ seen[f].version = file[f].version
             /\ ~Present(file[f]) /\ f \notin Removed(Route) => ~Present(seen[f])
    BY <1>0, <1>F, <2>4, ReportSeen
  <2>6. \A d \in Resource : seen'[d] = seen[d]
    BY <1>F, <2>5
  <2>7. /\ \A r \in Updated(Route) : Present(file[r])
        /\ \A r \in Removed(Route) : r \in Route /\ Present(seen[r]) /\ ~Present(file[r])
    BY DEF Updated, Removed
  <2>8. NoSqlOfResources'
    BY <2>4, <2>6 DEF SyncInv, NoSqlOfResources
  <2>O. \A r \in Route :
           /\ r \in overlooked \cup SqlOverlooked /\ r \notin reported \cup Removed(Route) \cup picked
                => r \in overlooked'
           /\ r \in SqlUpdated \cup picked /\ ~Present(file[r]) /\ ~Present(seen[r]) => r \in overlooked'
    BY <2>2
  <2> HIDE DEF pending, deleted, reported
  <2>9. ASSUME NEW r \in Route
        PROVE  /\ r \in pending <=> /\ r \in updatedRoutes \/ r \in reported
                                   /\ r \notin Removed(Route)
               /\ r \in deleted <=> \/ r \in deletedRoutes /\ r \notin reported
                                   \/ r \in Removed(Route)
               /\ r \in reported <=> r \in Updated(Route) \/ r \in SqlUpdated
    BY DEF pending, deleted, reported
  <2>10. SessionAccurate'
    <3> SUFFICES ASSUME NEW r \in Route
                 PROVE  (/\ r \in updatedRoutes =>
                              (Present(seen[r]) \/ r \in overlooked) /\ r \notin deletedRoutes
                         /\ r \in deletedRoutes => ~Present(seen[r])
                         /\ cached[r] # NoRouter => r \in updatedRoutes /\ Has(r, cached[r].rule))'
      BY DEF SessionAccurate
    <3>1. /\ r \in updatedRoutes => (Present(seen[r]) \/ r \in overlooked) /\ r \notin deletedRoutes
          /\ r \in deletedRoutes => ~Present(seen[r])
          /\ cached[r] # NoRouter => r \in updatedRoutes /\ Has(r, cached[r].rule)
      BY DEF SyncInv, SessionAccurate
    <3>2. r \in updatedRoutes' => (Present(seen'[r]) \/ r \in overlooked') /\ r \notin deletedRoutes'
      <4>1. CASE r \in pending
        <5>1. r \notin deleted /\ r \notin Removed(Route) /\ r \notin picked
          BY <2>3, <2>9, <3>1, <4>1
        <5>2. CASE Present(file[r])
          BY <2>2, <2>5, <5>1, <5>2
        <5>3. CASE ~Present(file[r])
          <6>1. ~Present(seen[r]) /\ r \notin Updated(Route)
            BY <2>5, <2>7, <5>1, <5>3
          <6>2. r \in SqlUpdated \/ (r \in overlooked /\ r \notin reported)
            BY <2>9, <3>1, <4>1, <6>1
          <6> QED BY <2>2, <2>O, <5>1, <5>3, <6>1, <6>2
        <5> QED BY <5>2, <5>3
      <4>2. CASE r \in picked
        <5>1. r \notin deleted /\ r \notin Removed(Route)
          BY <2>3, <2>9, <4>2
        <5> QED BY <2>2, <2>5, <2>O, <4>2, <5>1
      <4> QED
        BY <2>2, <4>1, <4>2
    <3>3. r \in deletedRoutes' => ~Present(seen'[r])
      <4>1. Present(file[r]) /\ ~Present(seen[r]) => r \in Updated(Route)
        BY <2>5
      <4> QED
        BY <2>2, <2>5, <2>7, <2>9, <3>1, <4>1
    <3>4. ASSUME cached'[r] # NoRouter
          PROVE  r \in updatedRoutes' /\ Has(r, cached[r].rule)'
      <4>1. /\ cached'[r] = cached[r] /\ r \notin reported /\ r \notin Removed(Route) /\ r \notin picked
        BY <2>2, <3>4 DEF DropCached
      <4>2. r \in updatedRoutes /\ Has(r, cached[r].rule)
        BY <3>1, <3>4, <4>1
      <4>3. r \in updatedRoutes'
        BY <2>2, <2>9, <4>1, <4>2
      <4>4. Present(seen'[r]) => Present(seen[r]) /\ seen'[r].version = seen[r].version
        BY <2>5, <2>9, <4>1
      <4>5. ASSUME r \notin overlooked'
            PROVE  cached[r].rule.sql >= seen'[r].sql
        <5>1. r \notin overlooked /\ r \notin SqlOverlooked
          BY <2>O, <4>1, <4>5
        <5>2. CASE live[r] # NoRouter
          BY <2>5, <2>9, <4>1, <4>2, <5>1, <5>2 DEF SqlUpdated, Has
        <5>3. CASE live[r] = NoRouter
          <6>1. ~(cached[r].rule.sql < file[r].sql)
            BY <3>4, <4>1, <5>1, <5>3 DEF SqlOverlooked
          <6>2. cached[r].rule.sql \in Nat /\ file[r].sql \in Nat
            BY <1>0, <1>F DEF TypeOK, Router, Content
          <6> QED BY <2>5, <6>1, <6>2
        <5> QED BY <5>2, <5>3
      <4> QED
        BY <4>1, <4>2, <4>3, <4>4, <4>5 DEF Has
    <3> QED
      BY <3>2, <3>3, <3>4
  <2>11. NothingLost'
    <3>1. ASSUME NEW d \in Resource
          PROVE  \/ d \in updatedRes'
                 \/ Present(seen'[d]) => Covers(resources'[d], seen'[d])
      BY <2>4, <2>6 DEF SyncInv, NothingLost
    <3>2. ASSUME NEW r \in Route, r \notin updatedRoutes', r \notin deletedRoutes'
          PROVE  (\/ (Present(seen[r]) \/ r \in overlooked) /\ Has(r, live[r].rule)
                  \/ ~Present(seen[r]) /\ live[r] = NoRouter)'
      <4>1. /\ r \notin reported /\ r \notin Removed(Route) /\ r \notin Updated(Route)
            /\ r \notin updatedRoutes /\ r \notin deletedRoutes /\ r \notin picked
        BY <2>2, <2>9, <3>2
      <4>2. \/ (Present(seen[r]) \/ r \in overlooked) /\ Has(r, live[r].rule)
            \/ ~Present(seen[r]) /\ live[r] = NoRouter
        BY <4>1 DEF SyncInv, NothingLost
      <4>K. r \in overlooked => r \in overlooked'
        BY <2>O, <4>1
      <4>3. CASE Present(file[r])
        <5>1. Present(seen[r]) /\ seen'[r].version = seen[r].version
          BY <2>5, <4>1, <4>3
        <5>2. live[r] # NoRouter
          <6>1. seen[r].version \in Nat /\ seen[r].version # 0
            BY <1>0, <1>F, <5>1 DEF SeenVersions, TypeOK, Content
          <6> QED BY <4>2, <5>1, <6>1 DEF Has, NoRouter, NoFile
        <5>3. seen'[r].sql = seen[r].sql
          BY <2>5, <2>9, <4>1, <5>2 DEF SqlUpdated
        <5>4. Has(r, live[r].rule)'
          BY <2>4, <4>2, <4>K, <5>1, <5>3 DEF Has
        <5> QED
          BY <2>5, <4>3, <5>4
      <4>4. CASE ~Present(file[r])
        <5>1. ~Present(seen'[r])
          BY <2>5, <4>4
        <5>2. r \in overlooked' => Has(r, live[r].rule)'
          BY <5>1 DEF Has
        <5> QED
          BY <2>4, <2>5, <4>1, <4>2, <4>4, <4>K, <5>1, <5>2
      <4> QED
        BY <4>3, <4>4
    <3> QED
      BY <3>1, <3>2 DEF NothingLost
  <2>12. ResultComplete'
    BY <2>4, <2>6 DEF SyncInv, ResultComplete
  <2>13. RoutersComplete'
    BY <2>4, <2>10 DEF RoutersComplete, SessionAccurate
  <2> QED
    BY <1>0, <2>8, <2>10, <2>11, <2>12, <2>13 DEF SyncInv
<1>10. ASSUME NEW r \in Route, LoadRoute(r) PROVE SyncInv'
  <2>1. /\ UNCHANGED <<file, seen, overlooked, phase, updatedRes, updatedRoutes, deletedRoutes,
                       resources, live, result>>
        /\ phase = "loadRoutes" /\ loading' = loading \ {r} /\ r \in loading
    BY <1>10 DEF LoadRoute, published
  <2>2. NothingLost' /\ NoSqlOfResources' /\ ResultComplete'
    BY <2>1 DEF SyncInv, NothingLost, NoSqlOfResources, ResultComplete, Has
  <2>3. r \in updatedRoutes /\ r \notin deletedRoutes
    BY <2>1 DEF SyncInv, RoutersComplete, SessionAccurate
  <2>4. /\ \A q \in Route \ {r} : cached'[q] = cached[q] /\ routers'[q] = routers[q]
        /\ failed => failed'
    BY <1>0, <1>10 DEF LoadRoute, LoadCached, LoadNew, LoadFails, TypeOK
  <2>5. Has(r, file[r])
    BY <1>0, <1>F DEF SeenVersions, Covers, Has
  <2>6. cached'[r] # NoRouter => Has(r, cached'[r].rule)
    <3>1. cached'[r] = cached[r] \/ cached'[r].rule = file[r]
      BY <1>0, <1>10 DEF LoadRoute, LoadCached, LoadNew, LoadFails, TypeOK
    <3> QED
      BY <2>5, <3>1 DEF SyncInv, SessionAccurate
  <2>7. failed' \/ Has(r, routers'[r].rule)
    <3>1. CASE LoadCached(r)
      <4>1. routers'[r] = cached[r]
        BY <1>0, <3>1 DEF LoadCached, TypeOK
      <4> QED
        BY <3>1, <4>1 DEF LoadCached, SyncInv, SessionAccurate
    <3>2. CASE LoadNew(r)
      <4>1. failed' \/ routers'[r].rule = file[r]
        BY <1>0, <3>2 DEF LoadNew, TypeOK
      <4> QED
        BY <2>5, <4>1
    <3>3. CASE LoadFails(r)
      BY <3>3 DEF LoadFails
    <3> QED
      BY <1>10, <3>1, <3>2, <3>3 DEF LoadRoute
  <2>8. SessionAccurate'
    BY <2>1, <2>3, <2>4, <2>6 DEF SyncInv, SessionAccurate, Has
  <2>9. RoutersComplete'
    BY <2>1, <2>3, <2>4, <2>7 DEF SyncInv, RoutersComplete, Has
  <2> QED
    BY <1>0, <2>2, <2>8, <2>9 DEF SyncInv
<1>11. CASE RoutesFailed
  BY <1>0, <1>11, <1>S, FilesChange DEF RoutesFailed, PollEnds, disk, session
<1>12. CASE Publish
  <2>1. /\ phase = "loadRoutes" /\ loading = {} /\ ~failed /\ phase' = "sleep"
        /\ live' = routers /\ resources' = result /\ UNCHANGED <<file, seen, overlooked>>
        /\ updatedRes' = {} /\ updatedRoutes' = {} /\ deletedRoutes' = {}
        /\ cached' = NothingCached
    BY <1>12 DEF Publish, PollEnds, ForgetSession, disk
  <2>2. NothingLost'
    BY <2>1 DEF SyncInv, NothingLost, RoutersComplete, ResultComplete, SessionAccurate, Has
  <2>3. SessionAccurate' /\ ResultComplete' /\ RoutersComplete' /\ NoSqlOfResources'
    BY <2>1 DEF SyncInv, NoSqlOfResources, SessionAccurate, ResultComplete, RoutersComplete, NothingCached
  <2> QED
    BY <1>0, <2>2, <2>3 DEF SyncInv
<1>13. CASE Wake
  BY <1>0, <1>13, <1>S, FilesChange DEF Wake, disk, session
<1>14. CASE UNCHANGED vars
  BY <1>0, <1>14, <1>S, FilesChange DEF vars, disk, session
<1> QED
  BY <1>1, <1>2, <1>3, <1>4, <1>5, <1>6, <1>7, <1>8, <1>9, <1>10, <1>11, <1>12, <1>13,
     <1>14 DEF Next, Poll, Environment

\* A change that a tracker reported is in the published routers and resources or still in the
\* session of the next poll (createRouterIfNeeded, Session), but for changes of SQL of rules that
\* waited in the session or were gone.
THEOREM ChangesNotLost == Spec => []SyncSound
<1>1. Init => SyncInv
  BY InitInv
<1>2. SyncInv /\ [Next]_vars => SyncInv'
  BY StepInv
<1>3. SyncInv => SyncSound
  BY DEF SyncInv, SyncSound
<1> QED
  BY <1>1, <1>2, <1>3, PTL DEF Spec
=============================================================================
