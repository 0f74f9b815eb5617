------------------------------- MODULE DbPool -------------------------------
(***************************************************************************)
(* Database connections: Connector.DB, the registry of connections by      *)
(* their configuration (dbRegistry) and the goroutine that pings each of   *)
(* them (db.keepConnectionAlive). A goroutine that needs a database calls  *)
(* Connector.DB once.                                                      *)
(***************************************************************************)
EXTENDS Integers, FiniteSets

CONSTANTS
  Caller,       \* goroutines that ask for a database
  Connector,
  ConnectorOf,  \* caller -> the connector it asks
  Key,          \* what dbRegistry.DB makes of a configuration, a driver and a DSN
  KeyOf,        \* connector -> its key
  MayFailSecret,  \* connectors whose secret may not be loaded
  BadDsn,       \* keys that sql.Open may refuse, as the driver finds the DSN
  MayBeSilent,  \* keys whose database may not answer a ping
  MaxOpen       \* bound: connections opened for one key

ASSUME PoolAssumption ==
  /\ IsFiniteSet(Caller)
  /\ ConnectorOf \in [Caller -> Connector] /\ KeyOf \in [Connector -> Key]
  /\ MayFailSecret \subseteq Connector /\ BadDsn \subseteq Key /\ MayBeSilent \subseteq Key
  /\ MaxOpen \in Nat \ {0}

VARIABLES
  step,     \* caller -> where it is in Connector.DB
  got,      \* caller -> the connection it got, 0 if it got an error
  known,    \* connectors whose db is set
  mux,      \* connectors whose mutex is held
  actual,   \* key -> its connection (db.actual), 0 if nil
  opened,   \* key -> connections opened for it so far
  failed,   \* key -> pings that failed so far
  pinger,   \* key -> where the goroutine of the key is; "none" before it is registered
  seen,     \* key -> the connection its goroutine pings, 0 when it does not
  crashed   \* a nil connection was pinged: the process has ended

poolVars == <<step, got, known, mux, actual, opened, failed, pinger, seen, crashed>>

Connection == 0..MaxOpen

PoolTypeOK ==
  /\ step \in [Caller -> {"start", "resolve", "locked", "connect", "done"}]
  /\ got \in [Caller -> Connection]
  /\ known \subseteq Connector /\ mux \subseteq Connector
  /\ actual \in [Key -> Connection] /\ opened \in [Key -> Connection]
  /\ failed \in [Key -> Nat] /\ seen \in [Key -> Connection]
  /\ pinger \in [Key -> {"none", "sleep", "ping", "open", "check"}]
  /\ crashed \in BOOLEAN

PoolInit ==
  /\ step = [t \in Caller |-> "start"] /\ got = [t \in Caller |-> 0]
  /\ known = {} /\ mux = {}
  /\ actual = [k \in Key |-> 0] /\ opened = actual /\ failed = actual /\ seen = actual
  /\ pinger = [k \in Key |-> "none"] /\ crashed = FALSE

Goto(t, label) == step' = [step EXCEPT ![t] = label]

\* sql.Open: a new connection, or nil. It connects only when used.
Open(k) ==
  \/ k \in BadDsn /\ actual' = [actual EXCEPT ![k] = 0] /\ UNCHANGED opened
  \/ /\ actual' = [actual EXCEPT ![k] = opened[k] + 1]
     /\ opened' = [opened EXCEPT ![k] = @ + 1]

-----------------------------------------------------------------------------
(* Connector.DB.                                                           *)

\* db is read without the mutex.
AskDB(t) ==
  LET c == ConnectorOf[t] IN
  /\ step[t] = "start"
  /\ \/ c \in known /\ Goto(t, "connect")
     \/ c \notin known /\ Goto(t, "resolve")
     \/ c \notin known /\ c \in MayFailSecret /\ Goto(t, "done")
  /\ UNCHANGED <<got, known, mux, actual, opened, failed, pinger, seen, crashed>>

\* A faulty variant: a key that is registered is opened again.
RegisterAgain(k) == Open(k) /\ pinger' = [pinger EXCEPT ![k] = "sleep"]

\* dbRegistry.getItem, under the mutex of the registry.
Register(k) ==
  \/ pinger[k] # "none" /\ UNCHANGED <<actual, opened, pinger>>
  \/ pinger[k] = "none" /\ Open(k) /\ pinger' = [pinger EXCEPT ![k] = "sleep"]

ResolveDB(t) ==
  LET c == ConnectorOf[t] IN
  /\ step[t] = "resolve" /\ c \notin mux
  /\ Register(KeyOf[c])
  /\ known' = known \cup {c} /\ mux' = mux \cup {c}
  /\ Goto(t, "locked")
  /\ UNCHANGED <<got, failed, seen, crashed>>

\* db.connect; the mutex of the connector is held if this caller has set db.
ConnectDB(t) ==
  LET c == ConnectorOf[t] IN
  /\ step[t] \in {"locked", "connect"}
  /\ got' = [got EXCEPT ![t] = actual[KeyOf[c]]]
  /\ mux' = IF step[t] = "locked" THEN mux \ {c} ELSE mux
  /\ Goto(t, "done")
  /\ UNCHANGED <<known, actual, opened, failed, pinger, seen, crashed>>

CallDB(t) == AskDB(t) \/ ResolveDB(t) \/ ConnectDB(t)

-----------------------------------------------------------------------------
(* db.keepConnectionAlive.                                                 *)

Ping(k, label) == pinger' = [pinger EXCEPT ![k] = label]

Wakes(k) ==
  /\ pinger[k] = "sleep" /\ Ping(k, "ping")
  /\ seen' = [seen EXCEPT ![k] = actual[k]]
  /\ UNCHANGED <<step, got, known, mux, actual, opened, failed, crashed>>

PingAnswered(k) ==
  /\ pinger[k] = "ping" /\ seen[k] # 0 /\ Ping(k, "sleep")
  /\ seen' = [seen EXCEPT ![k] = 0]
  /\ UNCHANGED <<step, got, known, mux, actual, opened, failed, crashed>>

\* A faulty variant: the connection that failed is dropped at once.
PingDrops(k) ==
  /\ pinger[k] = "ping" /\ (k \in MayBeSilent \/ seen[k] = 0)
  /\ opened[k] < MaxOpen /\ Ping(k, "open")
  /\ failed' = [failed EXCEPT ![k] = @ + 1] /\ actual' = [actual EXCEPT ![k] = 0]
  /\ seen' = [seen EXCEPT ![k] = 0]
  /\ UNCHANGED <<step, got, known, mux, opened, crashed>>

\* The database does not answer, or there is no connection.
PingFails(k) ==
  /\ pinger[k] = "ping" /\ (k \in MayBeSilent \/ seen[k] = 0)
  /\ opened[k] < MaxOpen /\ Ping(k, "open")
  /\ failed' = [failed EXCEPT ![k] = @ + 1]
  /\ seen' = [seen EXCEPT ![k] = 0]
  /\ UNCHANGED <<step, got, known, mux, actual, opened, crashed>>

\* The connection that failed stays open.
Reopens(k) ==
  /\ pinger[k] = "open" /\ Ping(k, "check")
  /\ Open(k)
  /\ UNCHANGED <<step, got, known, mux, failed, seen, crashed>>

\* The new connection is pinged, and must not be nil for that.
PingsNew(k) ==
  /\ pinger[k] = "check" /\ Ping(k, "sleep")
  /\ crashed' = (actual[k] = 0)
  /\ UNCHANGED <<step, got, known, mux, actual, opened, failed, seen>>

KeepAlive(k) == Wakes(k) \/ PingAnswered(k) \/ PingFails(k) \/ Reopens(k) \/ PingsNew(k)

-----------------------------------------------------------------------------
(* Properties.                                                             *)

\* "the connection is shared" (Connector.DB): connectors with the same configuration
\* use one connection, and another is opened only for a ping that failed.
ConnectionShared ==
  \A k \in Key \ BadDsn :
    opened[k] = (IF pinger[k] = "none" THEN 0 ELSE 1)
                + failed[k] - (IF pinger[k] = "open" THEN 1 ELSE 0)

\* A caller of a connector with a sound DSN and secret gets a connection, whoever
\* registers, looks up or reopens it meanwhile.
AlwaysConnected ==
  \A t \in Caller :
    LET c == ConnectorOf[t] IN
    step[t] = "done" /\ c \notin MayFailSecret /\ KeyOf[c] \notin BadDsn => got[t] # 0

\* A connection is there for each caller, and is the one that all share.
PoolSound == ConnectionShared /\ AlwaysConnected
=============================================================================
