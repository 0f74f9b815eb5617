---------------------------- MODULE WarmupProofs ----------------------------
(***************************************************************************)
(* Theorems about Warmup and the pool it asks for databases, for any       *)
(* number of views, cases, connectors and connections.                     *)
(***************************************************************************)
EXTENDS Warmup, FiniteSetTheorems, TLAPS

(***************************************************************************)
(* The pool: a key that is registered has a connection unless its DSN is   *)
(* bad, and a connector that is known is registered.                       *)
(***************************************************************************)
Registered ==
  /\ \A k \in Key : pinger[k] = "none" => opened[k] = 0
  /\ \A k \in Key \ BadDsn : pinger[k] # "none" => actual[k] # 0
  /\ \A c \in known : pinger[KeyOf[c]] # "none"

\* A goroutine that may connect has found its connector, or has made it known.
Asked == \A t \in Caller : step[t] \in {"locked", "connect"} => ConnectorOf[t] \in known

\* There is room for the connection that a failed ping opens.
Room == \A k \in Key : pinger[k] = "open" => opened[k] < MaxOpen

PoolInv == PoolTypeOK /\ Registered /\ Asked /\ Room /\ PoolSound

\* Initially nothing is registered and nobody has asked.
LEMMA PoolInitInv == PoolInit => PoolInv
<1> SUFFICES ASSUME PoolInit PROVE PoolInv
  OBVIOUS
<1>1. 0 \in Connection
  BY PoolAssumption DEF Connection
<1>2. PoolTypeOK
  BY <1>1 DEF PoolInit, PoolTypeOK
<1>3. Registered /\ Asked /\ Room
  BY PoolAssumption DEF PoolInit, Registered, Asked, Room
<1>4. ConnectionShared /\ AlwaysConnected
  BY DEF PoolInit, ConnectionShared, AlwaysConnected
<1> QED BY <1>2, <1>3, <1>4 DEF PoolInv, PoolSound

\* Opening a connection for a key leaves one, unless its DSN is bad.
LEMMA Opens ==
  ASSUME PoolTypeOK, NEW k \in Key, opened[k] < MaxOpen, Open(k)
  PROVE  /\ actual' \in [Key -> Connection] /\ opened' \in [Key -> Connection]
         /\ \A j \in Key \ {k} : actual'[j] = actual[j] /\ opened'[j] = opened[j]
         /\ opened'[k] \in {opened[k], opened[k] + 1}
         /\ k \notin BadDsn => actual'[k] # 0 /\ opened'[k] = opened[k] + 1
  BY PoolAssumption DEF PoolTypeOK, Connection, Open

\* Asking for a database and connecting change no key (Connector.DB).
LEMMA CallKeeps ==
  ASSUME PoolInv, NEW t \in Caller, AskDB(t) \/ ConnectDB(t)
  PROVE  PoolInv'
<1> USE PoolAssumption DEF PoolInv
<1>1. CASE AskDB(t)
  <2>1. PoolTypeOK'
    BY <1>1 DEF AskDB, Goto, PoolTypeOK
  <2>2. Registered' /\ Room' /\ ConnectionShared'
    BY <1>1 DEF AskDB, Registered, Room, PoolSound, ConnectionShared
  <2>3. Asked'
    BY <1>1 DEF AskDB, Goto, Asked, PoolTypeOK
  <2>4. AlwaysConnected'
    BY <1>1 DEF AskDB, Goto, PoolSound, AlwaysConnected, PoolTypeOK
  <2> QED BY <2>1, <2>2, <2>3, <2>4 DEF PoolSound
<1>2. CASE ConnectDB(t)
  <2>1. PoolTypeOK'
    BY <1>2 DEF ConnectDB, Goto, PoolTypeOK
  <2>2. Registered' /\ Room' /\ ConnectionShared'
    BY <1>2 DEF ConnectDB, Registered, Room, PoolSound, ConnectionShared
  <2>3. Asked'
    BY <1>2 DEF ConnectDB, Goto, Asked, PoolTypeOK
  <2>4. KeyOf[ConnectorOf[t]] \notin BadDsn => actual[KeyOf[ConnectorOf[t]]] # 0
    BY <1>2 DEF ConnectDB, Asked, Registered, PoolTypeOK
  <2>5. AlwaysConnected'
    BY <1>2, <2>4 DEF ConnectDB, Goto, PoolSound, AlwaysConnected, PoolTypeOK
  <2> QED BY <2>1, <2>2, <2>3, <2>5 DEF PoolSound
<1> QED BY <1>1, <1>2

\* A key is registered once, whichever of the connectors with its configuration comes
\* first (dbRegistry.getItem).
LEMMA ResolveKeeps ==
  ASSUME PoolInv, NEW t \in Caller, ResolveDB(t)
  PROVE  PoolInv'
<1> USE PoolAssumption DEF PoolInv
<1> DEFINE c == ConnectorOf[t]
           key == KeyOf[c]
<1>1. c \in Connector /\ key \in Key
  OBVIOUS
<1>2. CASE pinger[key] # "none" /\ UNCHANGED <<actual, opened, pinger>>
  <2>1. PoolTypeOK'
    BY <1>1, <1>2 DEF ResolveDB, Goto, PoolTypeOK
  <2>2. Registered' /\ Room' /\ ConnectionShared'
    BY <1>2 DEF ResolveDB, Registered, Room, PoolSound, ConnectionShared
  <2>3. Asked'
    BY <1>2 DEF ResolveDB, Goto, Asked, PoolTypeOK
  <2>4. AlwaysConnected'
    BY <1>2 DEF ResolveDB, Goto, PoolSound, AlwaysConnected, PoolTypeOK
  <2> QED BY <2>1, <2>2, <2>3, <2>4 DEF PoolSound
<1>3. CASE pinger[key] = "none" /\ Open(key) /\ pinger' = [pinger EXCEPT ![key] = "sleep"]
  <2>1. opened[key] = 0 /\ opened[key] < MaxOpen
    BY <1>1, <1>3 DEF Registered
  <2>2. /\ actual' \in [Key -> Connection] /\ opened' \in [Key -> Connection]
        /\ \A j \in Key \ {key} : actual'[j] = actual[j] /\ opened'[j] = opened[j]
        /\ key \notin BadDsn => actual'[key] # 0 /\ opened'[key] = opened[key] + 1
    BY <1>1, <1>3, <2>1, Opens
  <2>3. PoolTypeOK'
    BY <1>1, <1>3, <2>2 DEF ResolveDB, Goto, PoolTypeOK
  <2>4. Registered'
    BY <1>1, <1>3, <2>2 DEF ResolveDB, Registered, PoolTypeOK
  <2>5. Room' /\ Asked'
    BY <1>1, <1>3, <2>2 DEF ResolveDB, Goto, Room, Asked, PoolTypeOK
  <2>6. ConnectionShared'
    <3> SUFFICES ASSUME NEW k \in Key \ BadDsn
                 PROVE opened'[k] = (IF pinger'[k] = "none" THEN 0 ELSE 1)
                         + failed'[k] - (IF pinger'[k] = "open" THEN 1 ELSE 0)
      BY DEF ConnectionShared
    <3>1. opened[k] = (IF pinger[k] = "none" THEN 0 ELSE 1)
                         + failed[k] - (IF pinger[k] = "open" THEN 1 ELSE 0)
      BY DEF PoolSound, ConnectionShared
    <3>2. CASE k # key
      BY <1>1, <1>3, <2>2, <3>1, <3>2 DEF ResolveDB, PoolTypeOK
    <3>3. CASE k = key
      BY <1>1, <1>3, <2>1, <2>2, <3>1, <3>3 DEF ResolveDB, PoolTypeOK, Connection
    <3> QED BY <3>2, <3>3
  <2>7. AlwaysConnected'
    BY <1>3 DEF ResolveDB, Goto, PoolSound, AlwaysConnected, PoolTypeOK
  <2> QED BY <2>3, <2>4, <2>5, <2>6, <2>7 DEF PoolSound
<1> QED BY <1>2, <1>3 DEF ResolveDB, Register

\* The goroutine of a key drops no connection, and opens one for each ping that failed
\* (db.keepConnectionAlive).
LEMMA KeepAliveKeeps ==
  ASSUME PoolInv, NEW k \in Key, KeepAlive(k)
  PROVE  PoolInv'
<1> USE PoolAssumption DEF PoolInv
<1>1. /\ UNCHANGED <<step, got, known, mux>>
      /\ \A j \in Key \ {k} : /\ pinger'[j] = pinger[j] /\ actual'[j] = actual[j]
                              /\ opened'[j] = opened[j] /\ failed'[j] = failed[j]
  BY DEF KeepAlive, Wakes, PingAnswered, PingFails, Reopens, PingsNew, Ping, Open, PoolTypeOK
<1>2. Asked' /\ AlwaysConnected'
  BY <1>1 DEF Asked, PoolSound, AlwaysConnected
<1>3. SUFFICES /\ PoolTypeOK' /\ pinger[k] # "none" /\ pinger'[k] # "none"
               /\ k \notin BadDsn => actual'[k] # 0
               /\ pinger'[k] = "open" => opened'[k] < MaxOpen
               /\ k \notin BadDsn =>
                    opened'[k] = 1 + failed'[k] - (IF pinger'[k] = "open" THEN 1 ELSE 0)
  <2>1. Registered' /\ Room'
    BY <1>1, <1>3 DEF Registered, Room, PoolTypeOK
  <2>2. ConnectionShared'
    BY <1>1, <1>3 DEF PoolSound, ConnectionShared
  <2> QED BY <1>2, <1>3, <2>1, <2>2 DEF PoolSound
<1>4. k \notin BadDsn => opened[k] = (IF pinger[k] = "none" THEN 0 ELSE 1)
                         + failed[k] - (IF pinger[k] = "open" THEN 1 ELSE 0)
  BY DEF PoolSound, ConnectionShared
<1>5. CASE Wakes(k)
  BY <1>4, <1>5 DEF Wakes, Ping, PoolTypeOK, Registered
<1>6. CASE PingAnswered(k)
  BY <1>4, <1>6 DEF PingAnswered, Ping, PoolTypeOK, Registered, Connection
<1>7. CASE PingFails(k)
  BY <1>4, <1>7 DEF PingFails, Ping, PoolTypeOK, Registered, Connection
<1>8. CASE Reopens(k)
  <2>1. opened[k] < MaxOpen
    BY <1>8 DEF Reopens, Room
  <2>2. /\ actual' \in [Key -> Connection] /\ opened' \in [Key -> Connection]
        /\ k \notin BadDsn => actual'[k] # 0 /\ opened'[k] = opened[k] + 1
    BY <1>8, <2>1, Opens DEF Reopens
  <2>3. pinger[k] = "open" /\ pinger'[k] = "check" /\ failed' = failed
    BY <1>8 DEF Reopens, Ping, PoolTypeOK
  <2>4. PoolTypeOK'
    BY <1>8, <2>2 DEF Reopens, Ping, PoolTypeOK
  <2>5. k \notin BadDsn => opened'[k] = 1 + failed'[k]
    BY <1>4, <2>2, <2>3 DEF PoolTypeOK
  <2> QED BY <2>2, <2>3, <2>4, <2>5 DEF PoolTypeOK
<1>9. CASE PingsNew(k)
  BY <1>4, <1>9 DEF PingsNew, Ping, PoolTypeOK, Registered
<1> QED BY <1>5, <1>6, <1>7, <1>8, <1>9 DEF KeepAlive

\* Steps that leave the pool alone keep it.
LEMMA PoolUntouched == PoolInv /\ UNCHANGED poolVars => PoolInv'
  BY DEF poolVars, PoolInv, PoolTypeOK, Registered, Asked, Room, PoolSound, ConnectionShared,
     AlwaysConnected

\* A step of the warm-up keeps the pool.
LEMMA PoolNext ==
  ASSUME PoolInv, reading \subseteq Caller, [Next]_vars
  PROVE  PoolInv'
<1>1. CASE Generate
  BY <1>1, PoolUntouched DEF Generate, CaseFails, AppendSelector, Generated, GenerateFails, poolVars
<1>2. CASE \E v \in View : Notify(v)
  BY <1>2, PoolUntouched DEF Notify, poolVars
<1>3. CASE \E entry \in sending : Collect(entry)
  BY <1>3, PoolUntouched DEF Collect, poolVars
<1>4. CASE \E entry \in reading : Index(entry)
  BY <1>4, PoolUntouched DEF Index, poolVars
<1>5. ASSUME NEW entry \in reading, ReadDB(entry) PROVE PoolInv'
  BY <1>5, CallKeeps, ResolveKeeps DEF ReadDB, CallDB
<1>6. CASE Pinging
  BY <1>6, KeepAliveKeeps DEF Pinging
<1>7. CASE UNCHANGED vars
  BY <1>7, PoolUntouched DEF vars
<1> QED BY <1>1, <1>2, <1>3, <1>4, <1>5, <1>6, <1>7 DEF Next, Populate

-----------------------------------------------------------------------------
(***************************************************************************)
(* The enumeration of a case: combinations come in lexicographic order, so *)
(* what it has produced is what comes before the one it is at.             *)
(***************************************************************************)

\* One combination comes before another: less where they first differ.
Before(a, b, k) ==
  \E i \in DOMAIN Sizes[k] :
    a[i] < b[i] /\ \A j \in DOMAIN Sizes[k] : j < i => a[j] = b[j]

SeenOf(k) == {inputs[k][n] : n \in DOMAIN inputs[k]}

EnumTypes ==
  /\ case \in [Case -> {"run", "sent", "failed"}]
  /\ DOMAIN cursor = Case /\ DOMAIN inputs = Case
  /\ \A k \in Case : cursor[k] \in Combinations(k) \cup {First(k)} /\ inputs[k] \in Seq(Combinations(k))

EnumOnce == \A k \in Case : \A m, n \in DOMAIN inputs[k] : inputs[k][m] = inputs[k][n] => m = n

EnumInv ==
  /\ EnumTypes /\ EnumOnce
  /\ \A k \in Case : case[k] = "run" =>
       SeenOf(k) = {at \in Combinations(k) : Before(at, cursor[k], k)}
  /\ \A k \in Case : case[k] = "sent" => SeenOf(k) = Combinations(k)

\* A combination is a function from the parameters of the case to positions of their values.
LEMMA CombinationIs ==
  ASSUME NEW k \in Case, NEW at
  PROVE  at \in Combinations(k) <=>
           /\ Sizes[k] # <<>>
           /\ at = [i \in DOMAIN Sizes[k] |-> at[i]]
           /\ \A i \in DOMAIN Sizes[k] : at[i] \in 1..Sizes[k][i]
<1> DEFINE Positions == UNION {1..Sizes[k][i] : i \in DOMAIN Sizes[k]}
<1>1. \A i \in DOMAIN Sizes[k] : Sizes[k][i] \in Nat
  BY WarmupAssumption
<1>2. at \in Combinations(k) <=>
        /\ Sizes[k] # <<>> /\ at \in [DOMAIN Sizes[k] -> Positions]
        /\ \A i \in DOMAIN at : at[i] <= Sizes[k][i]
  BY DEF Combinations
<1>3. ASSUME at \in [DOMAIN Sizes[k] -> Positions], \A i \in DOMAIN at : at[i] <= Sizes[k][i],
             NEW i \in DOMAIN Sizes[k]
      PROVE  at[i] \in 1..Sizes[k][i]
  <2>1. PICK j \in DOMAIN Sizes[k] : at[i] \in 1..Sizes[k][j]
    BY <1>3
  <2> QED BY <1>1, <1>3, <2>1
<1>4. ASSUME at = [i \in DOMAIN Sizes[k] |-> at[i]], \A i \in DOMAIN Sizes[k] : at[i] \in 1..Sizes[k][i]
      PROVE  at \in [DOMAIN Sizes[k] -> Positions] /\ \A i \in DOMAIN at : at[i] <= Sizes[k][i]
  BY <1>1, <1>4
<1> QED BY <1>2, <1>3, <1>4

\* A set of naturals that is not empty has a least element.
LEMMA LeastNatural ==
  ASSUME NEW S \in SUBSET Nat, S # {}
  PROVE  \E x \in S : \A y \in S : x <= y
<1>1. PICK less : less = {ss \in Nat \X Nat : ss[1] < ss[2]}
  OBVIOUS
<1>2. IsWellFoundedOn(less, Nat)
  BY <1>1, NatLessThanWellFounded, Zenon DEF OpToRel
<1>3. PICK x \in S : \A y \in S : ~(<<y, x>> \in less)
  BY <1>2, WFMin, Zenon
<1>4. \A y \in Nat : y < x => <<y, x>> \in less
  BY <1>1
<1>5. \A y \in S : ~(y < x)
  BY <1>3, <1>4
<1> QED BY <1>5

\* The greatest of some positions is one of them.
LEMMA GreatestPosition ==
  ASSUME NEW n \in Nat, NEW S \in SUBSET (1..n), S # {}
  PROVE  Max(S) \in S /\ \A y \in S : Max(S) >= y
<1> DEFINE T == {m \in Nat : n - m \in S}
<1>1. PICK y \in S : TRUE
  OBVIOUS
<1>2. n - y \in T
  BY <1>1
<1>3. PICK x \in T : \A z \in T : x <= z
  <2> HIDE DEF T
  <2>1. T \in SUBSET Nat
    BY DEF T
  <2> QED BY <1>2, <2>1, LeastNatural
<1>4. n - x \in S /\ \A z \in S : n - x >= z
  <2>1. \A z \in S : n - z \in T
    OBVIOUS
  <2> QED BY <1>3, <2>1
<1> QED BY <1>4 DEF Max

\* Two combinations differ at a first position.
LEMMA FirstDifference ==
  ASSUME NEW k \in Case, NEW a \in Combinations(k), NEW b \in Combinations(k), a # b
  PROVE  \E d \in DOMAIN Sizes[k] :
           a[d] # b[d] /\ \A j \in DOMAIN Sizes[k] : j < d => a[j] = b[j]
<1> DEFINE differ == {i \in DOMAIN Sizes[k] : a[i] # b[i]}
<1>1. DOMAIN Sizes[k] \subseteq Nat
  BY WarmupAssumption
<1>2. differ # {}
  BY CombinationIs
<1>3. PICK d \in differ : \A j \in differ : d <= j
  <2>1. differ \in SUBSET Nat
    BY <1>1
  <2> QED BY <1>2, <2>1, LeastNatural
<1>4. \A j \in DOMAIN Sizes[k] : j < d => j \notin differ
  BY <1>1, <1>3
<1> QED BY <1>3, <1>4

\* The last combination comes after all others.
LEMMA LastOfAll ==
  ASSUME NEW k \in Case, NEW a \in Combinations(k), NEW b \in Combinations(k),
         \A i \in DOMAIN Sizes[k] : ~(b[i] < Sizes[k][i])
  PROVE  a = b \/ Before(a, b, k)
<1>1. SUFFICES ASSUME a # b PROVE Before(a, b, k)
  OBVIOUS
<1>2. PICK d \in DOMAIN Sizes[k] : a[d] # b[d] /\ \A j \in DOMAIN Sizes[k] : j < d => a[j] = b[j]
  BY <1>1, FirstDifference
<1>3. Sizes[k][d] \in Nat /\ a[d] \in 1..Sizes[k][d] /\ b[d] \in 1..Sizes[k][d]
  BY CombinationIs, WarmupAssumption
<1>4. a[d] < b[d]
  BY <1>2, <1>3
<1> QED BY <1>2, <1>4 DEF Before

\* The combination that follows is the next one: before it come the current one and what
\* came before that (appendSelectors).
LEMMA FollowingIsNext ==
  ASSUME NEW k \in Case, cursor[k] \in Combinations(k), NEW i \in DOMAIN Sizes[k],
         cursor[k][i] < Sizes[k][i],
         \A j \in DOMAIN Sizes[k] : j > i => ~(cursor[k][j] < Sizes[k][j])
  PROVE  /\ Following(k, i) \in Combinations(k)
         /\ \A at \in Combinations(k) :
              Before(at, Following(k, i), k) <=> at = cursor[k] \/ Before(at, cursor[k], k)
<1> DEFINE here == cursor[k]
           next == Following(k, i)
<1>1. /\ DOMAIN Sizes[k] \subseteq Nat /\ \A j \in DOMAIN Sizes[k] : Sizes[k][j] \in Nat
      /\ DOMAIN here = DOMAIN Sizes[k] /\ Sizes[k] # <<>>
      /\ \A j \in DOMAIN Sizes[k] : here[j] \in 1..Sizes[k][j]
  BY CombinationIs, WarmupAssumption
<1>2. /\ next = [j \in DOMAIN Sizes[k] |-> next[j]]
      /\ \A j \in DOMAIN Sizes[k] :
           next[j] = IF j < i THEN here[j] ELSE IF j = i THEN here[j] + 1 ELSE 1
  BY <1>1 DEF Following
<1>3. next \in Combinations(k)
  <2>1. \A j \in DOMAIN Sizes[k] : next[j] \in 1..Sizes[k][j]
    BY <1>1, <1>2
  <2> HIDE DEF next
  <2> QED BY <1>1, <1>2, <2>1, CombinationIs
<1> DEFINE Param == DOMAIN Sizes[k]
<1>5. \A j \in Param : j \in Nat /\ here[j] \in Nat
  <2>1. \A j \in Param : Sizes[k][j] \in Nat /\ here[j] \in 1..Sizes[k][j]
    BY <1>1
  <2> QED BY <1>1, <2>1
<1>6. /\ \A j \in Param : j < i => next[j] = here[j]
      /\ next[i] = here[i] + 1
      /\ \A j \in Param : j > i => next[j] = 1
  BY <1>2, <1>5
<1>7. i \in Param
  OBVIOUS
<1>8. \A j \in Param : here[j] \in 1..Sizes[k][j]
  BY <1>1
<1> HIDE DEF here, next, Param
<1>9. ASSUME NEW at \in Combinations(k) PROVE Before(at, next, k) <=> at = here \/ Before(at, here, k)
  <2>1. \A j \in Param : at[j] \in 1..Sizes[k][j] /\ Sizes[k][j] \in Nat
    BY CombinationIs, WarmupAssumption DEF Param
  <2>2. \A j \in Param : at[j] \in Nat /\ at[j] >= 1
    BY <2>1
  <2>3. ASSUME at = here PROVE Before(at, next, k)
    <3>1. at[i] < next[i] /\ \A j \in Param : j < i => at[j] = next[j]
      BY <1>5, <1>6, <1>7, <2>3
    <3> QED BY <3>1 DEF Before, Param
  <2>4. ASSUME Before(at, here, k) PROVE Before(at, next, k)
    <3>1. PICK p \in Param :
            at[p] < here[p] /\ \A j \in Param : j < p => at[j] = here[j]
      BY <2>4 DEF Before, Param
    <3>2. CASE p <= i
      <4>1. at[p] < next[p] /\ \A j \in Param : j < p => at[j] = next[j]
        BY <1>5, <1>6, <1>7, <2>2, <3>1, <3>2
      <4> QED BY <4>1 DEF Before, Param
    <3>3. CASE p > i
      <4>1. at[i] < next[i] /\ \A j \in Param : j < i => at[j] = next[j]
        BY <1>5, <1>6, <1>7, <2>2, <3>1, <3>3
      <4> QED BY <4>1 DEF Before, Param
    <3> QED BY <1>5, <1>7, <3>2, <3>3
  <2>5. ASSUME Before(at, next, k), at # here PROVE Before(at, here, k)
    <3>1. PICK p \in Param :
            at[p] < next[p] /\ \A j \in Param : j < p => at[j] = next[j]
      BY <2>5 DEF Before, Param
    <3>2. p <= i
      BY <1>5, <1>6, <1>7, <2>2, <3>1
    <3>3. \A j \in Param : j < p => at[j] = here[j]
      BY <1>5, <1>6, <1>7, <3>1, <3>2
    <3>4. CASE at[p] < here[p]
      BY <3>3, <3>4 DEF Before, Param
    <3>5. CASE ~(at[p] < here[p])
      <4>1. p = i /\ at[i] = here[i]
        BY <1>5, <1>6, <1>7, <2>2, <3>1, <3>2, <3>5
      <4>2. PICK d \in Param :
              at[d] # here[d] /\ \A j \in Param : j < d => at[j] = here[j]
        BY <2>5, FirstDifference DEF here, Param
      <4>3. d > i
        BY <1>5, <1>7, <3>3, <4>1, <4>2
      <4>4. ~(here[d] < Sizes[k][d])
        BY <4>3 DEF here, Param
      <4>5. at[d] < here[d]
        BY <1>5, <1>8, <2>1, <4>2, <4>4
      <4> QED BY <4>2, <4>5 DEF Before, Param
    <3> QED BY <3>4, <3>5
  <2> QED BY <2>3, <2>4, <2>5
<1> QED BY <1>3, <1>9 DEF here, next

\* Before anything comes, nothing is produced.
LEMMA EnumInit == Init => EnumInv
<1> SUFFICES ASSUME Init PROVE EnumInv
  OBVIOUS
<1>1. EnumTypes /\ EnumOnce
  BY DEF Init, EnumTypes, EnumOnce
<1>2. ASSUME NEW k \in Case
      PROVE  SeenOf(k) = {} /\ \A at \in Combinations(k) : ~Before(at, cursor[k], k)
  <2>1. SeenOf(k) = {}
    BY DEF Init, SeenOf
  <2>2. ASSUME NEW at \in Combinations(k), NEW i \in DOMAIN Sizes[k], at[i] < cursor[k][i] PROVE FALSE
    <3>1. cursor[k][i] = 1 /\ Sizes[k][i] \in Nat /\ at[i] \in 1..Sizes[k][i]
      BY CombinationIs, WarmupAssumption DEF Init, First
    <3> QED BY <2>2, <3>1
  <2> QED BY <2>1, <2>2 DEF Before
<1> QED BY <1>1, <1>2 DEF EnumInv, Init

\* A case that fails stays as it is.
LEMMA CaseFailsKeeps ==
  ASSUME EnumInv, NEW k \in Case, CaseFails(k)
  PROVE  EnumInv'
<1>1. /\ cursor' = cursor /\ inputs' = inputs /\ case' = [case EXCEPT ![k] = "failed"]
  BY DEF CaseFails
<1>2. EnumTypes' /\ EnumOnce'
  BY <1>1 DEF EnumInv, EnumTypes, EnumOnce
<1>3. \A j \in Case : SeenOf(j)' = SeenOf(j)
  BY <1>1 DEF SeenOf
<1>4. \A j \in Case : case'[j] \in {"run", "sent"} => case[j] = case'[j]
  BY <1>1 DEF EnumInv, EnumTypes
<1> QED BY <1>1, <1>2, <1>3, <1>4 DEF EnumInv

\* An iteration of appendSelectors produces the next combination, and the last one ends it.
LEMMA AppendKeeps ==
  ASSUME EnumInv, NEW k \in Case, AppendSelector(k)
  PROVE  EnumInv'
<1> DEFINE left == {i \in DOMAIN Sizes[k] : cursor[k][i] < Sizes[k][i]}
<1>1. /\ case[k] = "run" /\ \A i \in DOMAIN Sizes[k] : Sizes[k][i] # 0
      /\ inputs' = [inputs EXCEPT ![k] = IF Sizes[k] = <<>> THEN @ ELSE Append(@, cursor[k])]
      /\ \/ left = {} /\ case' = [case EXCEPT ![k] = "sent"] /\ UNCHANGED cursor
         \/ left # {} /\ cursor' = [cursor EXCEPT ![k] = Following(k, Max(left))] /\ UNCHANGED case
  BY DEF AppendSelector
<1>2. \A j \in Case \ {k} : /\ inputs'[j] = inputs[j] /\ cursor'[j] = cursor[j] /\ case'[j] = case[j]
                          /\ SeenOf(j)' = SeenOf(j)
  BY <1>1 DEF EnumInv, EnumTypes, SeenOf
<1>3. SeenOf(k) = {at \in Combinations(k) : Before(at, cursor[k], k)} /\ inputs[k] \in Seq(Combinations(k))
  BY <1>1 DEF EnumInv, EnumTypes
<1>4. SUFFICES
        /\ cursor'[k] \in Combinations(k) \cup {First(k)} /\ inputs'[k] \in Seq(Combinations(k))
        /\ DOMAIN cursor' = Case /\ DOMAIN inputs' = Case
        /\ case' \in [Case -> {"run", "sent", "failed"}]
        /\ \A m, n \in DOMAIN inputs'[k] : inputs'[k][m] = inputs'[k][n] => m = n
        /\ case'[k] = "run" => SeenOf(k)' = {at \in Combinations(k) : Before(at, cursor'[k], k)}
        /\ case'[k] = "sent" => SeenOf(k)' = Combinations(k)
  <2>1. EnumTypes'
    BY <1>2, <1>4 DEF EnumInv, EnumTypes
  <2>2. EnumOnce'
    BY <1>2, <1>4 DEF EnumInv, EnumOnce
  <2>3. \A j \in Case : case'[j] = "run" =>
          SeenOf(j)' = {at \in Combinations(j) : Before(at, cursor'[j], j)}
    BY <1>2, <1>4 DEF EnumInv
  <2>4. \A j \in Case : case'[j] = "sent" => SeenOf(j)' = Combinations(j)
    BY <1>2, <1>4 DEF EnumInv
  <2> QED BY <2>1, <2>2, <2>3, <2>4, Zenon DEF EnumInv
<1>5. /\ DOMAIN cursor' = Case /\ DOMAIN inputs' = Case /\ case' \in [Case -> {"run", "sent", "failed"}]
  BY <1>1 DEF EnumInv, EnumTypes
<1>6. CASE Sizes[k] = <<>>
  <2>1. Combinations(k) = {} /\ left = {}
    BY <1>6 DEF Combinations
  <2>2. inputs'[k] = inputs[k] /\ cursor'[k] = cursor[k] /\ case'[k] = "sent"
    BY <1>1, <1>6, <2>1 DEF EnumInv, EnumTypes
  <2>3. SeenOf(k)' = {}
    BY <1>3, <2>1, <2>2 DEF SeenOf
  <2> QED BY <1>3, <1>5, <2>1, <2>2, <2>3 DEF EnumInv, EnumTypes, EnumOnce
<1>7. CASE Sizes[k] # <<>>
  <2>1. cursor[k] \in Combinations(k)
    <3>1. First(k) \in Combinations(k)
      <4>1. \A i \in DOMAIN Sizes[k] : Sizes[k][i] \in Nat /\ First(k)[i] \in 1..Sizes[k][i]
        BY <1>1, WarmupAssumption DEF First
      <4>2. First(k) = [i \in DOMAIN Sizes[k] |-> First(k)[i]]
        BY DEF First
      <4> QED BY <1>7, <4>1, <4>2, CombinationIs
    <3> QED BY <3>1 DEF EnumInv, EnumTypes
  <2>2. inputs'[k] = Append(inputs[k], cursor[k])
    BY <1>1, <1>7 DEF EnumInv, EnumTypes
  <2>3. /\ inputs'[k] \in Seq(Combinations(k)) /\ Len(inputs[k]) \in Nat
        /\ DOMAIN inputs[k] = 1..Len(inputs[k]) /\ DOMAIN inputs'[k] = 1..(Len(inputs[k]) + 1)
        /\ \A n \in 1..Len(inputs[k]) : inputs'[k][n] = inputs[k][n]
        /\ inputs'[k][Len(inputs[k]) + 1] = cursor[k]
    BY <1>3, <2>1, <2>2
  <2>4. SeenOf(k)' = SeenOf(k) \cup {cursor[k]}
    BY <2>3 DEF SeenOf
  <2>5. cursor[k] \notin SeenOf(k)
    <3>1. \A i \in DOMAIN Sizes[k] : ~(cursor[k][i] < cursor[k][i])
      <4>1. \A i \in DOMAIN Sizes[k] : Sizes[k][i] \in Nat /\ cursor[k][i] \in 1..Sizes[k][i]
        BY <2>1, CombinationIs, WarmupAssumption
      <4>2. \A i \in DOMAIN Sizes[k] : cursor[k][i] \in Int
        BY <4>1
      <4> QED BY <4>2
    <3> QED BY <1>3, <3>1 DEF Before
  <2>6. ASSUME NEW m \in DOMAIN inputs'[k], NEW n \in DOMAIN inputs'[k], inputs'[k][m] = inputs'[k][n]
        PROVE  m = n
    <3>1. \A x \in DOMAIN inputs[k] : inputs[k][x] # cursor[k]
      BY <2>5 DEF SeenOf
    <3>2. \A x, y \in DOMAIN inputs[k] : inputs[k][x] = inputs[k][y] => x = y
      BY DEF EnumInv, EnumOnce
    <3>3. \A x \in DOMAIN inputs'[k] :
            \/ x \in DOMAIN inputs[k] /\ inputs'[k][x] = inputs[k][x]
            \/ x = Len(inputs[k]) + 1 /\ inputs'[k][x] = cursor[k]
      BY <2>3
    <3> QED BY <2>6, <3>1, <3>2, <3>3
  <2>7. CASE left = {}
    <3>1. case'[k] = "sent" /\ cursor'[k] = cursor[k]
      BY <1>1, <2>7 DEF EnumInv, EnumTypes
    <3>2. \A i \in DOMAIN Sizes[k] : ~(cursor[k][i] < Sizes[k][i])
      BY <2>7
    <3>3. \A at \in Combinations(k) : at = cursor[k] \/ Before(at, cursor[k], k)
      BY <2>1, <3>2, LastOfAll
    <3>4. SeenOf(k)' = Combinations(k)
      BY <1>3, <2>1, <2>4, <3>3
    <3> QED BY <1>5, <2>1, <2>3, <2>6, <3>1, <3>4
  <2>8. CASE left # {}
    <3>1. case'[k] = "run" /\ cursor'[k] = Following(k, Max(left))
      BY <1>1, <2>8 DEF EnumInv, EnumTypes
    <3>2. Max(left) \in left /\ \A j \in left : Max(left) >= j
      <4>1. Len(Sizes[k]) \in Nat /\ left \in SUBSET (1..Len(Sizes[k]))
        BY WarmupAssumption
      <4> HIDE DEF left
      <4> QED BY <2>8, <4>1, GreatestPosition
    <3>3. \A j \in DOMAIN Sizes[k] : j > Max(left) => ~(cursor[k][j] < Sizes[k][j])
      <4>1. DOMAIN Sizes[k] \subseteq Int
        BY WarmupAssumption
      <4>2. \A j \in DOMAIN Sizes[k] : j > Max(left) => j \notin left
        BY <3>2, <4>1
      <4> QED BY <4>2
    <3>4. /\ Following(k, Max(left)) \in Combinations(k)
          /\ \A at \in Combinations(k) :
               Before(at, Following(k, Max(left)), k) <=> at = cursor[k] \/ Before(at, cursor[k], k)
      <4>1. Max(left) \in DOMAIN Sizes[k] /\ cursor[k][Max(left)] < Sizes[k][Max(left)]
        BY <3>2
      <4> HIDE DEF left
      <4> QED BY <2>1, <3>3, <4>1, FollowingIsNext
    <3>5. SeenOf(k)' = {at \in Combinations(k) : Before(at, cursor'[k], k)}
      BY <1>3, <2>1, <2>4, <3>1, <3>4
    <3> QED BY <1>5, <2>3, <2>6, <3>1, <3>4, <3>5
  <2> QED BY <2>7, <2>8
<1> QED BY <1>6, <1>7

\* Only these steps touch what is enumerated.
LEMMA EnumUntouched == EnumInv /\ UNCHANGED <<cursor, case, inputs>> => EnumInv'
  BY DEF EnumInv, EnumTypes, EnumOnce, SeenOf

\* A step of the warm-up keeps the enumerations.
LEMMA EnumNext ==
  ASSUME EnumInv, [Next]_vars
  PROVE  EnumInv'
<1>1. CASE UNCHANGED <<cursor, case, inputs>>
  BY <1>1, EnumUntouched
<1>2. CASE \E k \in Case : CaseFails(k) \/ AppendSelector(k)
  BY <1>2, CaseFailsKeeps, AppendKeeps
<1>3. \/ UNCHANGED <<cursor, case, inputs>>
      \/ \E k \in Case : CaseFails(k) \/ AppendSelector(k)
  BY DEF Next, Generate, Populate, Pinging, Generated, GenerateFails, Notify, Collect, ReadDB, Index,
     vars, warmupVars
<1> QED BY <1>1, <1>2, <1>3

-----------------------------------------------------------------------------
(***************************************************************************)
(* The collector: what it was told to expect is what is sent, and what it  *)
(* has not received is still to be sent.                                   *)
(***************************************************************************)

\* The entries of the views whose inputs were generated.
Announced(views) == UNION {Entries(v) : v \in {w \in views : gen[w] = "ok"}}

\* What waits to be sent, now or after the entry that waits now.
Pending ==
  sending \cup {Entry(e.input, "meta") : e \in {d \in sending : d.kind = "index" /\ d.input.view \in Meta}}

Told ==
  /\ gen \in [View -> {"run", "ok", "failed"}] /\ notified \subseteq View
  /\ \A v \in notified : gen[v] # "run"
  /\ main \in {"notify", "collect", "index", "done"}
  /\ main # "notify" => notified = View
  /\ size = Cardinality(Announced(notified))

Counted ==
  /\ Pending \subseteq Announced(View)
  /\ main = "notify" => Pending = Announced(View)
  /\ main = "collect" => received < size
  /\ main \in {"index", "done"} => Pending = {}
  /\ received = Cardinality(Announced(View) \ Pending)

\* An entry and its meta query are not sent at once.
Turns == \A e \in sending : e.kind = "index" => Entry(e.input, "meta") \notin sending

Kept ==
  /\ errors \in BOOLEAN
  /\ entries \subseteq Announced(View) \ Pending /\ reading \subseteq entries /\ indexed \subseteq entries
  /\ ~errors => entries = Announced(View) \ Pending
  /\ main \in {"notify", "collect"} => reading = {} /\ indexed = {}
  /\ main = "done" => reading = {}
  /\ main \in {"index", "done"} /\ ~errors => indexed \cup reading = entries

CollectInv == Told /\ Counted /\ Turns /\ Kept

\* Entries are told apart by what they index, how, and for which view; there are finitely many.
LEMMA EntriesOf ==
  ASSUME NEW v \in View
  PROVE  /\ Entries(v) \subseteq AllEntries /\ IsFiniteSet(Entries(v)) /\ IsFiniteSet(AllEntries)
         /\ \A e \in Entries(v) : e = Entry(e.input, e.kind) /\ e.input.view = v /\ e.input \in Inputs(v)
                             /\ e.kind \in {"index", "meta"} /\ (e.kind = "meta" => v \in Meta)
<1>1. Entries(v) \subseteq AllEntries
  BY DEF AllEntries
<1>2. IsFiniteSet(AllEntries)
  BY WarmupAssumption, PoolAssumption
<1>3. \A input \in Inputs(v) : input.view = v
  BY DEF Inputs
<1>4. ASSUME NEW e \in Entries(v)
      PROVE  /\ e = Entry(e.input, e.kind) /\ e.input.view = v /\ e.input \in Inputs(v)
             /\ e.kind \in {"index", "meta"} /\ (e.kind = "meta" => v \in Meta)
  BY <1>3 DEF Entries, Entry
<1> QED BY <1>1, <1>2, <1>4, FS_Subset

\* A view has an entry for each input, and two if its meta query is indexed.
LEMMA EntriesCounted ==
  ASSUME NEW v \in View
  PROVE  Cardinality(Entries(v)) = Cardinality(Inputs(v)) * (IF v \in Meta THEN 2 ELSE 1)
<1> DEFINE Of(kind) == {Entry(input, kind) : input \in Inputs(v)}
<1>1. IsFiniteSet(Entries(v))
  BY EntriesOf
<1>2. Of("index") \subseteq Entries(v)
  BY DEF Entries
<1>3. ASSUME NEW kind \in {"index", "meta"}, Of(kind) \subseteq Entries(v)
      PROVE  Cardinality(Of(kind)) = Cardinality(Inputs(v)) /\ IsFiniteSet(Of(kind))
  <2> DEFINE f == [e \in Of(kind) |-> e.input]
  <2>1. IsFiniteSet(Of(kind))
    BY <1>1, <1>3, FS_Subset
  <2>2. f \in Bijection(Of(kind), Inputs(v))
    <3>1. \A e \in Of(kind) : e.input \in Inputs(v) /\ e = Entry(e.input, kind)
      BY DEF Entry
    <3>2. \A input \in Inputs(v) : Entry(input, kind) \in Of(kind) /\ Entry(input, kind).input = input
      BY DEF Entry
    <3>3. DOMAIN f = Of(kind) /\ \A e \in Of(kind) : f[e] = e.input
      OBVIOUS
    <3>4. f \in [Of(kind) -> Inputs(v)]
      BY <3>1
    <3> HIDE DEF f, Of
    <3>5. \A d, e \in DOMAIN f : f[d] = f[e] => d = e
      BY <3>1, <3>3
    <3>6. \A input \in Inputs(v) : \E e \in Of(kind) : f[e] = input
      BY <3>2, <3>3
    <3> QED BY <3>4, <3>5, <3>6 DEF Bijection, Injection, Surjection, IsInjective
  <2>3. ExistsBijection(Of(kind), Inputs(v))
    BY <2>2 DEF ExistsBijection
  <2> HIDE DEF f, Of
  <2> QED BY <2>1, <2>3, FS_Bijection
<1>4. Cardinality(Of("index")) = Cardinality(Inputs(v)) /\ IsFiniteSet(Of("index"))
  BY <1>2, <1>3
<1>5. Cardinality(Inputs(v)) \in Nat
  BY <1>4, FS_CardinalityType
<1>6. CASE v \notin Meta
  <2>1. Entries(v) = Of("index")
    BY <1>6 DEF Entries
  <2> QED BY <1>4, <1>5, <1>6, <2>1
<1>7. CASE v \in Meta
  <2>1. Entries(v) = Of("index") \cup Of("meta")
    BY <1>7 DEF Entries
  <2>2. Of("index") \cap Of("meta") = {}
    BY DEF Entry
  <2>3. Cardinality(Of("meta")) = Cardinality(Inputs(v)) /\ IsFiniteSet(Of("meta"))
    BY <1>3, <2>1
  <2> HIDE DEF Of
  <2>4. Cardinality(Of("index") \cup Of("meta"))
          = Cardinality(Of("index")) + Cardinality(Of("meta")) - Cardinality(Of("index") \cap Of("meta"))
    BY <1>4, <2>3, FS_Union
  <2> QED BY <1>4, <1>5, <1>7, <2>1, <2>2, <2>3, <2>4, FS_EmptySet
<1> QED BY <1>6, <1>7

\* What is announced is finite.
LEMMA AnnouncedFinite ==
  ASSUME NEW views \in SUBSET View
  PROVE  IsFiniteSet(Announced(views)) /\ Announced(views) \subseteq AllEntries
<1>1. IsFiniteSet(AllEntries)
  BY WarmupAssumption, PoolAssumption
<1>2. Announced(views) \subseteq AllEntries
  BY DEF Announced, AllEntries
<1> QED BY <1>1, <1>2, FS_Subset

\* When all cases of a view were received, its inputs are all that its cases say.
LEMMA ProducedAll ==
  ASSUME EnumInv, NEW v \in View, \A k \in CasesOf[v] : case[k] = "sent"
  PROVE  Produced(v) = Inputs(v)
<1>1. CASE CasesOf[v] = {}
  BY <1>1 DEF Produced
<1>2. CASE CasesOf[v] # {}
  <2> DEFINE Made(k) == {[view |-> v, case |-> k, at |-> inputs[k][n]] : n \in DOMAIN inputs[k]}
             Wanted(k) == {[view |-> v, case |-> k, at |-> at] : at \in Combinations(k)}
  <2>1. CasesOf[v] \subseteq Case
    BY WarmupAssumption
  <2>2. ASSUME NEW k \in CasesOf[v] PROVE Made(k) = Wanted(k)
    <3>1. {inputs[k][n] : n \in DOMAIN inputs[k]} = Combinations(k)
      BY <2>1 DEF EnumInv, SeenOf
    <3> QED BY <3>1
  <2>3. Produced(v) = UNION {Made(k) : k \in CasesOf[v]} /\ Inputs(v) = UNION {Wanted(k) : k \in CasesOf[v]}
    BY <1>2 DEF Produced, Inputs
  <2> QED BY <2>2, <2>3
<1> QED BY <1>1, <1>2

\* Nothing is announced, and nothing sent.
LEMMA CollectInit == Init => CollectInv
<1> SUFFICES ASSUME Init PROVE CollectInv
  OBVIOUS
<1>1. Announced(notified) = {} /\ Announced(View) = {} /\ Pending = {}
  BY DEF Init, Announced, Pending
<1>2. Told
  BY <1>1, FS_EmptySet DEF Init, Told
<1>3. Counted
  BY <1>1, FS_EmptySet DEF Init, Counted
<1>4. Turns /\ Kept
  BY <1>1 DEF Init, Turns, Kept
<1> QED BY <1>2, <1>3, <1>4 DEF CollectInv

\* Steps that leave the collector alone keep it.
LEMMA CollectUntouched ==
  CollectInv /\ UNCHANGED <<gen, notified, main, size, received, sending, entries, errors, reading, indexed>>
    => CollectInv'
  BY DEF CollectInv, Told, Counted, Turns, Kept, Announced, Pending

\* A view whose inputs are all there starts a goroutine for each (populateCacheCases).
LEMMA GeneratedKeeps ==
  ASSUME EnumInv, CollectInv, NEW v \in View, Generated(v)
  PROVE  CollectInv'
<1>1. /\ gen[v] = "run" /\ gen' = [gen EXCEPT ![v] = "ok"]
      /\ sending' = sending \cup {Entry(input, "index") : input \in Inputs(v)}
      /\ UNCHANGED <<notified, main, size, received, entries, errors, reading, indexed>>
  BY ProducedAll DEF Generated
<1>2. v \notin notified /\ main = "notify"
  BY <1>1 DEF CollectInv, Told
<1>3. Announced(notified)' = Announced(notified) /\ Announced(View)' = Announced(View) \cup Entries(v)
  BY <1>1, <1>2 DEF CollectInv, Told, Announced
<1>4. Told'
  BY <1>1, <1>2, <1>3 DEF CollectInv, Told
<1>5. \A e \in sending : e.input.view # v /\ e.kind \in {"index", "meta"}
  <2>1. sending \subseteq Announced(View)
    BY DEF CollectInv, Counted, Pending
  <2>2. ASSUME NEW e \in Announced(View) PROVE e.input.view # v /\ e.kind \in {"index", "meta"}
    <3>1. PICK w \in View : gen[w] = "ok" /\ e \in Entries(w)
      BY DEF Announced
    <3> QED BY <1>1, <3>1, EntriesOf
  <2> QED BY <2>1, <2>2
<1>6. \A input \in Inputs(v) : Entry(input, "index") \in Entries(v) /\ input.view = v
  BY DEF Entries, Inputs
<1>7. Pending' = Pending \cup Entries(v)
  <2> DEFINE New == {Entry(input, "index") : input \in Inputs(v)}
  <2>1. Pending' = Pending \cup New \cup
          {Entry(e.input, "meta") : e \in {d \in New : d.kind = "index" /\ d.input.view \in Meta}}
    BY <1>1 DEF Pending
  <2>2. {Entry(e.input, "meta") : e \in {d \in New : d.kind = "index" /\ d.input.view \in Meta}}
          = IF v \in Meta THEN {Entry(input, "meta") : input \in Inputs(v)} ELSE {}
    <3> DEFINE Firsts == {d \in New : d.kind = "index" /\ d.input.view \in Meta}
    <3>1. \A d \in New : d.kind = "index" /\ d.input \in Inputs(v) /\ d.input.view = v
      BY <1>6 DEF Entry
    <3>2. \A input \in Inputs(v) : Entry(input, "index") \in New /\ Entry(input, "index").input = input
      BY DEF Entry
    <3> HIDE DEF New
    <3>3. CASE v \notin Meta
      BY <3>1, <3>3
    <3>4. CASE v \in Meta
      <4>1. Firsts = New
        BY <3>1, <3>4
      <4>2. {Entry(e.input, "meta") : e \in New} = {Entry(input, "meta") : input \in Inputs(v)}
        BY <3>1, <3>2
      <4> QED BY <3>4, <4>1, <4>2
    <3> QED BY <3>3, <3>4
  <2>3. Entries(v) = New \cup IF v \in Meta THEN {Entry(input, "meta") : input \in Inputs(v)} ELSE {}
    BY DEF Entries
  <2> QED BY <2>1, <2>2, <2>3
<1>8. Counted'
  <2>1. Pending' = Announced(View)'
    BY <1>2, <1>3, <1>7 DEF CollectInv, Counted
  <2>2. Announced(View) \ Pending = {} /\ (Announced(View) \ Pending)' = {}
    BY <1>2, <2>1 DEF CollectInv, Counted
  <2> QED BY <1>1, <1>2, <2>1, <2>2 DEF CollectInv, Counted
<1>9. Turns'
  <2> SUFFICES ASSUME NEW e \in sending', e.kind = "index", Entry(e.input, "meta") \in sending' PROVE FALSE
    BY DEF Turns
  <2>1. Entry(e.input, "meta") \in sending
    BY <1>1 DEF Entry
  <2>2. e.input.view # v
    BY <1>5, <2>1 DEF Entry
  <2>3. e \in sending
    BY <1>1, <1>6, <2>2 DEF Entry
  <2> QED BY <2>1, <2>3 DEF CollectInv, Turns
<1>10. Kept'
  <2>1. Announced(View)' \ Pending' = Announced(View) \ Pending
    BY <1>2, <1>3, <1>7 DEF CollectInv, Counted
  <2> QED BY <1>1, <1>2, <2>1 DEF CollectInv, Kept
<1> QED BY <1>4, <1>8, <1>9, <1>10 DEF CollectInv

\* A view that fails announces nothing.
LEMMA GenerateFailsKeeps ==
  ASSUME CollectInv, NEW v \in View, GenerateFails(v)
  PROVE  CollectInv'
<1>1. /\ gen[v] = "run" /\ gen' = [gen EXCEPT ![v] = "failed"]
      /\ UNCHANGED <<notified, main, size, received, sending, entries, errors, reading, indexed>>
  BY DEF GenerateFails
<1>2. v \notin notified /\ main = "notify"
  BY <1>1 DEF CollectInv, Told
<1>3. Announced(notified)' = Announced(notified) /\ Announced(View)' = Announced(View) /\ Pending' = Pending
  BY <1>1 DEF CollectInv, Told, Announced, Pending
<1>4. Told'
  BY <1>1, <1>2, <1>3 DEF CollectInv, Told
<1> QED BY <1>1, <1>3, <1>4 DEF CollectInv, Counted, Turns, Kept

\* PopulateCache adds what a view announces to what it expects.
LEMMA NotifyKeeps ==
  ASSUME EnumInv, CollectInv, NEW v \in View, Notify(v), \A k \in CasesOf[v] : gen[v] = "ok" => case[k] = "sent"
  PROVE  CollectInv'
<1>1. /\ main = "notify" /\ gen[v] # "run" /\ v \notin notified
      /\ notified' = notified \cup {v}
      /\ size' = size + (IF gen[v] = "ok" THEN Count(v) ELSE 0)
      /\ main' = IF notified' # View THEN "notify" ELSE IF size' = 0 THEN "done" ELSE "collect"
      /\ UNCHANGED <<gen, received, sending, entries, errors, reading, indexed>>
  BY DEF Notify
<1>2. Announced(View)' = Announced(View) /\ Pending' = Pending
  BY <1>1 DEF Announced, Pending
<1>3. IsFiniteSet(Announced(notified)) /\ IsFiniteSet(Announced(View))
  BY AnnouncedFinite DEF CollectInv, Told
<1>4. size' = Cardinality(Announced(notified)')
  <2>1. CASE gen[v] # "ok"
    <3>1. Announced(notified)' = Announced(notified)
      BY <1>1, <2>1 DEF Announced
    <3>2. Cardinality(Announced(notified)) \in Nat
      BY <1>3, FS_CardinalityType
    <3> QED BY <1>1, <2>1, <3>1, <3>2 DEF CollectInv, Told
  <2>2. CASE gen[v] = "ok"
    <3>1. Announced(notified)' = Announced(notified) \cup Entries(v)
      BY <1>1, <2>2 DEF Announced
    <3>2. Announced(notified) \cap Entries(v) = {}
      <4>1. ASSUME NEW e \in Announced(notified), e \in Entries(v) PROVE FALSE
        <5>1. PICK w \in notified : e \in Entries(w)
          BY DEF Announced
        <5> QED BY <1>1, <4>1, <5>1, EntriesOf DEF CollectInv, Told
      <4> QED BY <4>1
    <3>3. Count(v) = Cardinality(Entries(v))
      BY <2>2, ProducedAll, EntriesCounted DEF Count
    <3>4. IsFiniteSet(Entries(v))
      BY EntriesOf
    <3>5. Cardinality(Announced(notified) \cup Entries(v))
            = Cardinality(Announced(notified)) + Cardinality(Entries(v))
      <4>1. Cardinality(Announced(notified) \cup Entries(v))
              = Cardinality(Announced(notified)) + Cardinality(Entries(v)) - Cardinality({})
        BY <1>3, <3>2, <3>4, FS_Union
      <4>2. Cardinality(Announced(notified)) \in Nat /\ Cardinality(Entries(v)) \in Nat
        BY <1>3, <3>4, FS_CardinalityType
      <4> QED BY <4>1, <4>2, FS_EmptySet
    <3> QED BY <1>1, <2>2, <3>1, <3>3, <3>5 DEF CollectInv, Told
  <2> QED BY <2>1, <2>2
<1>5. Told'
  BY <1>1, <1>4 DEF CollectInv, Told
<1>6. Pending = Announced(View) /\ Announced(View) \ Pending = {} /\ received = 0
  BY <1>1, FS_EmptySet DEF CollectInv, Counted
<1>7. notified' = View => size' = Cardinality(Announced(View)) /\ size' \in Nat
  BY <1>2, <1>3, <1>4, FS_CardinalityType
<1>8. Counted'
  <2>1. main' = "collect" => received' < size'
    BY <1>1, <1>6, <1>7
  <2>2. main' = "done" => Announced(View) = {}
    BY <1>1, <1>3, <1>7, FS_EmptySet
  <2> QED BY <1>1, <1>2, <1>6, <2>1, <2>2 DEF CollectInv, Counted
<1>9. Turns'
  BY <1>1 DEF CollectInv, Turns
<1>10. Kept'
  BY <1>1, <1>2, <1>6 DEF CollectInv, Kept
<1> QED BY <1>5, <1>8, <1>9, <1>10 DEF CollectInv

\* An entry is received once, and its meta query waits from then on.
LEMMA SentOnce ==
  ASSUME CollectInv, NEW entry \in sending, sending' = Sent(entry)
  PROVE  Pending' = Pending \ {entry} /\ entry \in Pending /\ Turns'
<1> DEFINE MetaOf == IF entry.kind = "index" /\ entry.input.view \in Meta THEN {Entry(entry.input, "meta")} ELSE {}
           Later(S) == {Entry(e.input, "meta") : e \in {d \in S : d.kind = "index" /\ d.input.view \in Meta}}
<1>1. \A e \in Pending : e = Entry(e.input, e.kind) /\ e.kind \in {"index", "meta"}
  <2>1. \A e \in Announced(View) : e = Entry(e.input, e.kind) /\ e.kind \in {"index", "meta"}
    BY EntriesOf DEF Announced
  <2> QED BY <2>1 DEF CollectInv, Counted
<1>2. Pending = sending \cup Later(sending) /\ sending \subseteq Pending
  BY DEF Pending
<1>3. sending' = (sending \ {entry}) \cup MetaOf
  BY DEF Sent
<1>4. Pending' = sending' \cup Later(sending')
  BY DEF Pending
<1>5. \A e \in Later(sending) : e.kind = "meta"
  BY DEF Entry
<1>6. \A e \in MetaOf : e.kind = "meta"
  BY DEF Entry
<1>7. Later(sending) = Later(sending \ {entry}) \cup MetaOf
  OBVIOUS
<1>8. Later(sending') = Later(sending \ {entry})
  <2>1. {d \in sending' : d.kind = "index" /\ d.input.view \in Meta}
          = {d \in sending \ {entry} : d.kind = "index" /\ d.input.view \in Meta}
    BY <1>3, <1>6
  <2> QED BY <2>1
<1>9. entry \notin MetaOf /\ entry \notin Later(sending \ {entry})
  <2>1. entry \notin MetaOf
    BY <1>6
  <2>2. ASSUME NEW e \in sending \ {entry}, e.kind = "index", entry = Entry(e.input, "meta") PROVE FALSE
    BY <2>2 DEF CollectInv, Turns
  <2> QED BY <2>1, <2>2
<1>10. Pending' = Pending \ {entry}
  <2> HIDE DEF MetaOf, Later
  <2> QED BY <1>2, <1>3, <1>4, <1>7, <1>8, <1>9
<1>11. Turns'
  <2> SUFFICES ASSUME NEW e \in sending', e.kind = "index", Entry(e.input, "meta") \in sending' PROVE FALSE
    BY DEF Turns
  <2>1. e \in sending \ {entry}
    BY <1>3, <1>6
  <2>2. Entry(e.input, "meta") \notin sending
    BY <2>1 DEF CollectInv, Turns
  <2>3. Entry(e.input, "meta") = Entry(entry.input, "meta") /\ entry.kind = "index"
    BY <1>3, <2>2
  <2>4. e = Entry(e.input, "index") /\ entry = Entry(entry.input, "index")
    BY <1>1, <1>2, <2>1, <2>3
  <2>5. e.input = entry.input
    BY <2>3 DEF Entry
  <2> QED BY <2>1, <2>4, <2>5
<1> QED BY <1>2, <1>10, <1>11

\* The last entry that is received is the last that is sent (PopulateCache).
LEMMA CollectKeeps ==
  ASSUME CollectInv, NEW entry \in sending, Collect(entry)
  PROVE  CollectInv'
<1> DEFINE All == Announced(View)
<1>1. /\ main = "collect" /\ sending' = Sent(entry) /\ received' = received + 1
      /\ \/ entries' = entries \cup {entry} /\ UNCHANGED errors
         \/ errors' = TRUE /\ UNCHANGED entries
      /\ main' = IF received' < size THEN "collect" ELSE IF errors' THEN "done" ELSE "index"
      /\ reading' = IF main' = "index" THEN entries' ELSE {}
      /\ UNCHANGED <<gen, notified, size, indexed>>
  BY DEF Collect
<1>2. Pending' = Pending \ {entry} /\ entry \in Pending /\ Turns'
  BY <1>1, SentOnce
<1>3. All' = All /\ Announced(notified)' = Announced(notified)
  BY <1>1 DEF Announced
<1>4. IsFiniteSet(All) /\ notified = View /\ size = Cardinality(All) /\ Pending \subseteq All
  BY <1>1, AnnouncedFinite DEF CollectInv, Told, Counted
<1>5. Told'
  BY <1>1, <1>3 DEF CollectInv, Told
<1> HIDE DEF All
<1>6. All \ Pending' = (All \ Pending) \cup {entry}
  BY <1>2, <1>4
<1>7. received' = Cardinality(All \ Pending')
  <2>1. IsFiniteSet(All \ Pending) /\ entry \notin All \ Pending
    BY <1>2, <1>4, FS_Subset
  <2> QED BY <1>1, <1>6, <2>1, FS_AddElement DEF CollectInv, Counted, All
<1>8. received' = size => Pending' = {}
  <2>1. received' = size => All = All \ Pending'
    BY <1>4, <1>7, FS_Subset
  <2>2. Pending' \subseteq All
    BY <1>2, <1>4
  <2> QED BY <2>1, <2>2
<1>9. received' < size \/ received' = size
  <2>1. received \in Nat /\ size \in Nat
    <3>1. IsFiniteSet(All \ Pending)
      BY <1>4, FS_Subset
    <3> QED BY <1>4, <3>1, FS_CardinalityType DEF CollectInv, Counted, All
  <2> QED BY <1>1, <2>1 DEF CollectInv, Counted
<1>10. Counted'
  <2>1. Pending' \subseteq Announced(View)' /\ received' = Cardinality(Announced(View)' \ Pending')
    BY <1>2, <1>3, <1>4, <1>7 DEF All
  <2>2. main' \in {"index", "done"} => Pending' = {}
    BY <1>1, <1>8, <1>9
  <2>3. main' # "notify" /\ (main' = "collect" => received' < size')
    BY <1>1
  <2> QED BY <2>1, <2>2, <2>3 DEF Counted
<1>11. Kept'
  <2>1. entries' \subseteq All \ Pending'
    BY <1>1, <1>2, <1>4, <1>6 DEF CollectInv, Kept, All
  <2>2. ~errors' => entries' = All \ Pending'
    BY <1>1, <1>6 DEF CollectInv, Kept, All
  <2>3. reading = {} /\ indexed = {} /\ errors' \in BOOLEAN
    BY <1>1 DEF CollectInv, Kept
  <2> QED BY <1>1, <1>3, <2>1, <2>2, <2>3 DEF Kept, All
<1> QED BY <1>2, <1>5, <1>10, <1>11 DEF CollectInv

\* An entry that was read is indexed or an error.
LEMMA IndexKeeps ==
  ASSUME CollectInv, NEW entry \in reading, Index(entry)
  PROVE  CollectInv'
<1>1. /\ \/ indexed' = indexed \cup {entry} /\ UNCHANGED errors
         \/ errors' = TRUE /\ UNCHANGED indexed
      /\ reading' = reading \ {entry}
      /\ main' = IF reading' = {} THEN "done" ELSE "index"
      /\ UNCHANGED <<gen, notified, size, received, sending, entries>>
  BY DEF Index
<1>2. main = "index"
  BY DEF CollectInv, Told, Kept
<1>3. Pending' = Pending /\ Announced(View)' = Announced(View) /\ Announced(notified)' = Announced(notified)
  BY <1>1 DEF Pending, Announced
<1>4. Told' /\ Counted' /\ Turns'
  BY <1>1, <1>2, <1>3 DEF CollectInv, Told, Counted, Turns
<1>5. Kept'
  BY <1>1, <1>2, <1>3 DEF CollectInv, Kept
<1> QED BY <1>4, <1>5 DEF CollectInv

\* The inputs of a view are generated once all its cases were received.
AllSent == \A v \in View : gen[v] = "ok" => \A k \in CasesOf[v] : case[k] = "sent"

WarmupInv == PoolInv /\ EnumInv /\ AllSent /\ CollectInv

\* Initially nothing has happened.
LEMMA WarmupInit == Init => WarmupInv
<1>1. Init => AllSent
  BY DEF Init, AllSent
<1> QED BY <1>1, PoolInitInv, EnumInit, CollectInit DEF Init, WarmupInv

\* A case that was received does not change.
LEMMA AllSentNext ==
  ASSUME WarmupInv, [Next]_vars
  PROVE  AllSent'
<1>1. case \in [Case -> {"run", "sent", "failed"}] /\ gen \in [View -> {"run", "ok", "failed"}]
  BY DEF WarmupInv, EnumInv, EnumTypes, CollectInv, Told
<1>2. ASSUME NEW v \in View, Generated(v) PROVE AllSent'
  BY <1>1, <1>2 DEF Generated, WarmupInv, AllSent
<1>3. ASSUME NEW v \in View, GenerateFails(v) PROVE AllSent'
  BY <1>1, <1>3 DEF GenerateFails, WarmupInv, AllSent
<1>4. ASSUME NEW k \in Case, CaseFails(k) \/ AppendSelector(k) PROVE AllSent'
  <2>1. case[k] = "run" /\ gen' = gen /\ \A j \in Case \ {k} : case'[j] = case[j]
    BY <1>1, <1>4 DEF CaseFails, AppendSelector
  <2>2. \A v \in View : CasesOf[v] \subseteq Case
    BY WarmupAssumption
  <2> QED BY <2>1, <2>2 DEF WarmupInv, AllSent
<1>5. ASSUME UNCHANGED <<gen, case>> PROVE AllSent'
  BY <1>5 DEF WarmupInv, AllSent
<1>6. \/ UNCHANGED <<gen, case>>
      \/ \E v \in View : Generated(v) \/ GenerateFails(v)
      \/ \E k \in Case : CaseFails(k) \/ AppendSelector(k)
  BY DEF Next, Generate, Populate, Pinging, Notify, Collect, ReadDB, Index, vars, warmupVars
<1> QED BY <1>2, <1>3, <1>4, <1>5, <1>6

\* A step keeps what the collector knows.
LEMMA CollectNext ==
  ASSUME WarmupInv, [Next]_vars
  PROVE  CollectInv'
<1> USE DEF WarmupInv
<1>1. CASE UNCHANGED <<gen, notified, main, size, received, sending, entries, errors, reading, indexed>>
  BY <1>1, CollectUntouched
<1>2. CASE \E v \in View : Generated(v) \/ GenerateFails(v)
  BY <1>2, GeneratedKeeps, GenerateFailsKeeps
<1>3. CASE \E v \in View : Notify(v)
  BY <1>3, NotifyKeeps DEF AllSent
<1>4. CASE \E entry \in sending : Collect(entry)
  BY <1>4, CollectKeeps
<1>5. CASE \E entry \in reading : Index(entry)
  BY <1>5, IndexKeeps
<1>6. \/ UNCHANGED <<gen, notified, main, size, received, sending, entries, errors, reading, indexed>>
      \/ \E v \in View : Generated(v) \/ GenerateFails(v) \/ Notify(v)
      \/ \E entry \in sending : Collect(entry)
      \/ \E entry \in reading : Index(entry)
  BY DEF Next, Generate, Populate, Pinging, CaseFails, AppendSelector, ReadDB, vars, warmupVars
<1> QED BY <1>1, <1>2, <1>3, <1>4, <1>5, <1>6

\* What the readers of entries ask the pool for they ask as its callers.
LEMMA ReadersAsk == CollectInv => reading \subseteq Caller
<1> SUFFICES ASSUME CollectInv PROVE reading \subseteq Caller
  OBVIOUS
<1>1. reading \subseteq Announced(View)
  BY DEF CollectInv, Kept
<1>2. Announced(View) \subseteq AllEntries
  BY DEF Announced, AllEntries
<1> QED BY <1>1, <1>2, WarmupAssumption

\* The invariant holds in every state.
LEMMA WarmupInvariant == Spec => []WarmupInv
<1>1. WarmupInv /\ [Next]_vars => WarmupInv'
  BY ReadersAsk, PoolNext, EnumNext, AllSentNext, CollectNext DEF WarmupInv
<1> QED BY WarmupInit, <1>1, PTL DEF Spec

-----------------------------------------------------------------------------
(* Theorems.                                                               *)

\* A connection is shared by all connectors of a configuration, is opened again only for
\* a ping that failed, and is there for whoever asks (Connector.DB, dbRegistry).
THEOREM PoolIsSound == Spec => []PoolSound
<1>1. WarmupInv => PoolSound
  BY DEF WarmupInv, PoolInv
<1> QED BY WarmupInvariant, <1>1, PTL

\* When the collector is closed no goroutine has an entry to send (PopulateCache).
THEOREM CollectorIsExact == Spec => []CountExact
<1>1. WarmupInv => CountExact
  BY DEF WarmupInv, CollectInv, Counted, Pending, CountExact
<1> QED BY WarmupInvariant, <1>1, PTL

\* The numbers of entries are in their range.
LEMMA SizesTyped ==
  ASSUME CollectInv
  PROVE  size \in 0..Cardinality(AllEntries) /\ received \in 0..size
<1>1. notified \subseteq View /\ size = Cardinality(Announced(notified))
  BY DEF CollectInv, Told
<1>2. IsFiniteSet(AllEntries)
  BY WarmupAssumption, PoolAssumption
<1>3. Announced(notified) \subseteq AllEntries /\ Announced(View) \subseteq AllEntries
  BY <1>1 DEF Announced, AllEntries
<1>4. size \in 0..Cardinality(AllEntries)
  BY <1>1, <1>2, <1>3, FS_Subset, FS_CardinalityType
<1>5. CASE main = "notify"
  <2>1. Announced(View) \ Pending = {}
    BY <1>5 DEF CollectInv, Counted
  <2>2. received = 0
    BY <2>1, FS_EmptySet DEF CollectInv, Counted
  <2> QED BY <1>2, <1>4, <2>2, FS_CardinalityType
<1>6. CASE main # "notify"
  <2>1. size = Cardinality(Announced(View)) /\ received = Cardinality(Announced(View) \ Pending)
    BY <1>1, <1>6 DEF CollectInv, Told, Counted
  <2>2. IsFiniteSet(Announced(View))
    BY <1>2, <1>3, FS_Subset
  <2>3. IsFiniteSet(Announced(View) \ Pending)
        /\ Cardinality(Announced(View) \ Pending) <= Cardinality(Announced(View))
    BY <2>2, FS_Subset
  <2> QED BY <1>2, <1>4, <2>1, <2>3, FS_CardinalityType
<1> QED BY <1>5, <1>6

\* A warm-up that reports no error has indexed every combination of values of every case,
\* once, with its meta query; one that misses any reports an error.
THEOREM WarmupIsSound == Spec => []WarmupSound
<1>1. WarmupInv => TypeOK
  <2> SUFFICES ASSUME WarmupInv PROVE TypeOK
    OBVIOUS
  <2>1. Announced(View) \subseteq AllEntries
    BY DEF Announced, AllEntries
  <2>2. sending \subseteq AllEntries /\ entries \subseteq AllEntries
    BY <2>1 DEF WarmupInv, CollectInv, Counted, Kept, Pending
  <2>3. size \in 0..Cardinality(AllEntries) /\ received \in 0..size
    BY SizesTyped DEF WarmupInv
  <2> QED BY <2>2, <2>3 DEF TypeOK, WarmupInv, PoolInv, EnumInv, EnumTypes, CollectInv, Told, Kept
<1>2. WarmupInv => WarmupComplete
  <2> SUFFICES ASSUME WarmupInv, main = "done", ~errors PROVE indexed = Announced(View)
    BY DEF WarmupComplete, Announced
  <2> QED BY DEF WarmupInv, CollectInv, Counted, Kept
<1>3. WarmupInv => CombinationsOnce
  BY DEF WarmupInv, EnumInv, EnumOnce, SeenOf, CombinationsOnce
<1>4. WarmupInv => ErrorsReported
  BY DEF WarmupInv, CollectInv, Kept, ErrorsReported
<1> QED BY WarmupInvariant, <1>1, <1>2, <1>3, <1>4, PTL DEF WarmupSound
=============================================================================
