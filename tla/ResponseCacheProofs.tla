------------------------ MODULE ResponseCacheProofs ------------------------
(***************************************************************************)
(* Theorems about ResponseCache, for any number of requests, selectors and *)
(* hashes, any clock and any failures.                                     *)
(***************************************************************************)
EXTENDS ResponseCache, TLAPS

(***************************************************************************)
(* An entry, wherever it is, has writers that had taken their response. A  *)
(* readable first line is one of theirs, and what the only writer has      *)
(* behind it is its own.                                                   *)
(***************************************************************************)
Sound(e, puts, takes) ==
  e # NoEntry =>
    /\ \A p \in e.writers : puts[p] \notin {"none", "take"}
    /\ e.meta # NoMeta => e.meta.by \in e.writers /\ e.meta.selectors = SelectorsOf[e.meta.by]
    /\ \A p \in Request : Alone(e, p) /\ e.response # NoResponse =>
         e.response = [by |-> p, amount |-> takes[p].amount]

EntriesSound ==
  /\ \A u \in URLs : Sound(storage[u], put, taken)
  /\ \A q \in Request : Sound(opened[q], put, taken)

\* Where a handler is tells what it knows of the cache and whether its put has begun.
Position ==
  \A q \in Request :
    /\ pc[q] \in {"start", "open", "validate"} => lookup[q] = "none"
    /\ pc[q] = "read" => lookup[q] \in {"miss", "error"}
    /\ pc[q] = "write" => lookup[q] # "none"
    /\ lookup[q] = "hit" => pc[q] \in {"write", "done"} /\ put[q] = "none"
    /\ put[q] # "none" => pc[q] \in {"write", "done"}

\* An entry that is looked at is there, and one that is served is for the same selectors.
Opened ==
  \A q \in Request :
    /\ pc[q] = "validate" => Readable(opened[q])
    /\ lookup[q] = "hit" => Readable(opened[q]) /\ opened[q].meta.selectors = SelectorsOf[q]

\* When debugging, the buffer is whole until the put has taken it.
Buffered ==
  debug => \A q \in Request :
    /\ put[q] = "take" => unread[q] = "all"
    /\ put[q] \in {"create", "meta", "response", "done"} => taken[q].amount = "all"

CacheInv == TypeOK /\ Position /\ Opened /\ EntriesSound /\ Buffered /\ AnsweredOnce

-----------------------------------------------------------------------------
(* Lemmas.                                                                 *)

\* The URL of a request is one of the URLs.
LEMMA UrlOfRequest == \A q \in Request : URL(q) \in URLs
  BY CacheAssumption DEF URL, URLs

\* What a put writes to a file is an entry (Cache.write).
LEMMA OutcomeTyped ==
  ASSUME TypeOK, NEW q \in Request, NEW file \in Entry,
         NEW new \in WithMeta(q, file) \cup WithResponse(q, file)
  PROVE  new \in Entry
<1>1. MetaOf(q) \in Meta /\ ResponseOf(q) \in Response
  BY CacheAssumption DEF TypeOK, MetaOf, ResponseOf, Meta, Response
<1>2. PICK meta \in {MetaOf(q), NoMeta, file.meta},
           response \in {ResponseOf(q), MixedResponse, file.response} :
        new = [meta |-> meta, response |-> response, writers |-> file.writers]
  BY DEF WithMeta, WithResponse
<1> QED BY <1>1, <1>2 DEF Entry

\* A file that is opened is an entry that nobody has written to (Cache.Put).
LEMMA CreatedTyped ==
  ASSUME TypeOK, NEW q \in Request
  PROVE  /\ Created(q) \in Entry
         /\ Created(q).meta = NoMeta /\ Created(q).response = NoResponse
         /\ \A p \in Created(q).writers : p = q \/ put[p] \in {"meta", "response"}
<1>1. storage[URL(q)] \in Entry \cup {NoEntry}
  BY UrlOfRequest DEF TypeOK
<1>2. storage[URL(q)] # NoEntry => storage[URL(q)].writers \subseteq Request
  BY <1>1 DEF Entry
<1> QED BY <1>2 DEF Created, Entry

\* An object is an entry of its only writer.
LEMMA UploadTyped ==
  ASSUME TypeOK, NEW q \in Request
  PROVE  [meta |-> MetaOf(q), response |-> ResponseOf(q), writers |-> {q}] \in Entry
<1>1. MetaOf(q) \in Meta /\ ResponseOf(q) \in Response
  BY CacheAssumption DEF TypeOK, MetaOf, ResponseOf, Meta, Response
<1> QED BY <1>1 DEF Entry

\* Only the file of the request changes, if it is still there, to what the write makes of it.
LEMMA MetaWritten ==
  ASSUME TypeOK, NEW q \in Request, WriteFile(q, WithMeta(q, storage[URL(q)]))
  PROVE  \/ UNCHANGED storage
         \/ /\ storage[URL(q)] \in Entry /\ q \in storage[URL(q)].writers
            /\ \E new \in WithMeta(q, storage[URL(q)]) :
                 storage' = [storage EXCEPT ![URL(q)] = new]
<1>1. storage[URL(q)] \in Entry \cup {NoEntry}
  BY UrlOfRequest DEF TypeOK
<1> QED BY <1>1 DEF WriteFile

\* The same of the response.
LEMMA ResponseWritten ==
  ASSUME TypeOK, NEW q \in Request, WriteFile(q, WithResponse(q, storage[URL(q)]))
  PROVE  \/ UNCHANGED storage
         \/ /\ storage[URL(q)] \in Entry /\ q \in storage[URL(q)].writers
            /\ \E new \in WithResponse(q, storage[URL(q)]) :
                 storage' = [storage EXCEPT ![URL(q)] = new]
<1>1. storage[URL(q)] \in Entry \cup {NoEntry}
  BY UrlOfRequest DEF TypeOK
<1> QED BY <1>1 DEF WriteFile

-----------------------------------------------------------------------------
(* Types.                                                                  *)

\* The initial states have their types.
LEMMA TypeInit == Init => TypeOK
  BY CacheAssumption DEF Init, TypeOK, Amount, Labels

\* A lookup ends with what it may end with (viewHandler, Cache.Get).
LEMMA LookupTyped ==
  ASSUME TypeOK, NEW q \in Request, Miss(q) \/ LookupFails(q)
  PROVE  /\ lookup' \in [Request -> {"none", "hit", "miss", "error"}]
         /\ pc' \in [Request -> Labels]
         /\ answers' \in [Request -> Seq(Answer)]
<1>1. Failure("error") \in Answer
  BY DEF Failure, Answer, Amount
<1>2. CASE Miss(q)
  BY <1>2 DEF TypeOK, Miss, Go, Labels
<1>3. CASE LookupFails(q)
  BY <1>1, <1>3 DEF TypeOK, LookupFails, Respond, Go, Labels
<1> QED BY <1>2, <1>3

\* Every step keeps the types.
LEMMA TypeStep == ASSUME CacheInv, [Next]_vars PROVE TypeOK'
<1>1. CASE Tick
  BY <1>1, CacheAssumption DEF CacheInv, Tick, TypeOK, Go, Respond, Failure, Answer, Amount, Labels
<1>3. CASE UNCHANGED vars
  BY <1>3, CacheAssumption DEF CacheInv, vars, TypeOK, Go, Respond, Failure, Answer, Amount, Labels
<1>4. ASSUME NEW q \in Request, Handle(q) PROVE TypeOK'
  <2>1. CASE Refuse(q)
    BY <2>1, CacheAssumption DEF CacheInv, Refuse, TypeOK, Go, Respond, Failure, Answer, Amount, Labels
  <2>2. CASE Exists(q)
    BY <2>2, CacheAssumption DEF CacheInv, Exists, Miss, TypeOK, Go, Respond, Failure, Answer, Amount, Labels
  <2>3. CASE Open(q)
    <3>1. storage[URL(q)] \in Entry \cup {NoEntry}
      BY UrlOfRequest DEF CacheInv, TypeOK
    <3>2. opened' \in [Request -> Entry \cup {NoEntry}]
      BY <2>3, <3>1 DEF CacheInv, Open, TypeOK
    <3>3. CASE Go(q, "validate") /\ UNCHANGED <<lookup, answers>>
      BY <2>3, <3>2, <3>3 DEF CacheInv, Open, TypeOK, Go, Labels
    <3>4. CASE Miss(q) \/ LookupFails(q)
      BY <2>3, <3>2, <3>4, LookupTyped DEF CacheInv, Open, TypeOK
    <3> QED BY <2>3, <3>3, <3>4 DEF Open
  <2>4. CASE Validate(q)
    <3>1. opened' \in [Request -> Entry \cup {NoEntry}] /\ storage' \in [URLs -> Entry \cup {NoEntry}]
      BY <2>4, UrlOfRequest DEF CacheInv, Validate, TypeOK
    <3>2. CASE Valid(q, opened[q].meta)
      BY <2>4, <3>1, <3>2 DEF CacheInv, Validate, TypeOK, Go, Labels
    <3>3. CASE Miss(q) \/ LookupFails(q)
      BY <2>4, <3>1, <3>3, LookupTyped DEF CacheInv, Validate, TypeOK
    <3> QED BY <2>4, <3>2, <3>3 DEF Validate
  <2>5. CASE ReadFails(q)
    BY <2>5, CacheAssumption DEF CacheInv, ReadFails, TypeOK, Go, Respond, Failure, Answer, Amount, Labels
  <2>6. CASE Read(q)
    BY <2>6, CacheAssumption DEF CacheInv, Read, TypeOK, Go, Respond, Failure, Answer, Amount, Labels
  <2>7. CASE WriteHit(q)
    BY <2>7, CacheAssumption DEF CacheInv, WriteHit, TypeOK, Go, Respond, Answer, Amount, Labels
  <2>8. CASE WriteResponse(q)
    BY <2>8, CacheAssumption DEF CacheInv, WriteResponse, TypeOK, Go, Respond, Failure, Answer, Amount, Labels
  <2> QED BY <1>4, <2>1, <2>2, <2>3, <2>4, <2>5, <2>6, <2>7, <2>8 DEF Handle
<1>5. ASSUME NEW q \in Request, PutCache(q) PROVE TypeOK'
  <2>1. CASE PutTakes(q)
    BY <2>1, CacheAssumption DEF CacheInv, PutTakes, TypeOK, Go, Respond, Failure, Answer, Amount, Labels
  <2>2. CASE PutCreates(q)
    <3>1. storage' \in [URLs -> Entry \cup {NoEntry}]
      BY <2>2, CreatedTyped DEF CacheInv, PutCreates, TypeOK
    <3> QED BY <2>2, <3>1 DEF CacheInv, PutCreates, TypeOK
  <2>3. CASE PutWritesMeta(q)
    <3>1. storage' \in [URLs -> Entry \cup {NoEntry}]
      <4>1. WriteFile(q, WithMeta(q, storage[URL(q)])) /\ TypeOK
        BY <2>3 DEF PutWritesMeta, CacheInv
      <4>2. CASE UNCHANGED storage
        BY <4>1, <4>2 DEF TypeOK
      <4>3. ASSUME storage[URL(q)] \in Entry, NEW new \in WithMeta(q, storage[URL(q)]),
                   storage' = [storage EXCEPT ![URL(q)] = new]
            PROVE  storage' \in [URLs -> Entry \cup {NoEntry}]
        <5>1. new \in Entry
          BY <4>1, <4>3, OutcomeTyped
        <5> QED BY <4>1, <4>3, <5>1 DEF TypeOK
      <4> QED BY <4>1, <4>2, <4>3, MetaWritten
    <3> QED BY <2>3, <3>1 DEF CacheInv, PutWritesMeta, TypeOK
  <2>4. CASE PutWritesResponse(q)
    <3>1. storage' \in [URLs -> Entry \cup {NoEntry}]
      <4>1. TypeOK
        BY DEF CacheInv
      <4>2. CASE WriteFile(q, WithResponse(q, storage[URL(q)]))
        <5>1. CASE UNCHANGED storage
          BY <4>1, <5>1 DEF TypeOK
        <5>2. ASSUME storage[URL(q)] \in Entry, NEW new \in WithResponse(q, storage[URL(q)]),
                     storage' = [storage EXCEPT ![URL(q)] = new]
              PROVE  storage' \in [URLs -> Entry \cup {NoEntry}]
          <6>1. new \in Entry
            BY <4>1, <5>2, OutcomeTyped
          <6> QED BY <4>1, <5>2, <6>1 DEF TypeOK
        <5> QED BY <4>1, <4>2, <5>1, <5>2, ResponseWritten
      <4>3. CASE Upload(q)
        BY <4>1, <4>3, UploadTyped DEF TypeOK, Upload
      <4> QED BY <2>4, <4>2, <4>3 DEF PutWritesResponse
    <3> QED BY <2>4, <3>1 DEF CacheInv, PutWritesResponse, TypeOK
  <2>5. CASE PutFails(q)
    BY <2>5, CacheAssumption DEF CacheInv, PutFails, TypeOK, Go, Respond, Failure, Answer, Amount, Labels
  <2> QED BY <1>5, <2>1, <2>2, <2>3, <2>4, <2>5 DEF PutCache
<1> QED BY <1>1, <1>3, <1>4, <1>5 DEF Next

-----------------------------------------------------------------------------
(* What a step keeps of the rest of the invariant.                         *)

\* A handler that knows nothing yet reads after a miss or an error.
LEMMA LookupPosition ==
  ASSUME CacheInv, NEW q \in Request, pc[q] \in {"start", "open", "validate"},
         Miss(q) \/ LookupFails(q), put' = put
  PROVE  Position'
<1>1. lookup[q] = "none" /\ put[q] = "none" /\ DOMAIN pc = Request /\ DOMAIN lookup = Request
  BY DEF CacheInv, Position, TypeOK
<1>2. PICK found \in {"miss", "error"} :
        pc' = [pc EXCEPT ![q] = "read"] /\ lookup' = [lookup EXCEPT ![q] = found]
  BY DEF Miss, LookupFails, Go
<1>3. Position
  BY DEF CacheInv
<1> QED BY <1>1, <1>2, <1>3 DEF Position

\* A handler looks once, and its put begins when it has read (viewHandler).
LEMMA PositionStep == ASSUME CacheInv, [Next]_vars PROVE Position'
<1>1. CASE Tick
  BY <1>1 DEF CacheInv, Tick, Position
<1>3. CASE UNCHANGED vars
  BY <1>3 DEF CacheInv, vars, Position
<1>4. ASSUME NEW q \in Request, Handle(q) PROVE Position'
  <2>1. CASE Refuse(q)
    BY <2>1 DEF CacheInv, Refuse, Position, TypeOK, Go
  <2>2. CASE Exists(q)
    <3>1. CASE Miss(q)
      BY <2>2, <3>1, LookupPosition DEF Exists
    <3>2. CASE Go(q, "open") /\ UNCHANGED <<lookup, answers>>
      BY <2>2, <3>2 DEF CacheInv, Exists, Position, TypeOK, Go
    <3> QED BY <2>2, <3>1, <3>2 DEF Exists
  <2>3. CASE Open(q)
    <3>1. CASE Miss(q) \/ LookupFails(q)
      BY <2>3, <3>1, LookupPosition DEF Open
    <3>2. CASE Go(q, "validate") /\ UNCHANGED <<lookup, answers>>
      BY <2>3, <3>2 DEF CacheInv, Open, Position, TypeOK, Go
    <3> QED BY <2>3, <3>1, <3>2 DEF Open
  <2>4. CASE Validate(q)
    <3>1. CASE Miss(q) \/ LookupFails(q)
      BY <2>4, <3>1, LookupPosition DEF Validate
    <3>2. CASE lookup' = [lookup EXCEPT ![q] = "hit"] /\ Go(q, "write")
      BY <2>4, <3>2 DEF CacheInv, Validate, Position, TypeOK, Go
    <3> QED BY <2>4, <3>1, <3>2 DEF Validate
  <2>5. CASE ReadFails(q)
    BY <2>5 DEF CacheInv, ReadFails, Position, TypeOK, Go
  <2>6. CASE Read(q)
    BY <2>6 DEF CacheInv, Read, Position, TypeOK, Go
  <2>7. CASE WriteHit(q)
    BY <2>7 DEF CacheInv, WriteHit, Position, TypeOK, Go
  <2>8. CASE WriteResponse(q)
    BY <2>8 DEF CacheInv, WriteResponse, Position, TypeOK, Go
  <2> QED BY <1>4, <2>1, <2>2, <2>3, <2>4, <2>5, <2>6, <2>7, <2>8 DEF Handle
<1>5. ASSUME NEW q \in Request, PutCache(q) PROVE Position'
  <2>1. CASE PutTakes(q)
    BY <2>1 DEF CacheInv, PutTakes, Position, TypeOK
  <2>2. CASE PutCreates(q)
    BY <2>2 DEF CacheInv, PutCreates, Position, TypeOK
  <2>3. CASE PutWritesMeta(q)
    BY <2>3 DEF CacheInv, PutWritesMeta, Position, TypeOK
  <2>4. CASE PutWritesResponse(q)
    BY <2>4 DEF CacheInv, PutWritesResponse, Position, TypeOK
  <2>5. CASE PutFails(q)
    BY <2>5 DEF CacheInv, PutFails, Position, TypeOK
  <2> QED BY <1>5, <2>1, <2>2, <2>3, <2>4, <2>5 DEF PutCache
<1> QED BY <1>1, <1>3, <1>4, <1>5 DEF Next

\* An entry is opened to be validated, and served when it was valid (Cache.Get).
LEMMA OpenedStep == ASSUME CacheInv, [Next]_vars PROVE Opened'
<1>1. CASE Tick
  BY <1>1 DEF CacheInv, Tick, Opened
<1>3. CASE UNCHANGED vars
  BY <1>3 DEF CacheInv, vars, Opened
<1>4. ASSUME NEW q \in Request, Handle(q) PROVE Opened'
  <2>1. CASE Refuse(q)
    BY <2>1 DEF CacheInv, Refuse, Opened, Position, TypeOK, Go, Valid, Readable
  <2>2. CASE Exists(q)
    BY <2>2 DEF CacheInv, Exists, Miss, Opened, Position, TypeOK, Go, Valid, Readable
  <2>3. CASE Open(q)
    <3>1. /\ \A p \in Request \ {q} : pc'[p] = pc[p] /\ lookup'[p] = lookup[p] /\ opened'[p] = opened[p]
          /\ lookup'[q] # "hit" /\ (pc'[q] = "validate" => Readable(opened'[q]))
      <4>1. pc[q] = "open" /\ lookup[q] = "none"
        BY <2>3 DEF CacheInv, Open, Position
      <4>2. CASE LookupFails(q) /\ UNCHANGED opened
        BY <4>2 DEF CacheInv, TypeOK, LookupFails, Go
      <4>3. CASE Miss(q) /\ UNCHANGED opened
        BY <4>3 DEF CacheInv, TypeOK, Miss, Go
      <4>4. CASE /\ Readable(storage[URL(q)])
                 /\ opened' = [opened EXCEPT ![q] = storage[URL(q)]]
                 /\ Go(q, "validate") /\ UNCHANGED <<lookup, answers>>
        BY <4>1, <4>4 DEF CacheInv, TypeOK, Go
      <4> QED BY <2>3, <4>2, <4>3, <4>4 DEF Open
    <3> QED BY <3>1 DEF CacheInv, Opened
  <2>4. CASE Validate(q)
    BY <2>4 DEF CacheInv, Validate, Miss, LookupFails, Opened, Position, TypeOK, Go, Valid, Readable
  <2>5. CASE ReadFails(q)
    BY <2>5 DEF CacheInv, ReadFails, Opened, Position, TypeOK, Go, Valid, Readable
  <2>6. CASE Read(q)
    BY <2>6 DEF CacheInv, Read, Opened, Position, TypeOK, Go, Valid, Readable
  <2>7. CASE WriteHit(q)
    BY <2>7 DEF CacheInv, WriteHit, Opened, Position, TypeOK, Go, Valid, Readable
  <2>8. CASE WriteResponse(q)
    BY <2>8 DEF CacheInv, WriteResponse, Opened, Position, TypeOK, Go, Valid, Readable
  <2> QED BY <1>4, <2>1, <2>2, <2>3, <2>4, <2>5, <2>6, <2>7, <2>8 DEF Handle
<1>5. ASSUME NEW q \in Request, PutCache(q) PROVE Opened'
  <2>1. CASE PutTakes(q)
    BY <2>1 DEF CacheInv, PutTakes, Opened
  <2>2. CASE PutCreates(q)
    BY <2>2 DEF CacheInv, PutCreates, Opened
  <2>3. CASE PutWritesMeta(q)
    BY <2>3 DEF CacheInv, PutWritesMeta, Opened
  <2>4. CASE PutWritesResponse(q)
    BY <2>4 DEF CacheInv, PutWritesResponse, Opened
  <2>5. CASE PutFails(q)
    BY <2>5 DEF CacheInv, PutFails, Opened
  <2> QED BY <1>5, <2>1, <2>2, <2>3, <2>4, <2>5 DEF PutCache
<1> QED BY <1>1, <1>3, <1>4, <1>5 DEF Next

\* A first line that is written is the writer's, and leaves what is there of others mixed.
LEMMA OnMetaSound ==
  ASSUME TypeOK, NEW q \in Request, NEW file \in Entry, file # NoEntry, q \in file.writers,
         Sound(file, put, taken), NEW new \in WithMeta(q, file)
  PROVE  Sound(new, put, taken)
<1>1. PICK meta \in {MetaOf(q), NoMeta}, response \in {file.response, MixedResponse} :
        /\ new = [meta |-> meta, response |-> response, writers |-> file.writers]
        /\ Alone(file, q) => response = file.response
  BY DEF WithMeta
<1>2. meta # NoMeta => meta.by = q /\ meta.selectors = SelectorsOf[q]
  BY <1>1 DEF MetaOf
<1>3. \A p \in Request : Alone(file, p) => p = q
  BY DEF Alone
<1> QED BY <1>1, <1>2, <1>3 DEF Sound, Alone

\* A response that is written is the writer's when it is the only one.
LEMMA OnResponseSound ==
  ASSUME TypeOK, NEW q \in Request, NEW file \in Entry, file # NoEntry, q \in file.writers,
         Sound(file, put, taken), NEW new \in WithResponse(q, file)
  PROVE  Sound(new, put, taken)
<1>1. PICK meta \in {file.meta, NoMeta}, response \in {ResponseOf(q), MixedResponse} :
        /\ new = [meta |-> meta, response |-> response, writers |-> file.writers]
        /\ Alone(file, q) => response = ResponseOf(q)
  BY DEF WithResponse
<1>2. \A p \in Request : Alone(file, p) => p = q
  BY DEF Alone
<1> QED BY <1>1, <1>2 DEF Sound, Alone, ResponseOf

\* An entry keeps telling the truth of its writers, which have read once (Cache.Put).
LEMMA EntriesSoundStep == ASSUME CacheInv, [Next]_vars PROVE EntriesSound'
<1>1. CASE Tick
  BY <1>1 DEF CacheInv, Tick, Sound, EntriesSound, Position, TypeOK, Go
<1>3. CASE UNCHANGED vars
  BY <1>3 DEF CacheInv, vars, Sound, EntriesSound, Position, TypeOK, Go
<1>4. ASSUME NEW q \in Request, Handle(q) PROVE EntriesSound'
  <2>1. CASE Refuse(q)
    BY <2>1 DEF CacheInv, Refuse, Sound, EntriesSound, Position, TypeOK, Go
  <2>2. CASE Exists(q)
    BY <2>2 DEF CacheInv, Exists, Miss, Sound, EntriesSound, Position, TypeOK, Go
  <2>3. CASE Open(q)
    <3>1. storage' = storage /\ put' = put /\ taken' = taken
      BY <2>3 DEF Open
    <3>2. \A p \in Request : opened'[p] \in {opened[p], storage[URL(q)]}
      BY <2>3 DEF CacheInv, TypeOK, Open
    <3> QED BY <3>1, <3>2, UrlOfRequest DEF CacheInv, EntriesSound
  <2>4. CASE Validate(q)
    <3>1. put' = put /\ taken' = taken
      BY <2>4 DEF Validate
    <3>2. /\ \A u \in URLs : storage'[u] \in {storage[u], NoEntry}
          /\ \A p \in Request : opened'[p] \in {opened[p], NoEntry}
      BY <2>4, UrlOfRequest DEF CacheInv, TypeOK, Validate
    <3>3. Sound(NoEntry, put, taken)
      BY DEF Sound
    <3> QED BY <3>1, <3>2, <3>3 DEF CacheInv, EntriesSound
  <2>5. CASE ReadFails(q)
    BY <2>5 DEF CacheInv, ReadFails, Sound, EntriesSound, Position, TypeOK, Go
  <2>6. CASE Read(q)
    <3>1. /\ storage' = storage /\ opened' = opened /\ taken' = taken /\ put[q] = "none"
          /\ \A p \in Request : p # q => put'[p] = put[p]
      BY <2>6 DEF Read, CacheInv, Position, TypeOK
    <3>2. \A e \in Entry \cup {NoEntry} : Sound(e, put, taken) => Sound(e, put', taken')
      BY <3>1 DEF Sound, Entry
    <3> QED BY <3>1, <3>2 DEF CacheInv, EntriesSound, TypeOK
  <2>7. CASE WriteHit(q)
    BY <2>7 DEF CacheInv, WriteHit, Sound, EntriesSound, Position, TypeOK, Go
  <2>8. CASE WriteResponse(q)
    BY <2>8 DEF CacheInv, WriteResponse, Sound, EntriesSound, Position, TypeOK, Go
  <2> QED BY <1>4, <2>1, <2>2, <2>3, <2>4, <2>5, <2>6, <2>7, <2>8 DEF Handle
<1>5. ASSUME NEW q \in Request, PutCache(q) PROVE EntriesSound'
  <2>1. CASE PutTakes(q)
    <3>1. storage' = storage /\ opened' = opened /\ put[q] = "take"
      BY <2>1 DEF PutTakes
    <3>2. \A e : Sound(e, put, taken) => Sound(e, put', taken')
      <4> SUFFICES ASSUME NEW e, e # NoEntry, Sound(e, put, taken) PROVE Sound(e, put', taken')
        BY DEF Sound
      <4>1. q \notin e.writers
        BY <3>1 DEF Sound
      <4>2. \A p \in e.writers : put'[p] \notin {"none", "take"}
        BY <4>1, <2>1 DEF Sound, PutTakes, CacheInv, TypeOK
      <4>3. \A p \in Request : Alone(e, p) => taken'[p] = taken[p]
        BY <4>1, <2>1 DEF Alone, PutTakes, CacheInv, TypeOK
      <4> QED BY <4>2, <4>3 DEF Sound
    <3> QED BY <3>1, <3>2 DEF CacheInv, EntriesSound
  <2>2. CASE PutCreates(q)
    <3>1. /\ opened' = opened /\ taken' = taken /\ put' = [put EXCEPT ![q] = "meta"]
          /\ storage' = [storage EXCEPT ![URL(q)] = Created(q)] /\ TypeOK
      BY <2>2 DEF PutCreates, CacheInv
    <3>2. \A e : Sound(e, put, taken) => Sound(e, put', taken')
      BY <3>1 DEF Sound, TypeOK
    <3>3. Sound(Created(q), put', taken')
      <4>1. /\ Created(q).meta = NoMeta /\ Created(q).response = NoResponse
            /\ \A p \in Created(q).writers : p \in Request /\ (p = q \/ put[p] \in {"meta", "response"})
        BY <3>1, CreatedTyped DEF Entry
      <4> QED BY <3>1, <4>1 DEF Sound, TypeOK
    <3> QED BY <3>1, <3>2, <3>3, UrlOfRequest DEF CacheInv, EntriesSound, TypeOK
  <2>3. CASE PutWritesMeta(q)
    <3>1. /\ opened' = opened /\ taken' = taken /\ put' = [put EXCEPT ![q] = "response"]
          /\ WriteFile(q, WithMeta(q, storage[URL(q)])) /\ TypeOK
      BY <2>3 DEF PutWritesMeta, CacheInv
    <3>2. \A e : Sound(e, put, taken) => Sound(e, put', taken')
      BY <3>1 DEF Sound, TypeOK
    <3>3. CASE UNCHANGED storage
      BY <3>1, <3>2, <3>3 DEF CacheInv, EntriesSound
    <3>4. ASSUME storage[URL(q)] \in Entry, q \in storage[URL(q)].writers,
                 NEW new \in WithMeta(q, storage[URL(q)]),
                 storage' = [storage EXCEPT ![URL(q)] = new]
          PROVE  EntriesSound'
      <4>1. PICK file \in Entry : file = storage[URL(q)]
        BY <3>4
      <4>2. Sound(file, put, taken) /\ file # NoEntry
        BY <4>1, UrlOfRequest DEF CacheInv, EntriesSound, Entry, NoEntry
      <4>3. Sound(new, put, taken)
        <5>1. q \in file.writers /\ new \in WithMeta(q, file)
          BY <3>4, <4>1
        <5> QED BY <3>1, <4>2, <5>1, OnMetaSound
      <4> QED BY <3>1, <3>2, <3>4, <4>3, UrlOfRequest DEF CacheInv, EntriesSound, TypeOK
    <3> QED BY <3>1, <3>3, <3>4, MetaWritten
  <2>4. CASE PutWritesResponse(q)
    <3>1. /\ opened' = opened /\ taken' = taken /\ put' = [put EXCEPT ![q] = "done"]
          /\ (WriteFile(q, WithResponse(q, storage[URL(q)])) \/ Upload(q)) /\ TypeOK /\ put[q] = "response"
      BY <2>4 DEF PutWritesResponse, CacheInv
    <3>2. \A e : Sound(e, put, taken) => Sound(e, put', taken')
      BY <3>1 DEF Sound, TypeOK
    <3>3. CASE UNCHANGED storage
      BY <3>1, <3>2, <3>3 DEF CacheInv, EntriesSound
    <3>4. ASSUME storage[URL(q)] \in Entry, q \in storage[URL(q)].writers,
                 NEW new \in WithResponse(q, storage[URL(q)]),
                 storage' = [storage EXCEPT ![URL(q)] = new]
          PROVE  EntriesSound'
      <4>1. PICK file \in Entry : file = storage[URL(q)]
        BY <3>4
      <4>2. Sound(file, put, taken) /\ file # NoEntry
        BY <4>1, UrlOfRequest DEF CacheInv, EntriesSound, Entry, NoEntry
      <4>3. Sound(new, put, taken)
        <5>1. q \in file.writers /\ new \in WithResponse(q, file)
          BY <3>4, <4>1
        <5> QED BY <3>1, <4>2, <5>1, OnResponseSound
      <4> QED BY <3>1, <3>2, <3>4, <4>3, UrlOfRequest DEF CacheInv, EntriesSound, TypeOK
    <3>5. CASE Upload(q)
      <4>1. Sound([meta |-> MetaOf(q), response |-> ResponseOf(q), writers |-> {q}], put', taken')
        BY <3>1 DEF Sound, TypeOK, MetaOf, ResponseOf, Alone
      <4> QED BY <3>1, <3>2, <3>5, <4>1, UrlOfRequest DEF CacheInv, EntriesSound, TypeOK, Upload
    <3> QED BY <3>1, <3>3, <3>4, <3>5, ResponseWritten
  <2>5. CASE PutFails(q)
    BY <2>5 DEF CacheInv, PutFails, Sound, EntriesSound, Position, TypeOK, Go
  <2> QED BY <1>5, <2>1, <2>2, <2>3, <2>4, <2>5 DEF PutCache
<1> QED BY <1>1, <1>3, <1>4, <1>5 DEF Next

\* The response is not written while the put has not taken it (updateCache).
LEMMA BufferedStep == ASSUME CacheInv, [Next]_vars PROVE Buffered'
<1>1. CASE Tick
  BY <1>1 DEF CacheInv, Tick, Buffered, Position, TypeOK, Go, PutReturned
<1>3. CASE UNCHANGED vars
  BY <1>3 DEF CacheInv, vars, Buffered, Position, TypeOK, Go, PutReturned
<1>4. ASSUME NEW q \in Request, Handle(q) PROVE Buffered'
  <2>1. CASE Refuse(q)
    BY <2>1 DEF CacheInv, Refuse, Buffered, Position, TypeOK, Go, PutReturned
  <2>2. CASE Exists(q)
    BY <2>2 DEF CacheInv, Exists, Miss, Buffered, Position, TypeOK, Go, PutReturned
  <2>3. CASE Open(q)
    BY <2>3 DEF CacheInv, Open, Miss, LookupFails, Buffered, Position, TypeOK, Go, PutReturned
  <2>4. CASE Validate(q)
    BY <2>4 DEF CacheInv, Validate, Miss, LookupFails, Buffered, Position, TypeOK, Go, PutReturned
  <2>5. CASE ReadFails(q)
    BY <2>5 DEF CacheInv, ReadFails, Buffered, Position, TypeOK, Go, PutReturned
  <2>6. CASE Read(q)
    BY <2>6 DEF CacheInv, Read, Buffered, Position, TypeOK, Go, PutReturned
  <2>7. CASE WriteHit(q)
    BY <2>7 DEF CacheInv, WriteHit, Buffered, Position, TypeOK, Go, PutReturned
  <2>8. CASE WriteResponse(q)
    BY <2>8 DEF CacheInv, WriteResponse, Buffered, Position, TypeOK, Go, PutReturned
  <2> QED BY <1>4, <2>1, <2>2, <2>3, <2>4, <2>5, <2>6, <2>7, <2>8 DEF Handle
<1>5. ASSUME NEW q \in Request, PutCache(q) PROVE Buffered'
  <2>1. CASE PutTakes(q)
    BY <2>1 DEF CacheInv, PutTakes, Buffered, Position, TypeOK, Go, PutReturned
  <2>2. CASE PutCreates(q)
    BY <2>2 DEF CacheInv, PutCreates, Buffered, Position, TypeOK, Go, PutReturned
  <2>3. CASE PutWritesMeta(q)
    BY <2>3 DEF CacheInv, PutWritesMeta, Buffered, Position, TypeOK, Go, PutReturned
  <2>4. CASE PutWritesResponse(q)
    BY <2>4 DEF CacheInv, PutWritesResponse, Buffered, Position, TypeOK, Go, PutReturned
  <2>5. CASE PutFails(q)
    BY <2>5 DEF CacheInv, PutFails, Buffered, Position, TypeOK, Go, PutReturned
  <2> QED BY <1>5, <2>1, <2>2, <2>3, <2>4, <2>5 DEF PutCache
<1> QED BY <1>1, <1>3, <1>4, <1>5 DEF Next

\* A step of one handler that answers as it ends or as its lookup fails keeps the count.
LEMMA AnswersCounted ==
  ASSUME CacheInv, NEW q \in Request, pc[q] # "done",
         \A p \in Request \ {q} : pc'[p] = pc[p] /\ lookup'[p] = lookup[p] /\ answers'[p] = answers[p],
         \/ answers'[q] = answers[q] /\ pc'[q] # "done" /\ (lookup'[q] = "error" <=> lookup[q] = "error")
         \/ /\ \E answer : answers'[q] = Append(answers[q], answer)
            /\ \/ pc'[q] = "done" /\ lookup'[q] = lookup[q]
               \/ pc'[q] # "done" /\ lookup'[q] = "error" /\ lookup[q] # "error"
  PROVE  AnsweredOnce'
<1>1. \A p \in Request : Len(answers[p]) =
        (IF pc[p] = "done" THEN 1 ELSE 0) + (IF lookup[p] = "error" THEN 1 ELSE 0)
  BY DEF CacheInv, AnsweredOnce
<1>2. \A answer : Len(Append(answers[q], answer)) = Len(answers[q]) + 1
  BY DEF CacheInv, TypeOK
<1>3. Len(answers'[q]) = (IF pc'[q] = "done" THEN 1 ELSE 0) + (IF lookup'[q] = "error" THEN 1 ELSE 0)
  BY <1>1, <1>2
<1> QED BY <1>1, <1>3 DEF AnsweredOnce

\* A lookup that misses, or fails, is made by a handler that does not know of an error yet.
LEMMA LookupAnswers ==
  ASSUME CacheInv, NEW q \in Request, pc[q] \in {"start", "open", "validate"},
         Miss(q) \/ LookupFails(q)
  PROVE  AnsweredOnce'
<1>1. lookup[q] = "none"
  BY DEF CacheInv, Position
<1>2. /\ DOMAIN pc = Request /\ DOMAIN lookup = Request /\ DOMAIN answers = Request
  BY DEF CacheInv, TypeOK
<1>3. CASE Miss(q)
  <2>1. /\ pc' = [pc EXCEPT ![q] = "read"] /\ lookup' = [lookup EXCEPT ![q] = "miss"] /\ answers' = answers
    BY <1>3 DEF Miss, Go
  <2> QED BY <1>1, <1>2, <2>1, AnswersCounted
<1>4. CASE LookupFails(q)
  <2>1. /\ pc' = [pc EXCEPT ![q] = "read"] /\ lookup' = [lookup EXCEPT ![q] = "error"]
        /\ \E answer : answers' = [answers EXCEPT ![q] = Append(answers[q], answer)]
    BY <1>4 DEF LookupFails, Go, Respond
  <2> QED BY <1>1, <1>2, <2>1, AnswersCounted
<1> QED BY <1>3, <1>4

\* A handler that goes on answers nothing.
LEMMA GoesOn ==
  ASSUME CacheInv, NEW q \in Request, pc[q] # "done", NEW label, label # "done", Go(q, label),
         answers' = answers,
         lookup' = lookup \/ (lookup[q] # "error" /\ lookup' = [lookup EXCEPT ![q] = "hit"])
  PROVE  AnsweredOnce'
<1>1. DOMAIN pc = Request /\ DOMAIN lookup = Request /\ pc' = [pc EXCEPT ![q] = label]
  BY DEF CacheInv, TypeOK, Go
<1> QED BY <1>1, AnswersCounted

\* A handler that ends answers.
LEMMA EndsWith ==
  ASSUME CacheInv, NEW q \in Request, pc[q] # "done", NEW answer, Respond(q, answer), Go(q, "done"),
         lookup' = lookup
  PROVE  AnsweredOnce'
<1>1. /\ DOMAIN pc = Request /\ DOMAIN answers = Request
      /\ pc' = [pc EXCEPT ![q] = "done"] /\ answers' = [answers EXCEPT ![q] = Append(answers[q], answer)]
  BY DEF CacheInv, TypeOK, Go, Respond
<1> QED BY <1>1, AnswersCounted

\* A response is written as the handler ends, or as its lookup fails.
LEMMA AnsweredOnceStep == ASSUME CacheInv, [Next]_vars PROVE AnsweredOnce'
<1>1. CASE UNCHANGED <<pc, lookup, answers>>
  BY <1>1 DEF CacheInv, AnsweredOnce
<1>2. ASSUME NEW q \in Request, Handle(q) PROVE AnsweredOnce'
  <2>1. CASE Refuse(q)
    BY <2>1, EndsWith DEF Refuse
  <2>2. CASE Exists(q)
    <3>1. CASE Miss(q)
      BY <2>2, <3>1, LookupAnswers DEF Exists
    <3>2. CASE Go(q, "open") /\ UNCHANGED <<lookup, answers>>
      BY <2>2, <3>2, GoesOn DEF Exists
    <3> QED BY <2>2, <3>1, <3>2 DEF Exists
  <2>3. CASE Open(q)
    <3>1. CASE Miss(q) \/ LookupFails(q)
      BY <2>3, <3>1, LookupAnswers DEF Open
    <3>2. CASE Go(q, "validate") /\ UNCHANGED <<lookup, answers>>
      BY <2>3, <3>2, GoesOn DEF Open
    <3> QED BY <2>3, <3>1, <3>2 DEF Open
  <2>4. CASE Validate(q)
    <3>1. pc[q] = "validate" /\ lookup[q] = "none"
      BY <2>4 DEF Validate, CacheInv, Position
    <3>2. CASE Miss(q) \/ LookupFails(q)
      BY <3>1, <3>2, LookupAnswers
    <3>3. CASE lookup' = [lookup EXCEPT ![q] = "hit"] /\ Go(q, "write") /\ UNCHANGED answers
      BY <3>1, <3>3, GoesOn
    <3> QED BY <2>4, <3>2, <3>3 DEF Validate
  <2>5. CASE ReadFails(q)
    BY <2>5, EndsWith DEF ReadFails
  <2>6. CASE Read(q)
    BY <2>6, GoesOn DEF Read
  <2>7. CASE WriteHit(q)
    BY <2>7, EndsWith DEF WriteHit
  <2>8. CASE WriteResponse(q)
    BY <2>8, EndsWith DEF WriteResponse
  <2> QED BY <1>2, <2>1, <2>2, <2>3, <2>4, <2>5, <2>6, <2>7, <2>8 DEF Handle
<1>3. UNCHANGED <<pc, lookup, answers>> \/ \E q \in Request : Handle(q)
  BY DEF Next, Tick, PutCache, PutTakes, PutCreates, PutWritesMeta, PutWritesResponse, PutFails, vars
<1> QED BY <1>1, <1>2, <1>3

\* The invariant holds initially.
LEMMA InvInit == Init => CacheInv
<1> SUFFICES ASSUME Init PROVE CacheInv
  OBVIOUS
<1>1. TypeOK
  BY TypeInit
<1>2. Position /\ Opened
  BY DEF Init, Position, Opened
<1>3. EntriesSound /\ Buffered
  BY DEF Init, EntriesSound, Sound, Buffered
<1>4. AnsweredOnce
  BY DEF Init, AnsweredOnce
<1> QED BY <1>1, <1>2, <1>3, <1>4 DEF CacheInv

\* Every step keeps the invariant.
LEMMA InvStep == CacheInv /\ [Next]_vars => CacheInv'
  BY TypeStep, PositionStep, OpenedStep, EntriesSoundStep, BufferedStep, AnsweredOnceStep
  DEF CacheInv

-----------------------------------------------------------------------------
(* Theorems.                                                               *)

\* A request is answered from the cache by an entry with a first line that another one wrote
\* for the same selectors, though entries go by a hash of them and a file may have several
\* writers; what a file's only writer put behind it is its response, and all of it when
\* debugging (Cache.validateMeta, Cache.Put, Router.updateCache).
THEOREM CacheIsSound == Spec => []CacheSound
<1>1. CacheInv => HitIsOwn
  <2> SUFFICES ASSUME CacheInv, NEW q \in Request, lookup[q] = "hit"
               PROVE  \E p \in Request :
                        /\ SelectorsOf[p] = SelectorsOf[q] /\ p # q
                        /\ put[p] \notin {"none", "take"}
                        /\ p \in opened[q].writers
                        /\ Alone(opened[q], p) /\ opened[q].response # NoResponse =>
                             opened[q].response = ResponseOf(p)
    BY DEF HitIsOwn
  <2>1. /\ opened[q] # NoEntry /\ opened[q].meta # NoMeta
        /\ opened[q].meta.selectors = SelectorsOf[q] /\ put[q] = "none"
    BY DEF CacheInv, Opened, Position, Readable
  <2>2. opened[q].meta.by \in Request
    BY <2>1 DEF CacheInv, TypeOK, Entry, Meta
  <2>3. Sound(opened[q], put, taken)
    BY DEF CacheInv, EntriesSound
  <2> WITNESS opened[q].meta.by \in Request
  <2> QED BY <2>1, <2>2, <2>3 DEF Sound, ResponseOf
<1>2. CacheInv => StoredWhole
  <2> SUFFICES ASSUME CacheInv, debug, NEW u \in URLs, NEW q \in Request,
                      storage[u] # NoEntry, Alone(storage[u], q), storage[u].response # NoResponse
               PROVE  storage[u].response.amount = "all"
    BY DEF StoredWhole
  <2>1. Sound(storage[u], put, taken)
    BY DEF CacheInv, EntriesSound
  <2>2. /\ storage[u].response = [by |-> q, amount |-> taken[q].amount]
        /\ put[q] \notin {"none", "take"}
    BY <2>1 DEF Sound, Alone
  <2> QED BY <2>2 DEF CacheInv, Buffered, TypeOK
<1>3. CacheInv => CacheSound
  BY <1>1, <1>2 DEF CacheSound, CacheInv
<1> QED BY InvInit, InvStep, <1>3, PTL DEF Spec

\* A handler writes one response, and one more only when its lookup failed (viewHandler).
THEOREM AnswersOnce == Spec => []AnsweredOnce
<1>1. CacheInv => AnsweredOnce
  BY DEF CacheInv
<1> QED BY InvInit, InvStep, <1>1, PTL DEF Spec
============================================================================
