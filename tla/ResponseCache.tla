--------------------------- MODULE ResponseCache ---------------------------
(***************************************************************************)
(* Requests of one route with a response cache: router.viewHandler and     *)
(* router/cache. An entry is a file named after a hash of the selectors: a *)
(* line with its meta data, then the response. Handlers run concurrently;  *)
(* the response is put into the cache by a goroutine of its own while it   *)
(* is written to the client.                                               *)
(***************************************************************************)
EXTENDS Integers, Sequences, FiniteSets

CONSTANTS
  Request,         \* requests, each handled once
  Selectors,       \* what the selectors of a request marshal to
  SelectorsOf,     \* request -> its selectors
  Hash,            \* selectors -> the URL of their entry
  MayRefuse,       \* requests a visitor or buildSession may turn down
  MayFail,         \* requests whose read, marshalling or AfterFetch may fail
  Throttled,       \* requests to which the storage may refuse a read or a write
  PartialVisible,  \* readers see a file while it is written (a local disk)
  Ttl,             \* TimeToLiveMs
  MaxTime          \* bound: the clock

ASSUME CacheAssumption ==
  /\ SelectorsOf \in [Request -> Selectors]
  /\ DOMAIN Hash = Selectors
  /\ MayRefuse \subseteq Request /\ MayFail \subseteq Request
  /\ Throttled \subseteq Request
  /\ PartialVisible \in BOOLEAN
  /\ Ttl \in Nat /\ MaxTime \in Nat

VARIABLES
  debug,    \* DATLY_DEBUG is set: the cache is written before the response
  now,      \* the clock
  pc,       \* request -> where its handler is
  opened,   \* request -> the entry it opened
  unread,   \* request -> what io.Copy has left in the payload's buffer
  lookup,   \* request -> how the cache answered
  answers,  \* request -> the responses written to its client
  put,      \* request -> where its putCache is
  taken,    \* request -> what putCache took from the buffer, and its expiry
  storage   \* URL -> the file there

vars == <<debug, now, pc, opened, unread, lookup, answers, put, taken, storage>>

URLs == {Hash[s] : s \in Selectors}

\* How much of a response; a buffer half copied counts as empty.
Amount == {"none", "all"}

\* A file has the meta data in its first line, which may not be there or not be readable,
\* and a response, which may not be there or be bytes of several. Its writers are those
\* with a descriptor of it since it was last truncated.
Meta == [by : Request, selectors : Selectors, expireAt : Nat]
NoMeta == [unreadable |-> TRUE]
Response == [by : Request, amount : Amount]
NoResponse == [amount |-> "unwritten"]
MixedResponse == [amount |-> "mixed"]
Entry == [meta : Meta \cup {NoMeta}, response : Response \cup {NoResponse, MixedResponse},
          writers : SUBSET Request]
NoEntry == [absent |-> TRUE]
Readable(entry) == entry # NoEntry /\ entry.meta # NoMeta

Answer == [status : {"refused", "error", "ok", "hit"}, amount : Amount]

Labels == {"start", "open", "validate", "read", "write", "done"}

TypeOK ==
  /\ debug \in BOOLEAN /\ now \in 0..MaxTime
  /\ pc \in [Request -> Labels]
  /\ opened \in [Request -> Entry \cup {NoEntry}]
  /\ unread \in [Request -> Amount]
  /\ taken \in [Request -> [amount : Amount, expireAt : Nat]]
  /\ lookup \in [Request -> {"none", "hit", "miss", "error"}]
  /\ answers \in [Request -> Seq(Answer)]
  /\ put \in [Request -> {"none", "take", "create", "meta", "response", "done"}]
  /\ storage \in [URLs -> Entry \cup {NoEntry}]

Init ==
  /\ debug \in BOOLEAN /\ now = 0
  /\ pc = [q \in Request |-> "start"]
  /\ opened = [q \in Request |-> NoEntry]
  /\ unread = [q \in Request |-> "none"]
  /\ taken = [q \in Request |-> [amount |-> "none", expireAt |-> 0]]
  /\ lookup = [q \in Request |-> "none"]
  /\ answers = [q \in Request |-> <<>>]
  /\ put = [q \in Request |-> "none"]
  /\ storage = [u \in URLs |-> NoEntry]

URL(q) == Hash[SelectorsOf[q]]
Go(q, label) == pc' = [pc EXCEPT ![q] = label]
Respond(q, answer) == answers' = [answers EXCEPT ![q] = Append(@, answer)]
Failure(status) == [status |-> status, amount |-> "none"]

Tick ==
  /\ now < MaxTime /\ now' = now + 1
  /\ UNCHANGED <<debug, pc, opened, unread, lookup, answers, put, taken, storage>>

-----------------------------------------------------------------------------
(* viewHandler, up to the cache.                                           *)

\* BeforeFetch closes or fails, or the selectors cannot be built.
Refuse(q) ==
  /\ pc[q] = "start" /\ q \in MayRefuse
  /\ Respond(q, Failure("refused")) /\ Go(q, "done")
  /\ UNCHANGED <<debug, now, opened, unread, lookup, put, taken, storage>>

Miss(q) ==
  /\ lookup' = [lookup EXCEPT ![q] = "miss"] /\ Go(q, "read")
  /\ UNCHANGED answers

\* The error of a lookup is written, and the handler goes on.
LookupFails(q) ==
  /\ lookup' = [lookup EXCEPT ![q] = "error"] /\ Go(q, "read")
  /\ Respond(q, Failure("error"))

\* Up to here, and in buildSession, the handler is by itself.
Exists(q) ==
  /\ pc[q] = "start"
  /\ \/ storage[URL(q)] = NoEntry /\ Miss(q)
     \/ storage[URL(q)] # NoEntry /\ Go(q, "open") /\ UNCHANGED <<lookup, answers>>
  /\ UNCHANGED <<debug, now, opened, unread, put, taken, storage>>

\* The file may be gone, and its first line not be there yet. To be turned down by
\* the storage's rate limit is a miss.
Open(q) ==
  /\ pc[q] = "open"
  /\ LET entry == storage[URL(q)] IN
     \/ /\ ~Readable(entry)
        /\ LookupFails(q) /\ UNCHANGED opened
     \/ /\ Readable(entry)
        /\ opened' = [opened EXCEPT ![q] = entry]
        /\ Go(q, "validate") /\ UNCHANGED <<lookup, answers>>
     \/ q \in Throttled /\ Miss(q) /\ UNCHANGED opened
  /\ UNCHANGED <<debug, now, unread, put, taken, storage>>

\* The hash of other selectors may be the same.
\* A faulty variant: an entry is known by its URL.
ValidEntry(q, meta) == now <= meta.expireAt

Valid(q, meta) == now <= meta.expireAt /\ meta.selectors = SelectorsOf[q]

\* The file of an entry that is not valid is deleted, which may fail when it is
\* gone.
Validate(q) ==
  /\ pc[q] = "validate"
  /\ \/ /\ Valid(q, opened[q].meta)
        /\ lookup' = [lookup EXCEPT ![q] = "hit"] /\ Go(q, "write")
        /\ UNCHANGED <<opened, answers, storage>>
     \/ /\ ~Valid(q, opened[q].meta)
        /\ opened' = [opened EXCEPT ![q] = NoEntry]
        /\ \/ Miss(q)
           \/ storage[URL(q)] = NoEntry /\ LookupFails(q)
        /\ storage' = [storage EXCEPT ![URL(q)] = NoEntry]
  /\ UNCHANGED <<debug, now, unread, put, taken>>

-----------------------------------------------------------------------------
(* readAndWriteResponse.                                                   *)

ReadFails(q) ==
  /\ pc[q] = "read" /\ q \in MayFail
  /\ Respond(q, Failure("error")) /\ Go(q, "done")
  /\ UNCHANGED <<debug, now, opened, unread, lookup, put, taken, storage>>

\* Read, marshal, compress; updateCache starts putCache, or runs it when debugging.
\* There is no entry to put after a lookup that failed.
Read(q) ==
  /\ pc[q] = "read"
  /\ unread' = [unread EXCEPT ![q] = "all"]
  /\ put' = [put EXCEPT ![q] = IF lookup[q] = "error" THEN "none" ELSE "take"]
  /\ Go(q, "write")
  /\ UNCHANGED <<debug, now, opened, lookup, answers, taken, storage>>

\* A faulty variant: an entry is expected even after a lookup that failed.
EntryPut(q) == debug => put[q] = "done"

\* A faulty variant: the cache is always written by a goroutine.
NeverWaits(q) == TRUE

PutReturned(q) == debug => put[q] \in {"none", "done"}

\* A faulty variant: the handler goes on after a response from the cache.
WriteHitGoOn(q) ==
  /\ pc[q] = "write" /\ lookup[q] = "hit"
  /\ Respond(q, [status |-> "hit", amount |-> "none"])
  /\ Go(q, "read") /\ lookup' = [lookup EXCEPT ![q] = "miss"]
  /\ UNCHANGED <<debug, now, opened, unread, put, taken, storage>>

\* The content length of a hit is the size of the new, empty entry: the meta data
\* that was read is used for validation only. net/http drops what is longer, so that
\* nothing of the response that is read by now gets to the client.
WriteHit(q) ==
  /\ pc[q] = "write" /\ lookup[q] = "hit"
  /\ Respond(q, [status |-> "hit", amount |-> "none"])
  /\ Go(q, "done")
  /\ UNCHANGED <<debug, now, opened, unread, lookup, put, taken, storage>>

\* io.Copy empties the buffer.
WriteResponse(q) ==
  /\ pc[q] = "write" /\ lookup[q] # "hit" /\ PutReturned(q)
  /\ unread' = [unread EXCEPT ![q] = "none"]
  /\ Respond(q, [status |-> "ok", amount |-> "all"])
  /\ Go(q, "done")
  /\ UNCHANGED <<debug, now, opened, lookup, put, taken, storage>>

-----------------------------------------------------------------------------
(* putCache: Cache.Put with the bytes the buffer still holds. entry.reader *)
(* is nil, so that close, which would move the file, does nothing.         *)

MetaOf(q) == [by |-> q, selectors |-> SelectorsOf[q], expireAt |-> taken[q].expireAt]
ResponseOf(q) == [by |-> q, amount |-> taken[q].amount]

\* To open a file truncates it for every descriptor that writes to it.
Created(q) ==
  LET file == storage[URL(q)] IN
  [meta |-> NoMeta, response |-> NoResponse,
   writers |-> {q} \cup (IF file = NoEntry THEN {}
                         ELSE {p \in file.writers : put[p] \in {"meta", "response"}})]

\* The only writer of a file writes one after the other.
Alone(file, q) == file.writers = {q}

\* Two writers write at offsets of their own. A first line on another one is its own, or
\* cannot be read when one is longer; and it may run into the response behind it.
WithMeta(q, file) ==
  {[meta |-> meta, response |-> response, writers |-> file.writers] :
     meta \in {MetaOf(q)} \cup (IF Alone(file, q) THEN {} ELSE {NoMeta}),
     response \in {file.response} \cup
       (IF Alone(file, q) \/ file.response = NoResponse THEN {} ELSE {MixedResponse})}

\* A response may run into another one's first line, leave the end of a longer response
\* or a gap, or be whole behind the first line of the other.
WithResponse(q, file) ==
  {[meta |-> meta, response |-> response, writers |-> file.writers] :
     meta \in {file.meta} \cup (IF Alone(file, q) THEN {} ELSE {NoMeta}),
     response \in {ResponseOf(q)} \cup (IF Alone(file, q) THEN {} ELSE {MixedResponse})}

\* What is written to a file that was deleted meanwhile is lost.
WriteFile(q, outcomes) ==
  IF storage[URL(q)] # NoEntry /\ q \in storage[URL(q)].writers
    THEN \E new \in outcomes : storage' = [storage EXCEPT ![URL(q)] = new]
    ELSE UNCHANGED storage

\* An object is there at once, when it has been written.
Upload(q) ==
  storage' = [storage EXCEPT ![URL(q)] =
                [meta |-> MetaOf(q), response |-> ResponseOf(q), writers |-> {q}]]

\* A faulty variant: the expiry is a unit early.
PutTakesEarly(q) ==
  /\ put[q] = "take"
  /\ taken' = [taken EXCEPT ![q] = [amount |-> unread[q], expireAt |-> now + Ttl - 1]]
  /\ put' = [put EXCEPT ![q] = IF PartialVisible THEN "create" ELSE "response"]
  /\ UNCHANGED <<debug, now, pc, opened, unread, lookup, answers, storage>>

PutTakes(q) ==
  /\ put[q] = "take"
  /\ taken' = [taken EXCEPT ![q] = [amount |-> unread[q], expireAt |-> now + Ttl]]
  /\ put' = [put EXCEPT ![q] = IF PartialVisible THEN "create" ELSE "response"]
  /\ UNCHANGED <<debug, now, pc, opened, unread, lookup, answers, storage>>

PutCreates(q) ==
  /\ put[q] = "create" /\ put' = [put EXCEPT ![q] = "meta"]
  /\ storage' = [storage EXCEPT ![URL(q)] = Created(q)]
  /\ UNCHANGED <<debug, now, pc, opened, unread, lookup, answers, taken>>

PutWritesMeta(q) ==
  /\ put[q] = "meta" /\ put' = [put EXCEPT ![q] = "response"]
  /\ WriteFile(q, WithMeta(q, storage[URL(q)]))
  /\ UNCHANGED <<debug, now, pc, opened, unread, lookup, answers, taken>>

PutWritesResponse(q) ==
  /\ put[q] = "response" /\ put' = [put EXCEPT ![q] = "done"]
  /\ IF PartialVisible THEN WriteFile(q, WithResponse(q, storage[URL(q)])) ELSE Upload(q)
  /\ UNCHANGED <<debug, now, pc, opened, unread, lookup, answers, taken>>

\* A file that could not be opened stays; one that could not be written is deleted.
PutFails(q) ==
  /\ put[q] \in {"create", "meta", "response"} /\ q \in Throttled
  /\ put' = [put EXCEPT ![q] = "done"]
  /\ storage' = [storage EXCEPT ![URL(q)] = IF put[q] = "create" THEN @ ELSE NoEntry]
  /\ UNCHANGED <<debug, now, pc, opened, unread, lookup, answers, taken>>

Handle(q) ==
  \/ Refuse(q) \/ Exists(q) \/ Open(q) \/ Validate(q)
  \/ ReadFails(q) \/ Read(q) \/ WriteHit(q) \/ WriteResponse(q)

PutCache(q) ==
  PutTakes(q) \/ PutCreates(q) \/ PutWritesMeta(q) \/ PutWritesResponse(q) \/ PutFails(q)

Next == Tick \/ \E q \in Request : Handle(q) \/ PutCache(q)

\* Goroutines that can run do.
Spec == Init /\ [][Next]_vars /\ \A q \in Request : WF_vars(Handle(q)) /\ WF_vars(PutCache(q))

-----------------------------------------------------------------------------
(* Properties.                                                             *)

\* A request is answered from the cache by an entry whose first line another one wrote for
\* the same selectors, although entries are found by a hash of them; and if that one was
\* the only writer of the file, the response behind it is what it had fetched
\* (Cache.validateMeta). Two writers of a file leave any response of the URL.
HitIsOwn ==
  \A q \in Request : lookup[q] = "hit" =>
    \E p \in Request :
      /\ SelectorsOf[p] = SelectorsOf[q] /\ p # q
      /\ put[p] \notin {"none", "take"}
      /\ p \in opened[q].writers
      /\ Alone(opened[q], p) /\ opened[q].response # NoResponse =>
           opened[q].response = ResponseOf(p)

\* When debugging, what a file's only writer put is the whole response:
\* Router.updateCache returns before writeResponse empties the buffer they share.
StoredWhole ==
  debug => \A u \in URLs, q \in Request :
    storage[u] # NoEntry /\ Alone(storage[u], q) /\ storage[u].response # NoResponse =>
      storage[u].response.amount = "all"

\* The cache and its readers: what is served is one's own, what is stored is whole.
CacheSound == TypeOK /\ HitIsOwn /\ StoredWhole

\* A client gets one response, two if the lookup in the cache failed: viewHandler
\* writes that error and goes on.
AnsweredOnce ==
  \A q \in Request : Len(answers[q]) =
    (IF pc[q] = "done" THEN 1 ELSE 0) + (IF lookup[q] = "error" THEN 1 ELSE 0)

\* Every handler and every putCache ends, in either mode.
Served == \A q \in Request : <>[](pc[q] = "done" /\ put[q] \in {"none", "done"})
=============================================================================
