# A TLA+ model of joeydb-go

joeydb-go is the Go client of the JoeyDB daemon. Most of it is encoding and
validation; the part that is hard to get right is one function,
`Session.writeExact` (`src/session.go`), which turns a keyed write, over a network
that loses and delays messages and against a daemon that may crash or be
replaced, into one of three answers: committed, not committed, or "cannot know".
The project models that function, the HTTP exchange below it and the daemon it
relies on, and then the parts around it.

## 1. Inventory

| Part | State | Operations | Interacts with |
|---|---|---|---|
| Session write engine (`session.go`, `types.go`, `errors.go`) | per call: attempt, `writeUncertainty`, `lastErr`, private body copy; nothing shared between calls | `WriteExact` / `writeExact`: attempt, identity recheck, backoff, retry, stop | `Client.do` for every attempt and for `currentIdentity`; caller's context and injected `Backoff`/`Sleep` |
| HTTP exchange (`client.go`) | none | `do`, `decodeAPIError`, `decodeResponse`, `validateKeySyntax` | `http.Client`, which may resend by itself |
| Session preflight (`session.go`) | the immutable `Session` snapshot | `Require`, `validateCapabilities`, `cloneCapabilities` | two separate reads of the daemon |
| Client configuration (`config.go`) | immutable `Client` | `NewClient` and its options | gives `http.Client` a finite timeout |
| Write authoring and keys (`authoring.go`, `semantic_key.go`) | none | `WriteRequest`, `resolveWriteKey`, `validateWriteFeatures`, `SemanticKey` | the session's snapshot, `writeExact` |
| Typed writes (`write/`) | none | `Validate`, `Features`, `Encode` | `WriteRequest`, `ingest` |
| Ingestion (`ingestion.go`, `ingest/`) | none of its own; what it stores stays | strict `Parse`, `Validate`, `Compile`, `IngestionRequest` | `write`, `SemanticKey`, `WriteRequest` |
| Typed queries (`query/`, `query_results.go`) | none | `Validate`, `Encode`, result decoding | `Client.Query` |
| Error classification (`classify.go`, `errors.go`) | none | `Classify` and its predicates | error trees the engine returns |
| JoeyDB daemon (external) | current log identity; receipts per log and key | commit, replay, conflict, refuse, crash, be replaced | modelled from what `session.go` expects of it |

What is hard here: an attempt that timed out may still commit, now, later, or never;
the answer of a later attempt says nothing about an earlier one; the identity that
was compared is stale when the next request is sent; the caller may reuse its slice
while an old request is still being read; two calls may share a key; and `net/http`
may send a request twice without saying so. `PROJECT.json` lists these as hazards,
each at its line, with the property that watches it.

What makes each part correct:

* *write engine*: the three answers tell the truth (sections 3 and 4);
* *preflight*: what a session promises was true of the daemon it pins;
* *keys*: a resolved key carries the required prefix once, and distinct logical
  keys stay distinct on the wire;
* *typed writes*: what `Validate` accepts is what the reference rules allow, and
  every feature an accepted request uses is checked against the snapshot;
* *ingestion*: a document is decoded to what it says and nothing else, claims that compile keeps
  apart are told apart by validation, what the compiler says of itself keeps the write rules, and
  batches never contradict each other in the store;
* *typed reads*: a read after one's own write sees it or fails, and a label means in the body
  what it means in the request;
* *classification*: an error that may hide a commit is never classified as definite.

## 2. Modules

| Module | What it is |
|---|---|
| `Wire` | constant-level: a reply, the damage it can suffer on the way, the error `do` makes of it, and the predicates `possiblySubmitted`, `retryCandidate`, `validateWriteSuccess` |
| `Daemon` | external: `current` identity and `receipts`; commit, replay, conflict, prefix check, deferred durability, crash, replacement |
| `KeyedWrite` | any number of concurrent `WriteExact` calls, the network and the daemon; one action per step of `writeExact` |
| `WritePromise` | the abstract specification: a call takes effect at most once, and is told `success`, `failed` or `unknown` |
| `KeyedWriteInv` | the inductive strengthening and its environment assumption |
| `KeyedWriteProofs` | the theorems, and those of `CallErrors` |
| `Preflight` | one session from `Require` to the answer of a write, while databases are swapped behind the URL |
| `PreflightProofs` | its invariant and theorems |
| `WriteRules` | constant-level: the entries of a typed write and when two of them conflict |
| `WriteValidate` | the passes of `write.Request.Validate` over one request |
| `WriteValidateProofs` | its invariant and theorems |
| `Keys` | constant-level: the characters of keys; `resolveWriteKey`, `validateKeySyntax`, `SemanticKey` and its framing |
| `Authoring` | `WriteRequest`: the checks of single entries, deadlines, encoding, features, key, up to the call of `writeExact` |
| `AuthoringProofs` | its theorems |
| `Classify` | constant-level: `Classify`, `IsRetryable`, `RequestIDFromError` over error trees |
| `CallErrors` | the error value a call of `KeyedWrite` returns, and what a reader of `Classify` concludes from it |
| `SequenceLemmas` | induction over the naturals, and when sequences put together from others can be taken apart again |
| `TypedQuery` | constant-level: `query.Request`, its `Validate` and `Encode` |
| `TypedReads` | `QueryTable` and its siblings beside the application's writes and a daemon that lags or is replaced |
| `TypedReadsProofs` | its theorems |
| `IngestCompile` | `Session.Ingest`, batch after batch: validation, compilation, the derived key, and the facts the database ends up with |
| `IngestProofs` | its inductive invariant and theorems |
| `StrictDecode` | constant-level: which documents `Parse` decodes, to what, and the canonical JSON of a batch |
| `IngestJSON`, `IngestJSONProofs` | `Session.IngestJSON` beside `Ingest`; the proofs that documents keep what batches keep, are decoded to what they say, and survive their canonical JSON |
| `MCKeyedWrite`, `MCPreflight`, `MCWriteValidate`, `MCAuthoring`, `MCTypedReads`, `MCIngestCompile` | the instances TLC checks |

`Wire` is shared by `KeyedWrite` and `Preflight`; `KeyedWrite` composes the client with
`Daemon`; `CallErrors` composes it with `Classify`; `Authoring` uses `Keys` for its keys and
`WriteRules` for the conflicts that `WriteValidate`'s passes find; `IngestCompile`
instantiates `WriteRules` to ask whether what it compiles keeps these rules;
`IngestJSON` puts `StrictDecode` in front of `IngestCompile`.

### How `KeyedWrite` follows the code

A call's program counter `pc` names the places of `writeExact` between which
anything else may happen: `start`, `top` (loop head, context check), `send`, `await`
(inside `http.Client.Do`), `check` (inside `currentIdentity`), `backoff` (inside
`retry.Sleep`), `done`. `attempt` is the loop variable, `uncertainty` is the
`writeUncertainty` value (its attempt number stands for the request ID the error
carries; 0 is inactive), `lastErr` is `lastErr`, `exactBody` the copy taken at
entry, `buf` the caller's own slice. `prefix` is the epoch of the key prefix that the session's
capability snapshot requires, and `Pinned` its identity: `Require` reads the two in two
requests, so a mixed session, in which they belong to different databases, is an initial state too.

* `Enter` is lines 168-192: the writable check, the key's prefix, the size limit, the copy.
* `Top` is 193-207, `Send`, `SendLocalError`, `Timeout`, `ReceiveError` and
  `ReceiveOK` are what `s.client.do` can do and what the loop makes of it (208-241).
* `CheckUnavailable` and `Check` are 242-253; `NegativeBackoff`, `SleepCancelled`
  and `Retry` are 253-278.
* `validateKeySyntax` compares a key with the snapshot's prefix, never with the pinned identity.
* `Cancel` ends the caller's context at any time; `Reuse` overwrites its slice after
  the call has begun.
* `Serve`, `Shed`, `Interpose`, `TransportReplay` and the operator's `Sync`,
  `Crash` and `Replace` are the environment. A request stays in `wire` after its
  call has given up on it and may be executed any time later.

Data is kept only as far as a property can tell it apart. A body, key or log is a
model value; a status is one of four classes; a response is damaged in one of five
ways. Request IDs are attempt numbers. What the daemon stores in a receipt is extended by
the call and attempt that committed it, which no action reads.

### How `Preflight` follows the code

`ReadCapabilities` and `ReadIdentity` are the two requests of `Require` (`session.go:26-54`);
`Replace` may come between them or any time later. `validateCapabilities` keeps the checks
by name: each member of `offers` stands for the conjuncts about one part of the
manifest, and role, durability, limits and prefix are kept as values. `WriteRequest` resolves a
suffix or a full key (`authoring.go:80-115`); keys are an epoch and a length. The write
itself is one attempt, because retries are `KeyedWrite`'s subject.

### How `WriteValidate` follows the code

The five lists of a request are one sequence in the order in which `Validate` visits them.
`pass` is the running loop, and the maps `factTargets`, `slotOwner` and `exactOwner` are the
code's. `Shape` is lines 16-39, `TargetPass` the claims on fact IDs (47-123), `ClaimPass`
and `DestinationPass` the loops of `validateOwnership` (292-388). The checks of a single entry are
`Authoring`'s: they read nothing that another entry wrote.

### How `Authoring` follows the code

One action, `Author`, is one call of `WriteRequest` (`authoring.go:48-79`): `Validate`, then
`Encode`, then `validateWriteFeatures`, then `resolveWriteKey`, each of which may refuse the call.
Nobody else touches the state, so that the steps need not be told apart. `sent` keeps every body
and wire key that reached `writeExact`, because the properties compare calls with each other. A
deadline is a number of nanoseconds, `unixNano` wraps it to int64 as Go does, and a text is valid
UTF-8, or not, in which case `encoding/json` would replace it. A key is a sequence of characters,
and SHA-256 is taken to be injective: the digest part of a semantic key is the message that it
digests. The third comparison of a duration in `validateDeadline` can never refuse, for a
`time.Duration` is an int64 already; it is in the model as it is in the code. A semantic key is
refused as a suffix when its namespace starts with the session's prefix.

### How `CallErrors` follows the code

An error is the list of the nodes that `errors.As` visits, in its order. `Classify` tries the
error types in the code's order, which is what the property is about: an uncertain write wraps
transport, API and context errors that match later branches too. `returnedError` builds the value
that `writeExact` returns from the state in which `KeyedWrite` ends a call. Kept as it is in the
code: the `Retryable` of an uncertain write may be that of the failed introspection.

### How `TypedReads` follows the code

`Query` is `validateTypedQueryShape` and `QueryRequest` up to the request on the wire
(`query_results.go`), `Receive` is the return of `Client.Query` and `validateTypedQueryResult`.
`Serve`, `Break`, `Write` and `Replace` are the environment: an application that keeps the
watermarks of its receipts, and a daemon that may lag, be replaced and be put back. It is taken to
honour `required_watermark` and `log_identity`, nothing else. The client does not compare the
watermark that comes with a result with the one it asked for.

### How `IngestCompile` follows the code

A call goes through `Validate` (`CheckHeader`, `CheckClaim`, `CheckUnique`), `compile`
(`CompileClaim`; the records of the batch itself come first) and `submitIngestion` (`Submit`).
`enforce` is `enforceCanonicalLimit`: a typed batch is held to `MaxInputBytes` by its texts before
`Validate` (`CheckHeader`) and by its canonical JSON after it (`Canonicalize`), a document by
neither. The constants `LargeTexts` and `LargeJSON` say which batches exceed them. The identity of
a claim is computed in two places, `semanticClaim` in `Validate` and `claimEntity` in `compile`,
and each is a definition of its own. A label is a namespace and a rest. The SHA-256 digests are
taken to be injective, so that an entity is a pair of its namespace and what it is the digest of.
`Execute` is external: the daemon's atomic write under the derived key. The outcome of a call may
be uncertain with or without a commit, and the next call may bring the same batch again.

### How `IngestJSON` follows the code

`ParseJSON` is `ParseAndCompile` up to `Validate`: a document that `decodeStrict` refuses reaches
nothing else, and any other goes the way of a typed batch, but without the canonical limit, which
is all that is still known of where it came from. A document is the list of the members of all its
objects in the order of the text; each has the text that names it and the field that this text
matches. `inspectJSON` is the code's walk: duplicates among the names of one object as they are
spelled, so that `"Profile"` and `"PROFILE"` are two names, and explicit nulls. Decoding is
`encoding/json`'s, which is external: names match without regard to case and the last member wins.
What is refused from the text alone (size, UTF-8, surrogates, syntax, depth, trailing content) is
one flag.

## 3. Runs

| Run | Instance | Shows |
|---|---|---|
| `calls` | 2 calls, one key, two bodies, 2 attempts, prefix, durable | a definite error never hides a commit, the exact bytes are executed, the promise is implemented, and `Classify` tells the truth about every error that a call returns |
| `duplicate` | the same request twice, no prefix, 2 attempts | success is a durable receipt on the pinned log; a fresh success owns it; the origin bounds the commit |
| `retries` | 2 calls, one under the prefix of each database, a session mixed or not, 3 attempts of 2 deliveries each, no commit durability, fairness | a session writes to no log but the one whose prefix it requires, and a mixed one never reports a success; every call returns |
| `preflight` | 3 logs that each require a prefix, all manifests that matter | a success is on the pinned log and durable, and capabilities and identity were of one database |
| `write_rules` | every request of up to 3 entries over 2 slots, objects and facts | accepted requests have no conflict, and a refusal names the conflict it found |
| `authoring` | 2 calls of `WriteRequest` on each of some 27 sessions | different requests have different bodies; a sent body needs only what is advertised, and a refused one something that is not; a wire key names one operation; the prefix is applied once |
| `typed_reads` | some 500 reads, 2 logs of up to 2 writes, replaced and put back | a read after one's own write sees it or fails; labels stay literal |
| `ingest` | 2 ingestions of any of some 150 batches, typed or as one of 13 documents: up to 3 claims, both profiles, with and without a source, within and beyond the canonical limit | asserted facts have an accepted claim and the reverse; batches never disagree; repeating a batch changes nothing; the two identity checks agree; only assertions can break the write rules; a document is decoded to what it says; the canonical JSON of a batch is a document of it |
| `cross_log` | 1 call, no prefix | **violated**: a retry executes on a replacement database |
| `gateway` | an intermediary may answer `refused` | **violated**: a plain error although the write commits |
| `mixed_snapshot` | databases without prefixes | **violated**: an ingestion session succeeds on a volatile database |
| `spelled_twice` | 1 ingestion | **violated**: a document gives a field twice, in two spellings, and is accepted |

*Bounds.* Two calls are what it takes for conflict, replay and a race for one key. Two attempts
let the first be uncertain and the second definite or the reverse; three let the uncertain one lie
between. Two deliveries are one more than the client accounts for. Two logs are the pinned one and
another, and the database may be replaced back again; in `retries` each has a prefix, and either
of them may be the one the session requires; `preflight` has a third, so that the database read
first, the one read second and the one written to can all differ. A conflict in a write is between
two entries; a third stands between them or comes first. In `ingest`, `MaxClaims` 2 makes the
count limit bite, `MaxRecords` 25 lets some batches outgrow the request limit, and `MaxCalls` 2 is
enough for a batch to meet itself or any other one; `MaxJSSafeInteger` is scaled down from 2^53 -
1 because TLC counts in 32 bits. One batch has long texts and another only a long canonical JSON,
so that each of the two limits refuses one. The documents are canonical ones, one of which has
every optional field and one a canonical JSON that is too long, and a canonical one tampered with
in each way that `decodeStrict` looks for and in the three ways of spelling a field twice. In
`authoring`, int64 is scaled to -8..7 (`Half`) and a millisecond to 2 ns (`Millisecond`), so that
times one wrap apart and fractions of a millisecond exist; tokens have up to 6 characters
(`MaxToken`), which is room for a prefix, a prefix inside a suffix, and a namespace with its
digest. Two calls (`MaxSent`) are what a collision of bodies or keys takes. In `typed_reads`, two
watermarks let a read lag by one write, and two logs let the log of a receipt be gone and come
back. Nothing else bounds the steps: every variable has a finite range.

*Fairness.* Only `retries` checks liveness, and only the client's own steps are fair:
`WF(WriteExact(o))` for each call. `config.go:70-90` gives every client a positive
timeout, so `Client.Do` returns, local code does not block, and the default `Sleep` ends
with its timer. Nothing is assumed of the network, the daemon or the caller.

*Deadlock.* Checked, except where the modelled program ends: `write_rules` (a request has been
validated), `authoring` (a session has no more calls to make) and the two runs of ingestion
(`MaxCalls` calls have been made).

### Where code and documentation disagree

* `cross_log`: the comment of `WriteExact` says that automatic retries never cross a changed log
  identity. The identity is read before the sleep. Only the daemon's key prefix closes the window
  (`StaysOnPrefixLog`), and only for a session whose prefix belongs to the log it pins. A mixed
  session executes on the prefix's log, and what protects its caller is that
  `validateWriteSuccess` never lets it report a success.
* `gateway`: `possiblySubmitted` takes any non-2xx status as proof that nothing was committed,
  also one that did not come from the daemon.
* `mixed_snapshot`: `Require` validates the capabilities of one response and pins the identity of
  another. COMPATIBILITY.md says that insufficient durability is refused before mutation. With a
  key prefix the daemon's own prefix check binds the two (`preflight`).
* `spelled_twice`: the comment on `Parse` says that unknown or duplicate keys are rejected.
  `inspectJSON` compares names as they are spelled, `encoding/json` matches them without regard to
  case, and the last one wins. A document with `"profile"` and `"Profile"`, or with `"Profile"`
  and `"PROFILE"`, is accepted with the later of the two, so that a proposal may be read as
  trusted facts. `NothingGuessed` is about the documents that spell each field in one way.

Further observations, kept as assumptions or in the model and not as runs:

* With `MaxCopies > 1` (net/http resending a request that carries an Idempotency-Key)
  `DefiniteFailureNeverCommits` fails in the same way as under `gateway`.
* A refused first attempt (429) followed by a failed identity check is reported as uncertain
  although nothing was submitted; and a validated success whose body does not fit the caller's
  `out` is reported as uncertain. Both err on the safe side.
* The canonical JSON of an accepted document may exceed `MaxInputBytes`, for `json.Marshal` writes
  `<` as `\u003c` and `ParseAndCompile` does not measure it. The batch is stored, and `Parse`
  would refuse the manifest it is stored with. `CanonicalRoundTrip` therefore promises acceptance
  to typed batches only, and to documents only that their canonical JSON says what they said.
* `ingest.Validate` says that it applies the current write-surface rules. Two trusted claims of
  one triple that differ in confidence or evidence pass it, and compile to two records that ensure
  this triple, which `write.Validate` calls a duplicate target. `ConflictsOnlyInAssertions` says
  that nothing else can collide. Whether the daemon refuses such a write is not in this
  repository; the model takes it that it does.

## 4. Proofs

`KeyedWriteProofs` proves, for any number of calls, logs, keys, bodies and attempts:

| Theorem | Needs |
|---|---|
| `TypeCorrect`, `ExecutesExactBytes`, `UncertaintyHolds` | nothing |
| `PrefixKeepsLog` | `EpochPrefix` |
| `SuccessHolds`, `FreshSuccessHolds` | `CommitDurability` |
| `DefiniteFailureHolds`, `OriginHolds`, `ClassifiedTruthHolds` | `HonestTransport` |
| `SessionKeepsPromise` | `HonestTransport`, `CommitDurability` |

`HonestTransport` says that net/http delivers one `Do` at most once and that failures come
from the daemon. `gateway` shows what happens without it: it is the real assumption of the
code.

The argument has four layers. `ReceiptInv` (types, `BodyInv`, at most one receipt per key and log,
exact bytes) needs no assumption: a request on the wire belongs to a call whose private copy still
equals what the caller passed. `PrefixInv` adds that such a request was admitted by
`validateKeySyntax`: its key is of the snapshot's prefix, so only the log of that prefix executes
it, and a 2xx reply names that log. It assumes nothing of how the prefix and the pinned identity
came together. `SuccessInv` adds `ReplyBacked`: every 2xx reply on its way back is backed by a
durable receipt. The definite answers need `ControlInv` and `IInv`: *at any time everything of a
call that is on the wire or executed is covered*, either by the uncertainty (it is at or after the
origin attempt) or by being the attempt that is awaited right now (`Covered`), and a failure reply
means that its attempt is neither on the wire nor executed (`FailureMeansUnexposed`).
`DefiniteFailureNeverCommits` alone is not inductive because it says nothing of a call that has
not returned. `UncertaintyHolds` is an action property and needs only that an active uncertainty
stays with its call until it returns. `ClassifiedTruthHolds` adds `CauseInv`: an uncertainty is
about an attempt that went out, so its error carries that attempt's request ID; with
`OriginHolds`, the ID that `Classify` reports is early enough. The refinement maps a receipt on
the pinned log to "taken" and the result kinds to the three answers.

### Preflight

`PreflightProofs` needs nothing for `SessionTypeCorrect` and `SuccessIsOnPinnedLog`.
`MixedNeverSucceeds` needs `EveryEpochHasPrefix` (every database requires a prefix of its own),
and `IngestionWritesDurably` also `DurabilityIsFixed` (a database is always run with
the same durability). Both describe the deployment, and `mixed_snapshot` is what
happens without the first. The invariant `PInv` says that the snapshot was the manifest
of some node and passed `validateCapabilities`, that a submitted key satisfies the
snapshot's prefix, and that a success reply is backed by an execution on a node that
admits that key. The key is what ties the three together: it carries the
snapshot's prefix because `resolveWriteKey` put it there, and the executing node's
because that node admitted it.

### Write rules

`WriteValidateProofs` proves `AcceptedHolds` and `RefusalHolds` for requests of any
length. The invariant `VInv` says that each map holds exactly what the entries dealt
with so far have put in it (`TargetInv`, `OwnedInv`), and that these entries do not conflict
(`ApartInv`). The second half of the refusal property needs the first: a refusal is
justified by an entry already dealt with, which only exists because the maps hold nothing
else.

### Authoring

`AuthoringProofs` is about any texts, prefixes and requests of any length.
`SentIsAdvertisedHolds` and `RefusalIsMinimalHolds` rest on one lemma about operators: for a valid
request, what `Features` collects from the typed entries is exactly what its encoding
needs (`Features(r) = Needs(Encode(r))`), entry by entry and kind by kind.
`PrefixAppliedOnceHolds` needs that every wire key of a session extends its prefix.

`BodiesDistinguishHolds` takes the encoding apart again: a deadline by the division of its
nanoseconds into milliseconds, which validation made exact; an object, an item and the
transaction time field by field, each telling from the body which form it had. It assumes of a
request what Go's types give: a value of a tagged struct keeps the zero value in the
fields its tag does not use, and a time and a duration are int64.

`WireKeyNamesOperationHolds` is about codes. `SequenceLemmas` proves that words of a prefix-free
code can be read off their concatenation (`CodesDistinguish`), by induction over the number of
words. It is used twice: single bytes are such a code, and so are the frames of
`writeSemanticFrame`, since a frame begins with the length of what follows. So the message of a
semantic key determines its parts, and with the separator and the fixed length of the digest the
key determines the namespace too. It assumes that the parts of an operation are lists of bytes.

### Typed reads

`ReadYourWritesHolds` and `LabelsStayLiteralHolds` (`TypedReadsProofs`) hold for any logs,
watermarks, labels and requests, from one invariant: while a read is on its way, its request is
valid and its body is the encoding of it; an answer was given by a daemon that honours that body.
That `Encode` keeps a constraint, and a label what it means, is where the code comes in.

### Ingestion

`IngestProofs` is about any batches, labels and number of calls. What one batch writes is
described by three lemmas about sets of records: every record is `Sound` (an entity of the
compiler says of itself only what its digest determines), the triples of one turn of the loop are
`Closed` (a fact about a user's entity comes with its accepted claim, and the reverse), and two
records of one triple are assertions of trusted claims (`Apart`). All three survive concatenation
and union, which is why the store has them too: `ProvenanceIsFunctionalHolds`,
`AssertedIsAcceptedHolds`, `ConflictsOnlyInAssertionsHolds`. `KeyDeterminesBodyHolds` needs that a
loop that ran twice over one batch gives the same records. This is put as an invariant rather than
as an induction over the claims: the records are the end of every *trace* of `compile` up to the
current index (`Compiled`), and a receipt holds the end of such a trace. `NothingStoredTwiceHolds`
follows from the manifest: it is the only appended record, and one in the store means that there
is a receipt under the batch's key. `OneEntityPerClaimHolds` relates the two copies of the
identity check by the set of entities each has seen, and by the lemma that they compute one digest
(`SameIdentity`), which the two definitions do not share.

`IngestJSONProofs` shows that these properties hold of any mixture of documents and typed batches
(`DocumentsKeepProvenance`): a document's steps are steps of a call that is not held to
the canonical limit, which `IngestCompile` allows for any batch whose texts fit.

The other theorems are about what a document says. `DocumentInv` is the invariant: while a batch
is under way that came as a document, that document was accepted by `decodeStrict` and the batch
is its decoding. `NothingGuessedHolds` follows, because what remains of a field is its last member
(`LastMember`): either the member at hand is the last one, or a later one has the same name, and
then `inspectJSON` has found that it is spelled otherwise, which a document that spells each field
in one way rules out. `PlacesFilled` says that what is read from an object stands at the place of
that object in the batch, and not at another one's. The assumption on documents says how they nest
(`Nests`): a member belongs to an object of the batch and holds an object or the value of its
field.

`CanonicalRoundTripHolds` is for batches of any number of claims. `LimitInv` says that what was
held to the canonical limit and is past it fits. `BatchMarshalled` says that canonical JSON
consists of exactly the members of the batch (`BatchMembers`), each object's name once (`Once`);
both survive concatenation, and by induction over the claims the concatenation of their lists. So
the document is accepted if it fits (`MarshalAccepted`), and each field holds the one member there
is for it or its zero value (`FieldOf`, `FieldAbsent`), which gives back the batch
(`MarshalDecoded`). It assumes the types of the Go structs (`AnyBatch`) and that an optional field
has at most one value.

### Induction

The library's induction theorems take a predicate as a parameter, which the provers cannot
instantiate. `SequenceLemmas` states induction with a set in its place (`Induction`: a set of
naturals with 0 and every successor has them all), from the library's theorem that a well-founded
relation has minimal elements. `Flattened` uses it to unfold the recursive function inside
`FlattenSeq`, so that no property of a list is taken on trust.

### Model-checked only

* `Returns`: liveness is outside the prover's reach.
* The four violated properties: the runs show that they are false.

Every other property of a run is stated by a theorem. Of what the model takes from outside, the
proofs keep these assumptions: SHA-256 digests are injective, and the conditions on the deployment
named above.

## 5. Not modelled

* Formatting of error texts, JSON layout, headers other than the idempotency pair, TLS and proxy
  settings, `Ping` and the raw `Write`: nothing depends on them.
* `NewClient`: it fills in defaults once, without state. Its finite timeout justifies the fairness
  above.
* The scan for unpaired surrogates, the depth count and the size limit on the text of a document:
  each reads the bytes of a document, and refuses it whatever else it holds. Which batches exceed
  the limit on canonical JSON is a constant.
* The schema of a batch and the version of its producer, the syntax of digests, media types and
  URIs, and the length limits of texts: checks of single texts that no other behaviour depends on.
  Without them the model accepts more than the code.
* The 43 characters of a derived key's digest count as one, so that the length bounds on such keys
  are looser than the code's.
* The checks of a query result's shape and payload and of its order and offset are modelled as
  they are; no property repeats them.
* The result rows of typed queries (`query/results.go`), the response types of writes
  (`write/response.go`) and the constructors of ingestion (`ingest/constructors.go`): structs
  without behaviour.
* Two members that `encoding/json` would merge (`"producer"` and `"Producer"`, each an object) are
  left out of the documents; what becomes of them depends on the library.
