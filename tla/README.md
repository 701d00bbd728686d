# Verification of the dataspace connector

TLA+ modules, model-checking configurations and machine-checked proofs about the
Prometheus-X dataspace connector (PDC), a Node.js/Express server with a MongoDB
database. Paths are relative to the repository (`src/...`).

## 1. Inventory

A participant of the data space runs one connector. It talks to the connectors
of other participants, to the participant's own applications, and to the
catalogue, contract and consent services.

| component | state | operations | interacts through | hard behaviour |
|---|---|---|---|---|
| **Data exchange** (`controllers/public/v1/{consumer,provider,dataExchange}.public.controller.ts`, `services/public/v1/{consumer,provider}.public.service.ts`, `utils/types/dataExchange.ts`) | one `dataexchange` document per exchange and connector: status, `_id` of the peer's document, MIME data | trigger (`consumer/exchange`), create (`dataexchanges`), export (`provider/export`), import (`consumer/import`, one per resource), `updateStatus` | HTTP calls between the two connectors; the handlers of one process interleave at awaits | two copies of one status, written peer first; lost answers leave two import handlers running; time-out; crash; failures swallowed in the resource loop; a catch block that throws |
| **Usage control** (`access-control/PolicyEnforcementPoint.ts`, `PolicyDecisionPoint.ts`, `utils/pepVerification.ts`, `utils/leftOperandProcessor.ts`) | the singleton PEP with its current PDP; counter documents | permission before an export, left operands and counter increment after each delivery | called by export; counter read over the internal HTTP API | check-then-act on the counter; the singleton's PDP is replaced by every request; upsert without unique index |
| **Service chain** (`services/public/v1/{node,infrastructure,servicechainadapter}.public.service.ts`, `libs/loaders/nodeSupervisor.ts`, `completeServiceChain`, `updateDataExchangeDataProcessing`) | the `completed` flags of the chain in three or more copies of the record; the supervisor's nodes | node pre-callback, callback, resume; complete a service; set up and start a chain | dpcp-library; PUTs to consumer and provider | flags set in memory before the calls that announce them; the last index ends the exchange; resume racing the adapter's answer; supervisor visible before its set-up ends |
| **Consent exchange** (`controllers/public/v1/{consent,data}.public.controller.ts`, `services/public/v1/data.public.service.ts`, `utils/decryptConsent.ts`, `libs/third-party/{postAccessToken,postDataRequest,validateConsent}.ts`) | a record at each side, the token the consent holds, the manager's signature key in a file | export and import of a consent, data export and import, validation | consent manager (`sandbox/infrastructure/utils/consent/app.js` stands in for it), peer connector, applications | seven calls in a row over three parties, each with its own catch block; revocation and a second trigger on the way; a key that is never fetched again |
| **Users and consent identifiers** (`controllers/private/v1/user.private.controller.ts`, `libs/third-party/consent.ts`, `controllers/private/v1/consent.private.controller.ts`) | the user collection; the identifiers the consent manager holds | create, update, delete, import a sheet; creation by the manager and by an application; calls on a user's consents | consent manager | check-then-create; two stores and one failing call; saves that nobody awaits |
| **Configuration, catalogue, credentials** (`libs/loaders/configuration.ts`, `services/private/v1/{configuration,catalog,credential}.private.service.ts`, `server.ts`) | the configuration collection, `config.json`, the catalogue's registration, catalogue entries, credentials | start, registration, update, consent configuration, reset, reload, add and remove an origin, login | catalogue, consent manager | "the" configuration is whichever comes first; upserts and restarts that make a second one; a whole array saved late |
| **Representation fetcher** (`libs/loaders/representationFetcher.ts`) | none | a POST, PUT or GET to an application | applications, credentials | cases that send nothing |
| Policy fetcher, billing (`access-control/{PolicyFetcher,Billing}.ts`) | none of their own | look up the value of a left operand | HTTP | none |
| JWT, middlewares, routes, loggers | none of the protocols' | I/O, stateless checks | | none |

What makes each component correct:

* *Data exchange*: the two records and the trigger's answer tell one story, under
  any interleaving, lost call or crash; nothing reaches the consumer without
  permission; every trigger is answered; without faults both records end decided
  and equal. The code keeps this promise with exceptions, which the properties name:
  a failed binary import leaves its own records `PENDING` and may write its error
  into those of another exchange.
* *Usage control*: a delivery is counted exactly once, and a contract is not used
  more often than its policy allows.
* *Service chain*: no service runs past a connector whose checks refused the data,
  the connectors learn of a completed service in order, and the exchange is over only
  after the last one. That a completed service had its data is not promised: a service
  with nothing to call is completed like any other.
* *Consent*: no data moves without a consent that the manager validated and past
  both policies, a success means that the application has the data, and every
  trigger is decided in both records. *Users*: the connector and the manager agree,
  and nobody carries the identifier of another, as long as no update changes an
  internal id and the manager names each user once and in time. *Configuration*: there is one, with
  an app key, whoever started, updated or interrupted the connector; an origin goes
  only when it is named.

`PROJECT.json` lists, under `hazards`, every place of this code that is hard to
test, with the property that covers it or the reason none does yet.

## 2. Plan

1. `DataExchange` with `ExchangeOutcome`, its abstract specification, with
   `DataExchangeProofs` and `AgreementProofs` (done).
2. `UsageControl`, with `UsageControlProofs` (done).
3. `ServiceChain` with `ChainOutcome`, its abstract specification, with
   `ServiceChainProofs` (done).
4. `ConsentExchange` over `Representation`, with `ConsentOutcome`, its abstract
   specification, and `ConsentExchangeProofs` (done).
5. `ConnectorConfiguration` and `UserRegistry`, which extends it: the users share
   the process and the login of the configuration, with `ConfigurationProofs`,
   `OriginProofs` and `UserRegistryProofs` (done).
6. A module of pure functions (parameter mapping, resource mapping, URL handling,
   `getTargetedPolicies`, billing look-ups) checked against reference definitions
   over bounded inputs.

## 3. Modules

### DataExchange

One action per step of a handler between two awaits that matter. An exchange `x`
is one request to `consumer/exchange`; `origin[x]` is the side that receives it, and
`Site[x][s]` the connector at side `s`: a connector is the consumer of some exchanges
and the provider of others, has one process for all their handlers, and one collection
for all their records.

| variable | code |
|---|---|
| `status[x][s]`, `linked[x][s]` | the document at side `s`: its `status`, and whether it holds the peer's `_id` (`consumerDataExchange` / `providerDataExchange`) |
| `trig[x]` | `consumerExchange`: contract and creation, POST `dataexchanges`, export, polling, answer |
| `cre[x]` | `createDataExchange` at the peer, then `syncWithParticipant` |
| `exp[x]` | `ProviderExportService`: place, resource, the `updateStatus` in progress, and what its in-memory document believes (`clean`, `binary`) |
| `imp[x][r]` | `consumerImport` for resource `r`, in the same way; `doc` is the exchange whose record it holds in memory |
| `stored`, `count`, `faults` | what the applications took, counter increments, failed calls so far |

`updateStatus` is two steps, as in the code: `Update` then `ExportPut`/`ImportPut`
(the PUT to the peer), then `ExportSave`/`ImportSave`. Mongoose writes only
modified paths, so a save writes the status only if it differs from the one the
document was loaded with or last saved. A failed call may or may not have been
applied; the callee keeps running. `Crash(s)` ends every handler of a connector
and keeps its records; docker-compose restarts it.

Facts of the code the model relies on:

* The catch block of `consumerImport` looks its record up by the body's
  `providerDataExchange`, which a binary body does not have. The query then asks for
  a record of this connector without that field (`ImportCatch`), whatever exchange it
  belongs to. A record in which the connector is the provider has none
  (`ProviderRecords`), but it has the consumer's endpoint and id: `updateStatus`
  writes `CONSUMER_IMPORT_ERROR` at that consumer and then in the record, over
  whatever was there (`DocSide`). A record that is not linked yet has none either
  (`RecordsWithoutPeer`): its update throws inside the catch block, and Express 4 and
  Node end the process (`ImportStray`).
* `consumerError` addresses the consumer's record with the provider's own `_id`,
  which no record of the consumer has: it only throws. The `error`/`success`
  routes of a record are called from nowhere else and are not modelled.
* An axios call has no time-out, and a lost connection is an error. So a caller
  whose peer died goes on with an error, at once or later.
* `provider/import` writes no record; its failure is the second disjunct of
  `ImportApi`.

Bounds: `NResources` and `NPurposes` are the lengths of the arrays, `MaxFaults`
the number of failed calls and crashes. One exchange with two resources and two
faults already has every pair of concurrent handlers (trigger, export and two
imports, because a lost answer starts the second import beside the first). Two
exchanges are needed only for the catch block that finds another exchange's record:
run `two` has them, between two connectors of which each is the consumer of one and
the provider of the other, so that either import can find the other exchange's record
at any stage, linked or not. More connectors or exchanges add no new pair of roles.

Fairness (`FairSpec`): weak fairness of each handler. The event loop of Node runs
every callback that is ready, and awaits end because a lost connection is an
error. A time-out is a step of the trigger, and no fairness is given to faults.

### ExchangeOutcome

The promise of the two connectors to whoever reads the records: `Open`, `Permit`,
`Decide`, `Answer`. `DataExchange!ImplementsOutcome` maps the records to `record`,
the permission of the export handler to `permitted` and the end of the trigger to
`answer`. `Misfile` is the hole in the promise: the import error of a permitted
exchange, written into the records of another one, at any moment and over any outcome.

### UsageControl

Each request is one run of the export service as far as the policy is concerned:
new PDP in the singleton (`RequestAction`), contract fetched and policies added
(`LoadPolicies`), decision on the counter (`Decide`), deliveries (`Deliver`), and
after each successful one the left operands from the PDP the singleton has *now*
(`ListLeftOperands`) and the upsert (`ProcessCount`). Policies are `count < Limit`
on one offering per contract; their evaluation belongs to json-odrl-manager.
`overlapped` is a history variable for the properties of serial use.

### ServiceChain

The data of the provider passes services 2, 3, ... at infrastructure connectors
on its way to the consumer, whose service is the last; connector `i` runs
service `i`. One run of the chain per resource.

| variable | code |
|---|---|
| `status[c]`, `completed[c]` | the document at connector `c`: its `status`, and the `completed` flags of `serviceChain.services` |
| `trig` | `consumerExchange`: `syncWithInfrastructure` for each infrastructure connector, then the export |
| `exp` | `ProviderExportService` and `triggerInfrastructureFlowService` |
| `node[r][i]` | `nodeCallbackService` of service `i` in the run of resource `r` |
| `fin[r]` | `updateDataExchangeDataProcessing` at the provider for the last service, which records the success |
| `started`, `permitted` | the runs `createAndStartChain` started; the services whose checks (policy, contract, consent) let the data in |
| `resume[r][i]` | whether the chain is resumed after service `i`, and with what: the application's data, or the promise of the adapter's GET |

Who is told what follows from the fields a record holds, and this differs by
connector and by the side that triggered the exchange (`TellsConsumer`,
`Misaddressed`, `ErrorPeer`): the provider's record addresses the consumer, the
consumer's record the provider, and the copy at an infrastructure connector both
of them, or, if the consumer made it, the provider only, with the consumer's id
in `updateStatus`, so that the provider answers 404.

`completeServiceChain` sets the flag in the document in memory before it calls
anyone. When a call fails, the error that the callback saves afterwards writes
that flag too (`marked`): the reason for the second disjuncts of
`OthersToldFirst`.

The library `dpcp-library`, the applications and the adapter decide when a node
starts. The model lets node `i` start once the chain has been resumed after node
`i - 1`: by its application, which has the data then, or by the timer of the adapter.
After a POST the adapter has an answer; a GET it does not await (services in
`AdapterGets`), so the timer resumes the chain with a promise, before the application
was reached or without it ever being. The callback itself sees none of this: when an
offer has no resource, a representation no url or no known method, or `handle`
swallowed the error, it completes the service all the same (`NodeApp`).

Bounds: three services are the shortest chain with an infrastructure connector,
two resources give two runs that race, one fault is a lost call or a crash at any of
the three connectors, and the one in the middle has an adapter that gets its data (in
run `connectors` it has none).

### ChainOutcome

The promise of the connectors of a chain: runs start one resource after the other
(`Start`), the services are permitted in order (`Permit`), the ends and the connector
itself learn of a completed service, the latter last (`Mark`), an error reaches the ends
before the middle (`Fail`), and a success the consumer before the provider, after a run
that every connector permitted (`Succeed`). `ServiceChain!ImplementsOutcome` maps `status` to `record`, `completed` to
`marked` and `started` to `runs`; handlers, messages and crashes are invisible, and so
is the side that triggered the exchange.

### ConsentExchange and Representation

One exchange `x` is one trigger of the same consent at the manager. A handler calls
the next one and does nothing with its answer that matters, so a trigger is one
thread of control that passes from connector to connector: `h[x].pc` names the
handler that has it.

| variable | code |
|---|---|
| `setting` | what the decrypted consent and the catalogue say: contract, policies, representations |
| `granted`, `attached` | the manager's consent: its state, and the token `postAccessToken` last gave it |
| `pem[k]` | `keys/consentSignature.pem` at connector `k`: absent, the manager's, or another |
| `status[k][x]` | the `dataexchange` document at connector `k` |
| `h[x]` | the handler: `exportConsent`, `importConsent`, `exportData`, `importData` and the services they call, then `updateStatus` (`put`, `save`) and whether it runs in a catch block |
| `validated`, `delivered`, `answered` | what the manager validated; the request that the consumer's application got; the answers that the provider's API got |

`Decrypts` is `decryptSignedConsent`: a missing key is fetched with a login, and a
key that is there is used, right or wrong. A wrong one only gets there through the
configuration request (`UpdateConsentKey`), or by the manager changing its own.
`Representation` says which request a representation leads to, from its method, its
place in the URL, its credential and its proxy; `Throws` and `Nothing` are its two
ways to send none.

Facts of the code the model relies on:

* `exportConsent` answers the manager between creating its record and creating the
  peer's; what throws before that leaves the manager without an answer.
* The consumer's create handler tells the provider its `_id` before it answers
  (`syncWithParticipant`): the save that nobody awaits afterwards repeats it.
* The token handler posts the consent to the consumer before it answers, and a
  second trigger's token replaces the first's: the first trigger then fails its
  validation and ends in `CONSENT_EXPORT_ERROR`.
* `triggerGenericFlow` looks for `message` beside the `content` the answer is wrapped
  in: it never counts a use. That counter is `UsageControl`'s, and is no part of
  this model.
* The provider finds no record under its own id for the answer of an API and fails
  on that after it has delivered it: such an exchange ends in
  `CONSENT_IMPORT_ERROR` (`ImportAnswer`).
* A `basic` method has no case in `getRepresentation`, and an unknown method none
  anywhere: nothing is sent. A GET that gives nothing is refused by the consumer,
  and both records stay `PENDING`; a delivery that sends nothing is a success.

These are what `Excused` and the conditions of `SuccessMeansDelivered` name.

### ConsentOutcome

The promise of an exchange under a consent, to the user and to whoever reads the
records: both are opened, the provider's first (`Open`); the consent holds the token of
one exchange at a time (`Attach`) and can be revoked (`Revoke`); a token is validated
while the consent holds it and is granted (`Validate`); data goes to the application
(`Deliver`), and its answer to the provider's API (`Reply`), under a validated token,
where the policies permit and while nothing is decided. An outcome shows first at the
connector that is told (`Announce`), where only a failure may replace it, and then at
the one that told it (`Settle`): two decided records are equal.
`ConsentExchange!ImplementsOutcome` maps `status` to `record`, `attached` to `holder`,
the requests in `delivered` to `got` and `answered` to `replied`; handlers, keys, faults
and crashes are invisible.

Bounds: two triggers of one consent suffice for a token that replaces another;
eighteen settings differ from an ordinary one in what the handlers look at; one
fault is a failed call or a crash of one of the connectors, at any step.

Fairness: weak fairness of the steps of each trigger, for the reasons given for
`DataExchange`; a trigger need not happen, nor a revocation, a fault or a new key.

### ConnectorConfiguration and UserRegistry

One connector, with two request handlers and the registration that its start sets
off. `UserRegistry` extends `ConnectorConfiguration`: its requests run in the same
handlers, die with the same process and log in with the same keys.

| variable | code |
|---|---|
| `confs` | the configuration collection in insertion order; `findOne({})` is `confs[1]` |
| `reg`, `catalog`, `cred` | the catalogue's registration; the entries of one of its resources; a credential that `config.json` holds |
| `token` | the keys of the last login that was answered |
| `req[s]` | what handler `s` is doing, with what it has read |
| `users`, `cm` | the user collection; the consent manager's identifiers |
| `saves` | saves of an identifier that nobody awaits |
| `up`, `ended`, `faults`, `everReset`, `rough` | is the process up, and what has happened so far |

A save that nobody awaits is a step of its own (`SavePush`, `SaveResign`,
`SaveSplice`, `SaveIdentifier`); when mongoose rejects it, nothing handles the
rejection and the process ends (`ProcessEnds`), to be restarted by docker-compose.
Mongoose writes an appended entry whatever the version of the array, and an entry or
a whole array only over the version it loaded (`Current`).

Simplifications: a service key and its secret key are one value and read in one
step; a look-up and the insertion right after it are one step where nothing is
awaited between them but the database; requests are authorised; `config.json` is
complete; the deprecated login of a user is left out. The bodies of requests hold
the fields that the routes document: an update changes the e-mail and the internal id
(`UpdateUser`), and no identifier. The consent manager is trusted to name a user with
an identifier of that user (`CreateUserFromConsent`), but the user may be there
already, and the identifier may have been deleted while the call was on its way.

`rough` records what parts the two stores without a fault: requests on users that
overlap, keys the manager refused, an import that met a user it knew, an internal id
that an update changed (`renamed`), a user the manager named twice or too late
(`named`).

Bounds: three requests, one fault, two users, two origins, two pairs of keys of
which one is refused. Three requests give each race that the code has (a check, an
insertion by another request, a save) and a reset, an update and a restart in a row,
the shortest way to a second configuration. The instance starts unregistered
(`MCSpec`), while `Init` has the registered connector too. Handlers and users are
interchangeable.

## 4. Runs

| run | what it shows |
|---|---|
| `faults` | safety of one exchange, with the refinement: 2 resources, JSON and binary, 2 faults (423 131 states); under `FairSpec`, every trigger ends, and without faults every export decides both records, except after a binary import that failed (`BinaryLost`) |
| `two` | two exchanges in opposite roles, a binary resource each, 1 fault (1 717 662 states, with symmetry): what a failed import can do to the other exchange, with the refinement |
| `stored` | finding: an import answers with success although its application got nothing |
| `stops` | finding: a resource that fails its checks does not stop the exchange |
| `counting` | the counter never exceeds the deliveries; used serially it is exact and the limit is overrun by less than one export |
| `limit` | finding: overlapping exports overrun the limit |
| `operands` | finding: another request makes a delivery go uncounted |
| `chain` | a chain of three services and two resources, 1 fault (1 717 002 states): completed and successful mean permitted all the way, others are told first, and the refinement |
| `adapter` | finding: the adapter resumes the chain after a GET without its answer |
| `connectors` | finding: an infrastructure connector's record never shows the success |
| `participant` | one connector with its configuration and users: 3 requests, 1 fault (1 335 154 states, with symmetry) |
| `consent` | two triggers of one consent, 18 settings, 1 fault, 1 new key (about 460 000 states): consented delivery, grounded success, every trigger decided, and the refinement |

`CHECK_DEADLOCK FALSE` everywhere: a connector without requests is idle.

What the passing runs say, in words: a connector never shows an outcome of its
own before its peer has left PENDING; handlers find the records they look up;
data and success need a permission; a success answer is grounded in an import;
decided records stay decided and no refusal becomes a success; without faults both
records end equal. What they do not say: with one lost call the two records may
disagree for ever (nothing in the code repairs it), and a failed binary import leaves
both of its own records PENDING. That import may instead write its error into the
records of another exchange in which its connector is the provider, whatever they
said, a refusal or a success included: `RefusalIsFinal`, `FaultFreeAgreement` and
`PeerToldFirst` name this exception (`Meddled`), and `two` shows that the error of an
import is all that gets there.

In a chain, a service that shows as completed anywhere was permitted in a run that
every connector before it had permitted, no success is recorded before one run was
permitted everywhere, and the provider records it after the consumer. What does not
hold there: a completed service need not have had its data, because a service with
nothing to call is completed too and an adapter's GET is not awaited; and the two
records agree only if no node failed or refused, because the runs of two resources
may end differently and their messages cross.

With a consent, no data is delivered that the manager did not validate and both
policies permit, even if the consent is revoked or triggered again on the way: a
revocation after the validation comes too late, which `ConsentedDelivery` allows. A
record says `IMPORT_SUCCESS` only for data that the application has, for the methods
the connector knows. Two decided records are
equal, lost calls and crashes or not, and every trigger ends with both decided, but
for what `Excused` lists.

Of a participant: there is one configuration with an app key until a reset deletes
it; after a reset, an update makes one without an app key, and each restart appends
another that never takes effect. A registered connector has the entries of its
catalogue, unless the answer to its registration was lost. Unless an update changed an
internal id, no user has an identifier that was given for another; none has a deleted
one unless two requests on users overlapped or the manager named a user twice or too
late; the two stores agree unless something in `StoresAgree`'s list happened. The
exceptions are real: after a change of the internal id a user keeps the identifier of
the old one, and a second document of a user survives the deletion of the first with
the identifier that went with it. Two more facts of the code are in the model and no
property is about them: `createUser` refuses an internal id that exists, but neither
`createUserFromConsent` (541) nor an update (182) compares it with anything, so two
users may have one; and an update sends the manager the document from before it
(`findByIdAndUpdate` without `new`), so the manager keeps the old e-mail.

## 5. Proofs

Every safety property that a passing run checks is also a theorem: of all behaviours
of its module, for every value of the constants that the module's assumptions allow.
`LoginTokenVerifies` is a theorem only, since it follows from `OneConfiguration`.
The inductive invariants were checked by TLC on the instances of the runs before they
were proved.

### DataExchange

`DataExchangeProofs` proves, for all numbers of exchanges, connectors, resources,
purposes and faults and every distribution of the roles, `TypeOK`, `PeerToldFirst`, `HandlersFindTheirRecord`, `PolicyGate`,
`SuccessAnswerIsGrounded`, the action properties `DecidedStays` and
`RefusalIsFinal`, and `Spec => Outcome!Spec`.

The assumptions are those of the module: a connector does not exchange with itself,
arrays are not empty, formats are JSON or binary. `PeerToldFirst` is not inductive alone: a save is safe only because
the PUT before it has decided the peer's record, which `SaversHaveTold` records.
`HandlersFindTheirRecord` needs how far the records are for each place of the
trigger and the create handler (`RecordsFollowHandlers`); the policy gate needs
what the export handler knows where it stands (`PermissionFollowsExport`) and who
may have written an outcome (`OutcomesHaveAuthors`). An import handler that holds the
record of another exchange is about to write its own error there, and then ends
(`DocsOf`); whether its save finds the consumer told follows from `SaversHaveTold`,
which speaks of the record in memory. With the order in which the export handler sends
the resources (`SentInOrder`), `IInv` is their conjunction.
It is proved inductive action by action: an *effect* lemma per action says what the
action can change, and an *inductive step* lemma per part of the invariant uses those.
The action properties and the refinement are case splits over the same effects.

`AgreementProofs` adds `UsageNotOvercounted` and `FaultFreeAgreement`. Both rest on
the order of the export handler. It sends the resources one by one, each once, so the
successful imports that it has passed are as many as it may
have counted (`CountedOnce`, a cardinality that one step raises by at most one).
Without a fault, and as long as no other exchange has written into the records
(`Calm`), nobody runs on unattended: at any time the export handler or one import
handler has the turn (`TakeTurns`), the one that writes knows its own record
as it is (`FreshRecords`), and it tells the peer before it saves, so the records
agree whenever the turn passes on.

### UsageControl

`UsageControlProofs` proves `TypeOK`, `NeverOvercounted`, `SoloCountsAll` and
`SoloWithinLimit`. The counter is a sum over the counter documents; the proofs know
it as a function of running totals (`TotalIsSum`), which is shown to exist by
induction over the positions. `CountedOrPending` is the invariant behind
`NeverOvercounted`: what is counted, and the deliveries that a request is about to
count, are at most the deliveries. For serial use `OneAtATime` says that one request
is under way, and `ExactCount` and `WithinLimit` what it has delivered, counted and
been permitted where it stands.

### ServiceChain

`ServiceChainProofs` proves `TypeOK`, the six safety properties of the run and
`Spec => Outcome!Spec`, for chains of any length. The invariant follows the data: records exist before the export
starts (`RecordsFollowTrigger`), nodes and permissions belong to runs that were started
(`NodesFollowStart`), and a service is permitted, and its callback past the checks, only
after all services before it (`PermittedInOrder`), because the chain is resumed only
after a service that was permitted, with whatever data. So a success stands for a run
that was permitted everywhere (`GroundedSuccess`), and so does what a record shows as
completed (`CompletedPermitted`). A connector
marks its service when it has told the others (`TellersHaveTold`) or in a record that
has left PENDING (`CleanIsKnown`), and each run ends the exchange once (`FinishesOnce`).
`MarksFollow` is what marks imply, and `SmoothStory` is for `SmoothAgreement`: what the
two sides show as long as no node failed or refused. For the refinement
`AnnouncedFirst` adds the order of the runs, and that whoever saves an error has
written it to its peer; each action then maps to one step of `ChainOutcome` or to a
stutter (`ExportImplements`, `NodeImplements`, `FinishImplements`).

### ConsentExchange

`ConsentExchangeProofs` proves, for every set of triggers, every setting and every
number of faults and keys, `TypeOK`, `ConsentedDelivery` and
`SuccessMeansDelivered`, and `Spec => Outcome!Spec`. A delivery is consented because a handler that stands past
a check has passed it (`PassedChecks`), and a success is grounded because what a
handler is about to write is (`GroundedSuccess`), with what a request carries proved
about `Representation` (`ToApplicationSends`). Each action of a handler is shown to
be `Local`, changing one handler and what that handler may change, and to `Advance`
it only past checks it passed; the invariant follows from these two alone
(`LocalPreserves`). For the refinement `Follows` says how far the two records are for
each place of the handler, and `Justified` that what a handler is about to write, or
waits for, was allowed (`RInv`). An action whose handler marches on between two such
places (`Marches`) writes nothing that ConsentOutcome sees, and stutters; of the
others, each maps to one step (`PutStatusImplements`, `SaveStatusImplements`,
`ImportDeliverImplements` ...). The assumptions are the module's: settings are of
their type, bounds are numbers.

### ConnectorConfiguration

`ConfigurationProofs` proves, for every number of handlers, keys, origins, users,
requests and faults, `OneConfiguration`, `RegisteredWithAppKey`, `RegisteredIsListed`
and `LoginTokenVerifies` of all behaviours of `UserRegistry`: the requests on users
share the handlers and store the manager's session in the configuration. An upsert or
a restart makes a document only where there is none with an app key, and while no reset
came there is one (`StoreOK`); a registration under way carries what it read
(`RegistersGrounded`), and the handler that has the catalogue's answer is still there
when the entries are not (`Listing`). Requests on users need no types here: that each
leaves the configuration alone is enough (`UserMoves`).

`OriginProofs` proves `RemovalTakesTheNamed` on top of it. A removal writes a whole
array that it loaded before; while the document has the version that was loaded, its
entries have the identities that were loaded, place by place (`InDate`), because an
append and a written array make a new version and a signature changes no identity
(`Evolves`). What `splice` takes from an array is `SplicedLosesOne`. The assumptions of
both are those of the module: keys in `config.json` that are known, and an origin to
serve.

### UserRegistry

`UserRegistryProofs`, also on top of `ConfigurationProofs`, proves `TypeOK`,
`IdentifierIsOwn`, `NoDeadIdentifier` and `StoresAgree`. Its invariant has three
layers, each with what it takes to hold.

* `Own`, always: whose the identifiers and the documents are that the collection, a
  save, and a handler at each of its places carry, until an update changes an internal
  id (`Astray`); which identifiers and documents there are holds after it too. No two
  documents have one `_id`, and the manager has at most one live identifier per user. What an imported sheet is
  answered is a function of the rows, shown to extend what the manager had
  (`AllRegisteredGives`).
* `Calm`, in an undisturbed connector (no two requests on users overlapped, no internal
  id was changed, the manager named no user twice or too late): one request, or the
  saves that the last one left, are under way; of the documents of a user only the first has
  an identifier, and those in the collection and in saves are live.
* `Accord`, as long as nothing went wrong: every live identifier is in a document, in a
  save or with the request that will store or delete it (`Accounted`).

Most handlers leave what is there and add to it; one lemma each shows that
(`GrowsBy`), and `GrowsKeeps` that it keeps the three layers. A deleted document
(`DropsKeeps`), a deleted identifier, a stored identifier (`Gives`), a changed internal
id (`UserUpdateKeeps`), the end of the process and the steps of the configuration
(`Aside`) are the other ways to move.

### Out of the prover's reach

Only model-checked: the liveness properties `EveryTriggerEnds`, `ExportDecides` and
`EveryTriggerIsDecided`, because fairness speaks of ENABLED, which the prover does not
handle. The findings are counterexamples of the model checker.

## 6. Not modelled

* The exchange of a connector with itself (`triggerEcosystemFlow` 259-284), pre-chains
  and their callback, the set-up of the node supervisor and the nodes themselves
  (dpcp-library), and the run of the chain that takes over a consent exchange.
* What the applications of a service chain do with the data, and whether they have it:
  the code completes a service without asking.
* The format that the catalogue declares for each resource: the model has the one that
  the connector sends.
* The values of left operands other than `count` (policy fetcher, billing), the
  mapping of parameters and the populating of contracts: functions of their inputs.
* `services/public/v1/export.public.service.ts`, which nothing calls.
* Deletion of catalogue entries and credentials and the infrastructure
  configurations: plain create-read-update-delete, on documents nothing else writes.
* Refresh tokens, the middlewares that check the tokens of other parties, the wiring
  of the routes, and logging: they keep no state of these protocols.
* What the consent manager answers to the calls on a user's consents: the connector
  passes it through.
