# A TLA+ model of the IoT management panel's backend

The backend is a NestJS process. It serves operators over HTTP and WebSockets,
keeps its data in MongoDB and Redis, and talks to devices through an MQTT
broker. It runs on one event loop: code runs undisturbed from one `await` to
the next, and at every `await` any other request, message or timer may run.
Nearly all of its interesting behaviour comes from that, from three stores that
are written separately, and from calls that fail half way.

Contents: [inventory](#inventory) · [modules](#modules-and-code) ·
[runs](#runs) · [bounds](#bounds) · [fairness](#fairness) · [proofs](#proofs) ·
[findings](#disagreements-between-the-code-and-its-docs) · [not
modelled](#not-modelled) · [plan](#plan).

Source paths below are relative to `src/src/`.

## Inventory

### Components that keep or change state

| Component | State | Operations | What must hold |
|---|---|---|---|
| **Sessions** `session/session.service.ts` | Redis `session:<id>` (user, roles, ttl) and `user:sessions:<user>:<id>` (tracking key, ttl) | `createSession`, `getSession`, `extendSession`, `destroySession`, `invalidateUserSessions` | a session can be found by its user; a removed session stays removed; an invalidation is complete, and takes nobody else's |
| **Authentication** `auth/auth.service.ts` | none of its own | `signup`, `login`, `logout`, `changePassword`, `requestPasswordReset`, `resetPassword` | a changed password can be used, and ends the sessions opened under the old one |
| **Session guard** `common/guard/session-auth.guard.ts` | none | `canActivate`: get, then extend, before every guarded handler | a request acts for the user its session was issued to |
| **Users** `users/users.service.ts` | MongoDB `users` (email, password, roles, `isActive`, soft delete) | `createUser`, `createUserManually`, `updateUser`, `deleteUser`, `assignRoles`, `addRoles`, `removeRoles`, queries | emails are unique; a role operation takes effect as a whole; an account keeps a role; a deletion is final |
| **Roles guard** `common/guard/roles.guard.ts` | none: it reads the copy of the roles in the session | `canActivate` | what it judges by is what the account holds |
| **MQTT client** `mqtt-client/mqtt-client.service.ts` | `this.mqtt`, `isConnectedState`, `connectionAttempts`, the configuration | `connect`, `disconnect`, `reconnect`, `subscribe`, `unsubscribe`, `publish`, `updateConfiguration`, `testConnection`; the callbacks of mqtt.js | the flag means what it says; the service comes back after every fault; a connection test is answered once and leaves nothing behind |
| **MQTT adapter** `mqtt-client/adapter/mqtt-client.adapter.ts` | one mqtt.js client per adapter | connect, end, subscribe, unsubscribe, publish | — (its client's behaviour is the MQTT client's environment) |
| **Router** `mqtt-client/router`, `mqtt-client/handler` | a table of handlers, sorted by priority | `route`, `canHandle` | every topic devices use reaches its event |
| **Topics** `topic/topic.service.ts` | MongoDB `topics`: name (unique), device, use case, `isSubscribed` | `createTopic`, `createDeviceBaseTopic`, `createAllTopicsForDevice`, `updateTopic`, queries | every recorded device gets all its topics |
| **Devices** `device/device.service.ts` | MongoDB `sensors` (`deviceId`, `provisionState`, `isDeleted`, …), Redis `pending:<requestId>` | broadcast and unicast discovery, function assignment, hardware status, telemetry, deletion, queries | one record per device; discovered, then assigned, and never back; its columns hold what `SensorDto` documents |
| **Answers of devices** `responser/*.ts` | the same collections | one handler for each event of the router | an answer counts only while its request is pending; late and repeated answers do no harm |
| **Gateway** `gateway/gateway.service.ts` | connected sockets | five request messages that call the services above; emits to browsers | — |
| **Redis keys** `redis/redis.service.ts` | the Redis client | `get`, `set` with expiry, `del`, `scan` | — |

Components without state of their own: password hashing, cookies, sensor
validation, DTOs, errors and interceptors, configuration and start-up, logging.
`PROJECT.json` lists every component with what is and is not modelled.

### How they interact

* A guarded HTTP request passes `SessionAuthGuard` (Redis get), then
  `extendSession` (get, two writes), then its handler. `changePassword` goes on
  through `UsersService.updateUser` (MongoDB find, write) to
  `invalidateUserSessions` (a loop over SCAN with two deletions a key).
* `SessionAuthGuard` hands the roles that login copied into the session to
  `RolesGuard`; the account in MongoDB is not asked. A body passes the global
  `ValidationPipe` before its handler, and whatever is thrown passes
  `GlobalExceptionFilter` on its way to the client.
* An operator's request to a device (HTTP or WebSocket) stores or looks up a
  topic, publishes on it through the MQTT client, and stores the request id
  under `pending:` in Redis. In which order it does the last two differs from
  request to request.
* A message of a device comes in through an mqtt.js callback, the router's
  table and an event; the listener transforms and validates it against the
  pending id; the responder's handler reads and writes MongoDB in many steps.
* The MQTT client's connect callback creates and subscribes the broadcast topic
  and subscribes all topics MongoDB lists as subscribed. Every client that was
  ever made calls back into the same service object.

### What is hard

1. **Read, await, write.** `extendSession` writes back what it read;
   `handleDiscoveryResponse` decides on a record it looked up three awaits
   earlier; `createTopic` looks a unique name up and stores it later; `addRoles`
   writes the union with roles it read before.
2. **Two writes for one fact.** Session and tracking key; record and topics;
   `isSubscribed` and the broker's subscription. A failure, a crash or another
   request may come between.
3. **Shared fields, several writers.** `isConnectedState`, `connectionAttempts`
   and `this.mqtt` are written by the callbacks of abandoned clients too.
4. **Callbacks nobody awaits.** A rejection in the connect callback, or in the
   `updateTopic` calls of `disconnect`, ends the process.
5. **Devices answer when they like**, repeatedly, late, or under another
   request's id; ids expire.
6. **Data from devices is not checked where it counts**: `sensorData` is spread
   into the record without a validator, and later requests rely on it.
7. **Callbacks that race for one promise**: timer, connect and error of a
   connection test.
8. **Loops and retries must end**: SCAN, the reconnection of mqtt.js, and the
   topics a discovery creates one by one.

`PROJECT.json` lists each hazard at its line with the properties that would
catch it going wrong.

## Modules and code

```
SessionStore --- Auth ------- MCAuth          AuthProofs
                  :  \                         (EXTENDS Auth, TLAPS)
            SessionLife (abstract, INSTANCE)

                 MqttClient                    MqttProofs
 Router --- Provisioning                       ProvisioningProofs
                  :
            DeviceLife (abstract, INSTANCE)
 Errors --- Accounts --------- MCAccounts      AccountsProofs
 Schemas --+--------------------------------  SchemaProofs
           |-- DeviceData                      DeviceDataProofs
           \-- ConnectionTest                  ConnectionProofs
```

A line is EXTENDS; a proof module extends the module on its row and TLAPS, and
the last two also `SchemaProofs`. A colon is `INSTANCE` under a refinement
mapping. `map` in `PROJECT.json` gives the source lines of each definition.
Definitions whose comment starts with *Mutant* are wrong on purpose: each is a
plausible mistake in the code that some property must notice (listed under
`mutants`), and none is part of a specification. Variables called *history* are
read by properties only.

### SessionStore, Auth

`SessionStore` is the two kinds of Redis keys. `session[s]` is the value and
remaining time of `session:<s>`; `track[u][s]` is the time of the tracking key.
A write sets both value and time, a deletion or `Tick` removes. SCAN walks
buckets, one session id each, `ScanCount` buckets a call, and returns what is
there at that moment: keys that come and go during the walk may or may not be
reported, keys that stay are, which is what Redis promises.

`Auth` is the requests. A slot `req[r]` holds the request's program counter,
the session id, the user, the password offered, and the loop's state. Each
action is the code between one awaited call that touches shared state and the
next; its name is the method and the call (`extendGet`, `extendPut`,
`extendTrack`; `destroyGet`, `destroyDel`, `destroyUntrack`; `findUser`,
`updateFind`, `updateWrite`; `scan`, `invalidateDel`, `invalidateUntrack`).
`signup` and `login` are the account part of those calls, followed by
`createPut` and `createTrack`. `Arrive` is a guarded request reaching the
guard; it may carry any session id, also one long gone. `Fail` is a rejected
call: the request answers with an error and undoes nothing. A crash is `Fail`
of every request. A password is a term, a secret and how often it was hashed:
that is all `compareHash` depends on.

`SessionLife` is what the service promises of one session id: unborn, live,
ended, and never back. A live session may instead become *contested*, when a
removal meets a write-back of the same session; nothing is promised of it then.
`life` in `Auth` maps the Redis keys to it.

### MqttClient

`link[c]` is what mqtt.js does for client `c` (trying, online, waiting for its
next attempt, ending), `current` is the client of the adapter in `this.mqtt`,
`repo` the topics in MongoDB. `Connect`, `Close`, `Reconnect` and `ended` are
the events of one client and what the service's listeners do with them;
`callbackFind` to `callbackSuback` are the steps of the asynchronous connect
callback, which act on whichever adapter the service holds *then*.
`updateConfiguration`, `disconnect`, `updateTopic`, `ended` and `configInit`
are a change of configuration: `updateTopic` is each unawaited update. Nothing
keeps two of them apart, so each is a slot of its own, `config[u]`, and
`disconnect` meets the client in every state the other may have brought it to:
on a client that is ending already (`endEnding`), mqtt.js calls back at once
and the adapter removes its listeners, after which nobody hears the client
close (`silent`). An operator may subscribe and unsubscribe any topic, the
broadcast topic too; `declined` records the clients that were told so. `Down`
is the end of the process; only `repo` survives it. `Crash` stands for a kill,
for a failing MongoDB call in a callback, for a payload that is not JSON (the
message listener is asynchronous too) and for a graceful shutdown.

### Router, Provisioning

`Router` is the table of handlers with its sort and its match on the topic's
suffix, as operators; `Provisioning` uses `route` to decide which event an
answer raises.

In `Provisioning` a task is one running call: an operator's request or the
handler of one message. `Ask` starts a request of one of five kinds, and the
steps that follow are those of `discoverDevicesBroadcast`,
`discoverDeviceUnicast`, the assignment (`assignTopic`, `assignValidate`,
`assignUpdate`), the hardware status request (`hardwareFind` to
`hardwarePublish`) and `getDeviceTelemetry`; `Delete`, `deleteSensor` are the
soft delete. `Answer` is a device's message of any kind under any id that was
published, again as often as it likes: the listener compares neither the kind
nor the device with what was asked, so a hardware status request may be
answered by a discovery. `validate` is the listener with
`transformAndValidate`. `discoveryFind`, `revive`, `topicFind`, `topicStore`,
`saveSensor`, `subscribe`, `respond` are `handleDiscoveryResponse` with the
calls of `TopicService` inlined, because they are where handlers meet.
`heartbeat` and `handleStrict` are the other handlers. `Expire` and `Fail` are
as above.

`sensors[d]` is the sequence of records with `deviceId` d, since nothing makes
that field unique; `findOne` returns the first, and an update by `deviceId`
writes all. `topics[d]` is the set of its topics, numbered in the order of
`TopicUseCase`, 0 being the base topic. `DeviceLife` is what an operator may
rely on: unknown, discovered, assigned, and never back.

### Errors, Accounts

`Errors` is `GlobalExceptionFilter`: an operator from what was thrown to the
status and code the client gets.

`Accounts` is MongoDB's `users` with their roles, the sessions as far as they
carry a user and a copy of the roles, and slots `req[r]` as in `Auth`. `Call`
is the two guards of an endpoint, with the answer 401 or 403 or the operation
begun; `Visit` is `signup` and `login`, which have no guard. From there on a
step is the code up to the next database call: `findByEmail`, `checkEmail` and
`insert` are the two creates (`signup` asks for the email twice, in
`AuthService` and in `createUser`); `find`, then `writeRoles`, `writeFields` or
`writeDeleted`, then `reread` are the changes; `query` is the reads;
`loginFind` and `createSession` are the account part of a login. `sent` is the
answer a step gives, through `Errors`. Two things the code rests on without
saying so are explicit: the unique index of the entity (`duplicate`), which is
there only if `TYPEORM_SYNCHRONIZE` is on, its default; and that updates go by
`userId` alone, so that an account deleted meanwhile is still written. Lists of
roles may be empty and hold what is no role, which the DTOs of create and update
accept and `AssignRolesDto` does not. The
history variables `disturbed` and `outdated` name the requests and sessions
under which another request has written the account since they read it.

### Schemas, DeviceData

`Schemas` reads the DTO classes as class-validator does: a decorator is the set
of values it accepts, a property the intersection of its decorators' sets, a
DTO a function from its properties to such sets. A value is its JavaScript
type with what handlers tell apart of it. `Satisfies` is
`validate(plainToInstance(..))` in the listener; `Accepts` is the pipe of
`main.ts`, which also refuses properties without a decorator. `Bodies` is what
is sent: a right body, and each body with one wrong property. The users, the
request ids and the members of `DeviceCapabilities`, over which users, devices
and handlers range, are constants; so are the numbers a body may hold, among
which `@Min` and `@Max` choose (`AtLeast`, `AtMost`), and those that are times
(`Epochs`). The other enums, of which the code only asks whether a value is a
member, are two members each.

`DeviceData` is one device's record (`sensor`), the ids kept in Redis with the
user they are kept for, and the requests on the wire. Its actions are the same
operations and handlers as those of `Provisioning`, each as one step, but with
their data: which bodies pass, what is stored of them, under whose name a
request goes out. `getDeviceTelemetry` and `setDeviceConfiguration` publish the
body with the user and the request id the client put into it (`publishOwn`).
`supplied` is the set of columns filled by the `sensorData` of a discovery,
which nothing validates, and `crashed` records where a TypeError ended the
handling of a validated body: of an assignment or its answer, or of a discovery
without `sensorData`.

### ConnectionTest

`testConnection` of the MQTT service: per test a timer, a client of its own
that goes on trying until it is ended, and the promise. `Timeout`, `onConnect`
and `onError` are the callbacks, which may come in any order, repeatedly, and
while the client is ending; `Ended` is the callback of `end`; `connectThrows`
is a URL the library cannot read. The configuration is validated by
`MqttConfigDto` of `Schemas`; `validateConfiguration` is the service's own
check of the same thing, each with the numbers it states.

## Runs

| Run | Question | Result |
|---|---|---|
| `auth_sessions` | two users, concurrent signup, logout, password change, expiry and failures: can sessions be found, are removals final, are invalidations complete and nobody else's, does what a failed or raced removal leaves age away, is `SessionLife` implemented? | holds, with the contested sessions exempt; 1.8 million states |
| `auth_liveness` | with login, password change and deletion: is every request answered, because each call brings it nearer to its answer and nobody else sets it back? | yes |
| `auth_change` | "Invalidates all sessions when password changes" | violated: a write-back restores one |
| `auth_newpassword` | "Password changed successfully. Please login again." | violated: the new password is hashed twice |
| `mqtt_clients` | three clients, faults and requests in every order, overlapping reconfigurations included: is the flag backed, is the counter bounded, is a way back to the broadcast topic always open, does the service recover? | yes, unless an operator unsubscribes it, and as long as some topic stays recorded as subscribed; 0.70 million states |
| `mqtt_reconfigure` | "Automatically subscribes to the broadcast topic on successful connection" | violated after `updateConfiguration` |
| `prov_devices` | overlapping discoveries, repeated answers, deletions, expiry and failures: one record, all topics, nothing taken back, no device dropped that was found unknown, discoveries complete? | holds, with the exemptions the properties name; 0.68 million states |
| `prov_topics` | "Generate all topics required for a device" | violated without any failure, in 19 steps |
| `accounts_roles` | every account endpoint (of the two that call `updateUser`, the administrator's) with signup and login, two requests at a time on two accounts, any call may fail: are emails unique, role operations atomic, the guards' copy right, roles retained, deletions final? | holds; what is disturbed or outdated is exempt, and a role may be lost to a create or an update that brings an empty list, nothing else |
| `device_records` | every body and answer with at most one wrong property, in any order: does the record stay as documented, functions within capabilities, TypeErrors of assignments explained, pending ids the asker's? | holds; the columns a discovery filled are exempt, and the ids clients put into bodies never become pending |
| `device_configuration` | a request to reconfigure a device that brings a `configuration` is accepted | violated |
| `connection_tests` | two tests side by side, right and wrong configurations, callbacks in any order: does a test wait just as long as its timer is set, do the two statements of the bounds agree, is no client left behind? | holds, but for the protocol, which only the service checks |

What the exemptions mean. The properties that hold name the circumstances in
which the code gives no guarantee, by history variables, and the violated ones
drop the exemption: `NoResurrection` and `InvalidationComplete` hold for
sessions outside `overlapped`, and `PasswordChangeInvalidates` is the same
statement without it; `TopicsComplete` holds for devices outside `torn` and
`polled`, and `TopicsGenerated` is the same without `polled`. So a passing run
shows that the named race is the *only* way to lose the promise, and the
failing one that it does happen. A device is `overlapped` in `Provisioning`
exactly when two handlers found it unknown at one time. In `Accounts`,
`UndisturbedAtomic` and `SessionCurrent` say that a role change is lost, and a
guard judges by the wrong roles, in no other way than through an overlapping
write, or a write after the login.

## Bounds

* `auth_*`: two requests at a time. Every race found involves a writer and one
  other; the theorems of `AuthProofs` cover any number. Two session ids, so that
  a user has a session that is being invalidated and another one; two users
  where invalidations must not touch another's. The session timeout is 1 or 2
  ticks: with 2, an extended session and one that was not extended differ, and a
  tracking key may outlive its session. `ScanCount` 1 makes the SCAN loop go
  round; `auth_change` uses 2, since the loop is not what it shows. `Offered`
  restricts a run to the calls its properties are about; what `auth_sessions`
  leaves out is left to `auth_liveness` (login, deletion), or does nothing that
  another call of the run does not do (the profile update, whose steps are a
  part of the password change's). The theorems hold for every `Offered`.
* `mqtt_*`: three clients are what two re-initialisations leave behind. Two
  faults and two requests: the interesting cases are a fault during the
  recovery from a fault, a request during either, and two reconfigurations that
  overlap (`Updates` has two slots). `MaxAttempts` is 1, so
  that the cap is reached. One device topic beside the broadcast topic.
* `prov_*`: one device, because no action but a broadcast, which changes no
  record, touches two, and the theorems cover any number. Two tasks at a time
  and two request ids (an id can be answered repeatedly, so handlers overlap
  under one id, too). `LastTopic` is 3 in `prov_topics`: the base topic and the
  three use cases that requests look up, of the code's fifteen. In
  `prov_devices` it is 2, and the last topic stands for both hardware status and
  telemetry, of which the latter is only looked up. Creation goes through the
  topics one by one, whatever their number, and the theorems hold for all
  `LastTopic`. The type of an answer's `responseCode` is chosen when the
  listener first reads it, not when the device sends it: nothing can tell the
  difference, and the state space is a quarter smaller.
* `accounts_roles`: two user ids, two emails, two requests, one session. The
  races are between one request that has read an account and one that writes
  it. A body's roles are none or the super-admin's, which opens every endpoint;
  with the viewer's of a sign-up, union, difference and replacement all
  differ. `updateUserProfile` is not offered: it is the call
  of `updateUser` on the session's own account, so `updateUser`, which may be
  called on any, does all it can do. `AccountsProofs` covers every endpoint, and
  any number of each.
* `device_records`: one device, two users, two request ids. No operation of a
  device's data touches another device's. A body is right, or wrong in one
  property: decorators look at one property at a time, so two faults show
  nothing one does not. Of each enum two members stand for all, and no
  property of a device's bodies asks more of a number than whether it is a
  time; `DeviceDataProofs` covers any set of capabilities, users, ids and
  numbers.
* `connection_tests`: two tests, which share nothing; one would do, and two
  show that. `Numbers` has the values next to each bound, on both sides: 0 and
  1, 999 and 1000, 65535 and 65536. `ConnectionProofs` covers any numbers.

Symmetry is used in runs without liveness only, over what the `Symmetry` of
`MCAuth` and `MCAccounts` lists, whose values no definition tells apart. Request
ids of `Provisioning` are handed out in order, which removes the same redundancy
and is sound under liveness.

`CHECK_DEADLOCK FALSE` appears where the environment may have nothing more to
do: all accounts deleted or no session id left, all faults and requests used
up, all request ids used. Everywhere else deadlock is checked.

## Fairness

* `Auth`: for each request, weak fairness of `Handle \/ Fail`: Node runs each
  continuation, and each awaited Redis or MongoDB call ends in an answer or an
  error. Nothing is fair about clients: no new request need arrive, and no time
  need pass.
* `MqttClient`: weak fairness of `Connect` and `Reconnect` of each client
  (mqtt.js retries after `reconnectPeriod`, and faults are limited, so the
  broker lets it in at last), of each connect callback and of the steps of
  `updateConfiguration`. Fairness of `Start` is an assumption about the
  deployment: that it restarts a process that ended. Requests and faults need
  not happen.
* `Provisioning`: weak fairness of each task's own steps. No device need
  answer, no id need expire, no call need fail.
* `ConnectionTest`: weak fairness of `Timeout`, since Node runs a timer that is
  set, and of `Ended`, since mqtt.js calls back from `end`. No broker need
  answer.

`Accounts` and `DeviceData` check safety only; that requests end is
`RequestsAnswered` of `auth_liveness`.

## Proofs

All theorems are of the form `Spec => ...`, for every value of the constants
under the modules' named assumptions (`StoreAssumption`, `AuthAssumption`,
`MqttAssumption`, `ProvisioningAssumption`, `AccountsAssumption`,
`SchemasAssumption`, `DeviceDataAssumption`, `ConnectionTestAssumption`), which
say that the distinguished values lie outside the sets, that the bounds are
natural numbers, that a body's numbers are integers, and that some number is
right for each bound of a configuration. TLC
evaluates the assumptions in each run.

**AuthProofs.** The properties are not inductive: whether a live session is
tracked depends on what each request is about to write. `IInv` adds, for each
step a request can be at, what it knows there: which user and session it
carries, that a session it is about to write back has that owner, that the keys
it holds from SCAN belong to its user, which sessions of its goal are already
gone or still ahead of its cursor; and that `overlapped` and `torn` cover every
write-back a removal has met. `Invariance` shows it inductive, one lemma per
group of actions, one step per action and per conjunct it can disturb. From it:

* `TypeCorrect`, `TrackedTheorem` (`SessionsTracked`), `OwnedTheorem`
  (`SessionsOwned`);
* `FinalTheorem` (`NoResurrection`), `InvalidationTheorem`
  (`InvalidationComplete`) and `SelectiveTheorem` (`InvalidationSelective`),
  action properties;
* `AgeTheorem` (`UnusedSessionsAge`): only a request that has a session at hand
  renews its keys, so both keys of an unused one, or the one a failed or raced
  removal has left, lose time at every tick. Whatever happens to it, it is gone
  `SessionTimeout` ticks later;
* `AdvanceTheorem` (`RequestsAdvance`): `Calls(r)` bounds the calls request `r`
  may still wait for, each call that returns or fails lowers it, and no step of
  anyone else changes it. It is the part of `RequestsAnswered` that does not
  depend on fairness, and the reason the loop over SCAN ends: a batch holds at
  most one key a bucket, costs two deletions a key and one SCAN, and the cursor
  never goes back, so that what others add or remove behind it does not matter.
  The proof counts the keys at hand (`ScanBatch`, `ResumeCalls`) and needs one
  fact beside `IInv`, `KeysAtHand`: a deletion in the loop has a key to delete.
* `LifeTheorem`: `Auth` implements `SessionLife` under `life`. Each step
  creates one session, ends or contests a set of live ones (`Tick` may end
  several), or stutters.

**MqttProofs.** `Invariance` with `TypeCorrect`, `FlagTheorem` (`FlagBacked`),
`AttemptsTheorem` (`AttemptsBounded`) and `StrandedTheorem` (`NeverStranded`).
The counter is bounded by the maximum plus `unheard` plus the number of clients
online or ending, so the proof reasons about the cardinality of that set as one
client enters or leaves it. A client that two reconfigurations end at once
leaves the set without the close that would start the count again; `unheard`
counts those. `EndingAwaited` says that for each client that is ending some call
of `updateConfiguration` waits; so when it has ended, that call goes on to make
a new one, however many calls overlap. A client may also be told to end a second
time: the first call still waits for it, and the second goes straight on to
replace it. `NeverStranded` is the safety half of `RecoversWhileSubscribed`:
where a step is always pending, fairness brings the service back unless a fault,
a request or an unhandled rejection undoes it.

**ProvisioningProofs.** `IInv` strengthens the properties by:

* `TasksOK`: what a task knows of its device at each step, such as which topics
  a creator has behind it;
* `BaseTopic`: a recorded device has its base topic;
* `Recording`: outside `overlapped` there is at most one record, and at most
  one handler that found the device unknown and has not saved it, and that only
  while there is no record;
* `Leader`: while topics of a recorded device are missing, some handler that
  saved the device is creating them and will not meet, at its next step, a
  topic stored behind its back. This is the heart of `TopicsComplete`: two
  creators may meet on a topic and one of them ends, but the one that stored
  the topic takes the lead. No fixed handler need survive, only the leading
  one, which changes.

From it `TypeCorrect`, `RecordTheorem` (`OneRecord`), `TopicsTheorem`
(`TopicsComplete`), `ReachableTheorem` (`AssignedReachable`), and `FoundTheorem`
(`FoundIsKept`): a device found unknown keeps a handler that will record it
until it is recorded. Handlers that overlap there fail on the name of the base
topic, and the argument is `Saving`: while that topic is stored and the record
is not, the handler that stored the topic, or one that found it, is at its save.
With `TopicsTheorem` this is the part of `DiscoveryCompletes` that does not
depend on fairness. And `LifeTheorem`: every step of `Provisioning` is a step of
`DeviceLife` or a stutter, for any number of devices, tasks, ids and topics.

**AccountsProofs.** `Base` is types with what a request carries at each step: an
existing account once it has read one, a role list its DTO accepts, a non-empty
list to be written by a role operation. On it rest three independent arguments.
Emails: each step either leaves the emails alone or sets one that `duplicate`
finds in no other document (`EmailChange`). Overlaps: `Knows` says what an
undisturbed request knows of its account, and `OthersKnow` shows once for all
actions that a write leaves it true for everyone it does not record. Roles: what
a role operation or a sign-up writes is not empty, whatever it was decided on,
and any other write of roles is the list of the request's own body. Hence
`TypeCorrect`, `EmailsTheorem` (`EmailsUnique`), `AtomicTheorem`
(`UndisturbedAtomic`), `SessionTheorem` (`SessionCurrent`), `RetainsTheorem`
(`RetainsRole`, for any lists a body may bring) and `DeletedTheorem`
(`DeletedStaysDeleted`).

**SchemaProofs** are lemmas about the tables of `Schemas` for any users, ids and
capabilities: text is equal only to itself (`TextInjective`), a right body has
what each decorator asks (`RightIs`), a body's properties are values
(`BodiesValued`).

**DeviceDataProofs.** `IInv` is the record's types, the properties of it that
the run checks as invariants, and `CrashedRecorded`: a TypeError of an
assignment needs a record whose capabilities, of which the handlers can only be
told by `sensorData`, are neither a list nor text. Each handler writes only
columns whose values its DTO has accepted, or those of `sensorData`, which it
adds to `supplied`. Hence `TypeCorrect`, `ColumnsTheorem` (`ColumnsDocumented`),
`AssignedTheorem` (`AssignedWithin`), `CrashTheorem` (`CrashOnlyRaw`) and
`AccountableTheorem` (`Accountable`).

**ConnectionProofs.** `Started` says that only a test that has begun has a
client. With it and each other, `WaitingIsTimed` and `TryingIsTimed` are
inductive: whatever settles a test also ends its timer and its client. Hence
`TimedTheorem` and `WaitingTheorem`, for any number of tests. `Configured` says
that a test that was not refused has a configuration the DTO accepts;
`AcceptedIsValid` compares the two statements of the bounds, the DTO's and the
service's, number by number and property by property, which gives
`TestedTheorem` (`TestedIsValid`); `TypeCorrect` is the types.

**Only model-checked**: the liveness properties (`RequestsAnswered`,
`RecoversWhileSubscribed`, `DiscoveryCompletes`, `TestsEnd`), since fairness and
`ENABLED` are beyond the proof system. Every invariant, every action property
and both refinements that a passing run checks are also proved. The violated
properties are refuted by TLC and nothing is proved of them.

## Disagreements between the code and its docs

Five runs end in a counterexample; `findings` in `PROJECT.json` quotes code and
doc for each.

1. *A password change may leave a session behind* (`auth_change`). A request
   between `extendSession`'s get and its write restores the key that
   `invalidateUserSessions` has deleted. A logout is undone by the same race.
2. *A changed password does not work* (`auth_newpassword`): hashed in
   `changePassword` and once more in `updateUser`.
3. *`updateConfiguration` leaves the service unable to start*
   (`mqtt_reconfigure`): every topic is recorded as unsubscribed, the next
   connect callback finds none, its rejection ends the process, and the same
   happens after each restart.
4. *A discovery loses topics to a hardware status request* (`prov_topics`):
   both store the same unique name, the handler ends, and no later discovery
   repeats it, because the device is recorded by then.
5. *A device cannot be given a configuration* (`device_configuration`): the
   property has no validator, and the global pipe refuses what has none. A
   request without it is accepted, and stored whole as the configuration.

Seen while modelling, and part of the model, but with no run of their own:

* MQTT: `DELETE /mqtt/unsubscribe/:topic` takes the broadcast topic too, which
  leaves the service without it until the next connect callback; for any topic
  that callback undoes it, since it subscribes all that MongoDB lists. Two
  `PUT /mqtt/config` that overlap both make a new client, and when they end one
  client at once its close is not heard, so `connectionAttempts` is not reset.
  With several clients `isConnectedState` may be false
  while the current client is connected (which is why `FlagBacked` is an
  implication). A connection test answers 500 on a timeout and 403 on a
  refusal, where its controller documents 400 and 503
  (`mqtt-client/mqtt-client.controller.ts:171`).
* Answers of devices: a numeric `responseCode` is refused by the DTO, and one
  that passes as text is never equal to the number handlers compare it with,
  so only discoveries and heartbeats have an effect
  (`common/decorator/api-properties/response-code-property.decorator.ts:6`,
  `responser/responser.service.ts:123`). The unicast discovery topic is built
  from an object (`device/device.service.ts:163`); the hardware status handler
  accepts `hardware_status` while topics end in `hardware-status`
  (`mqtt-client/handler/mqtt-message.handler.ts:219`); `getDeviceTelemetry`
  caches the class and not its request (`device/device.service.ts:421`). A
  discovery without `sensorData`, which its DTO allows, ends in a TypeError
  (`responser/responser.service.ts:72`). A configuration is published with the
  user and the request id the client names, unchecked and never pending
  (`device/device.service.ts:362`). Any kind of answer counts under any pending
  id (`responser/listener.service.ts:50`).
* The WebSocket assignment decorates only the first of its parameters, so its
  payload is undefined and it always fails (`gateway/gateway.service.ts:156`).
* Accounts: two overlapping `addRoles` lose one's roles, though it "appends new
  roles to the user's existing roles without removing others"
  (`users/users.controller.ts:218`): this is what `disturbed` exempts. The
  guards see a role change only after the next login. Creating and updating a
  user take an empty list of roles, and of anything
  (`users/dto/create-user.dto.ts:35`), though a "User must have at least one
  role" (`users/users.service.ts:290`). A conflicting sign-up answers 401 where
  it loses the race between its two checks, and 409 otherwise; `removeRoles`
  answers 401 where 400 is documented, and 201 where 200 is; `findById` answers
  200 with nothing for an unknown account. An `HttpException` is sent with the
  code `INTERNAL_SERVER_ERROR`.

## Not modelled

* **Dead code**: the JWT variant (commented out), `TokenService`, both
  middlewares, the gateway's listeners, message history, recent-data cache and
  subscription tracking, `hashLogin` and `hashEmail`. `resetPassword` always
  refuses and `requestPasswordReset` writes nothing.
* **Data no property reads**: the records of telemetry and hardware status, the
  nested parts of a configuration (which nothing validates), profile fields,
  passwords in `Accounts` and roles in `Auth`, pagination.
* **Presentation**: query and response DTOs, serialisation, cookies, logging,
  Swagger. Cookies lie in the browser; the fixed date in
  `auth/cookie.service.ts:16` is listed as a hazard.
* **Sensor validation** (`device/validation.service.ts`) is a stateless lookup
  of JSON schemas for ajv.
* **Outside the repository**: Redis, MongoDB, the broker and mqtt.js appear as
  the code uses them: each call is atomic, unique names are enforced for topics
  (TypeORM synchronises the index by default), session keys expire when their
  time is up and pending ids at any time. Two assumptions about mqtt.js: a
  connect callback ends before the same client connects again (its period is
  two seconds), and a client resubscribes its own topics after a reconnect.
* Two signups racing for one email are two users in `Auth`; they meet in
  `Accounts`.
* A failing publish is `Fail` of its task; QoS and retained messages are left
  to the broker, whose duplicates `Answer` covers.

## Plan

Written, in this order: `SessionStore`, `Auth`, `SessionLife`, `MCAuth`,
`AuthProofs`; `MqttClient`, `MqttProofs`; `Router`, `Provisioning`,
`DeviceLife`, `ProvisioningProofs`; `Errors`, `Accounts`, `MCAccounts`,
`AccountsProofs`; `Schemas`, `DeviceData`; `ConnectionTest`,
`ConnectionProofs`; `SchemaProofs`, `DeviceDataProofs`.

What could follow:

1. **Role store**: an abstract account with atomic role operations, implemented
   by `Accounts` while requests do not overlap; `UndisturbedAtomic` is the
   heart of that refinement.
2. **Publishing**: `publish` and the health check of the MQTT client over
   `MqttClient`'s connections: what a caller is told against what reached the
   broker.
3. **More of liveness by proof**: a measure for the tasks of `Provisioning` and
   for the steps of `disconnect` and the connect callback, as `Calls` is for
   requests.
4. **Connection**: an abstract specification (down, connecting, connected) and
   its refinement by `MqttClient`.
5. **Gateway**: should its listeners be switched on again, its cache of recent
   data, message history and subscription tracking.
