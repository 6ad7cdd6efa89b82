# Kmanager in TLA+

Kmanager (`kafka-management-platform`) is a Go server that manages Kafka
clusters for a team: it lists and changes topics, access control lists and SCRAM
users through Kafka's admin API, keeps a copy of them in MySQL or PostgreSQL,
authenticates its own users, and shows metrics. This directory holds TLA+
specifications of its stateful parts, model-checked by TLC and, for safety,
proved with TLAPS. All paths below are relative to the repository.

## 1. What the system consists of

| component | state it keeps | operations | talks to |
|---|---|---|---|
| Sync worker, `internal/worker/sync_worker.go` | a pool of admin clients, tables `topic` and `acl` | a tick every `sync_worker.interval` seconds (30 by default): for each cluster, ten at a time, `syncTopics` then `syncACLs`, up to three attempts; a nightly log cleanup | Kafka, the database |
| Topic service, `internal/service/topic` | table `topic`, topics in Kafka | `CreateTopic`, `DeleteTopic`, `UpdateTopicDescription`, `SyncTopics`, lists | Kafka, then the database |
| ACL service, `internal/service/acl` | table `acl`, ACLs in Kafka | `CreateACL`, `DeleteACL`, `BatchDeleteACL`, `DeleteACLFromKafka`, `SyncACLs`, lists | Kafka, then the database |
| SCRAM service, `internal/service/scram` | table `scram_users`, credentials in Kafka | `CreateUser`, `DeleteUser`, `SyncUsers` | Kafka, then the database |
| User service, `internal/service/user` | table `user` | `CreateUser`, `UpdateUser`, `UpdatePassword`, `DisableUser`, `EnableUser`, `DeleteUser` | the database |
| Authentication, `internal/middleware/auth.go`, `internal/cache`, `pkg/jwt`, `internal/service/auth` | the status cache, the token blacklist and its cache | `AuthMiddleware`, login, refresh, logout, `InvalidateUserStatusCache` | the database |
| Permissions, `internal/service/auth`, `internal/middleware/wrapper.go` | tables `cluster_user_relation` and `user_topic_permission` | assign, revoke, check | the database |
| Clusters, `internal/service/cluster` | table `cluster`, Kerberos files, temporary keytabs in memory | create, update, delete, grant, test | the database, the file system, Kafka |
| Host mappings, `internal/service/hostmapping` | table `host_mappings`, one cache per service instance | create, update, delete, resolve, a refresh every 30 s | the database; the Kafka dialer |
| Audit, `internal/middleware/audit.go` | a channel of 1000 records, three workers, table `audit_log` | record, drop when full, delete old rows | the database |
| Rate limiters, `internal/middleware/ratelimit.go`, `wrapper.go` | maps of token buckets | allow, clean up | - |
| Collector, `internal/collector`, `internal/service/monitor/kafka_exporter.go` | - | a loop that reads metrics and pushes them | Kafka, JMX, VictoriaMetrics |
| Monitoring, `internal/service/monitor`, `internal/service/dashboard` | a cache of query results, a cached page per user | cluster list, dashboard, consumer lag | VictoriaMetrics, Kafka, the database |
| Client pool, `pkg/kafka/pool.go`; retry helpers | clients by cluster | get, put, close | nothing uses them |

The components meet in three places. The **database tables** are written by API
handlers and by the worker, one statement at a time: no handler opens a
transaction, and GORM's `Save` writes every column of a copy that was read
earlier (and inserts the row when it is gone). **Kafka** is written first by each
handler and the database second, while other administrators change Kafka
directly. **Memory caches** hold copies of rows, filled without a lock that spans
the read and the write.

What is hard, therefore, is not in any single function: a synchronisation works
for seconds from two listings taken at different times; a save brings back old
columns or a deleted row; one of two writes fails or the server stops between
them; Kafka does the work but its answer is lost; a cache is filled with what was
read before an invalidation. `PROJECT.json` lists these hazards one by one at
their lines, with the properties that would notice them.

What makes the components correct:

- *topics and ACLs*: the table never shows what Kafka never had; a synchronisation
  that nothing disturbs makes the table equal to Kafka without losing
  descriptions; after any interleaving, failure or crash the next ticks repair it;
  deletion is idempotent and takes what it names.
- *accounts*: a disabled account stays out whatever the cache holds; an enabled
  one gets in, and nobody is locked out for good.
- *host mappings*: each instance resolves as the table says, eventually, and
  without gaps during a refresh.
- *sessions*: a logged-out token stays out, through eviction and restarts, for the 24 hours
  of the blacklist (a refresh token lives seven days); refreshing with a refresh token ends when that token does.
- *worker and pool*: every open client has an owner; `Stop` terminates; until then
  every cluster is synchronised again and again.
- *permissions*: what a request for a cluster did, its user was entitled to while it ran (a list
  of topics that names no cluster is checked by nobody); two-step
  writes leave no half of a permission.
- *clusters*: a cluster has the files it needs; its row stays gone when nobody holds it.
- *SCRAM users*: a row has its credential, a synchronisation leaves none out.
- *audit, rate limiters*: bounded, nothing is lost but what the bound drops, and
  dropping what is idle does not loosen a rate.
- *monitoring*: an answer put together from several reads of moving systems is one
  that some state of them justifies.

## 2. Modules

| module | what it is |
|---|---|
| `TopicSync` | topics: the worker, API requests, other administrators |
| `TopicCatalog` | what the platform promises of topics, implemented by `TopicSync` |
| `MCTopicSync` | instance for TLC, three configurations |
| `TopicSyncProofs`, `TopicSyncCleanProofs` | its theorems |
| `Accounts`, `AccountsProofs` | one user account, the status cache, `AuthMiddleware`, administrators |
| `AclSync`, `AclSyncProofs` | ACLs: the worker, API requests, other administrators |
| `HostMapping`, `HostMappingProofs` | the host mapping table, the service's caches, requests, refreshes, a resolution |
| `RateLimiter` | one key of either rate limiter |
| `Sessions` | login, refresh, logout and the token blacklist in memory and in the table |
| `ClusterRows` | what the rest of the program can rely on of the table `cluster` |
| `Access` | the two permission tables and the requests that read and write them; extends `ClusterRows` |
| `Clusters` | clusters, their Kerberos files and temporary keytabs; implements `ClusterRows` |
| `ScramUsers` | credentials in Kafka and rows of `scram_users` |
| `ConsumerLag` | the lag report of consumer groups |
| `SyncWorker` | the sync worker's rounds, retries, client pool and `Stop` |
| `AuditTrail` | the audit log from the request to its deletion |
| `ClusterHealth` | the collector's samples, the shared cache, the list and the dashboard |
| `MCGateway`, `GatewayProofs` | `Access` and `Sessions` side by side for TLC, and their theorems |
| `MCServices`, `ServicesProofs` | `Clusters`, `ScramUsers` and `ConsumerLag`, likewise |
| `MCOperations`, `OperationsProofs` | `RateLimiter`, `SyncWorker`, `AuditTrail` and `ClusterHealth`, likewise |

The last three `MC` modules put modules side by side that share no state (`Access` and `Clusters` meet in
`ClusterRows` instead, which one extends and the other implements). Their
product would only multiply states, so each is a *sum*: the variable `part` names the
module that a behaviour is about, and the others stay in one initial state. An invariant of
the sum is an invariant of each part, and a temporal property is checked under that part's
fairness. The theorems are about each module's own specification, not about the sum: what
a sum `EXTENDS` is named as it is, what it instantiates by the instance (`Scram!Spec`).

In all of them one step is one call to Kafka or another system, one SQL statement or one critical
section: that is where goroutines interleave. `PROJECT.json` maps each definition
to the lines it translates.

### TopicSync

State: `kafka` (the cluster's topics, each with a *shape*: partitions and
replication factor), `db` (rows by topic name, which is unique per cluster; a row
is an id, a shape and a description), and per process its program counter and
what it holds in memory (`ksnap`, `dsnap`: the two listings; `todo`: the topics
its loops still have to visit; `req`: the parameters of the request).

| action | code |
|---|---|
| `Tick`, `ListKafka`, `ListDB`, `SyncInsert`, `SyncUpdate`, `SyncKeep`, `SyncDelete`, `SyncWriteFails`, `SyncEnd`, `SyncACLs` | `syncAllClustersWithRetry`, `SyncCluster`, `syncTopics`; the loops' order is left open, as Go's map order is; a failed write is logged and the loop goes on |
| `WorkerRetries` | `syncClusterWithRetry` |
| `StartSync` and the same `List*`/`Sync*` steps of a request | `SyncTopics` of the service, which saves every row it finds |
| `StartCreate`, `CreateInKafka`, `CreateInDB` | `CreateTopic` |
| `StartDelete`, `DeleteFind`, `DeleteInDB` | `DeleteTopic`, with its treatment of a row that is already gone |
| `StartDescribe`, `SaveDescription` | `UpdateTopicDescription` |
| `RequestFails`, `CreateReplyLost`, `DeleteReplyLost` | the error returns, and Kafka doing the work while the answer is lost |
| `ExternalChange`, `Crash` | other administrators; the server stops and starts |

`SaveRow` follows GORM's `Save`: an update by primary key and, when no row has
it, an `INSERT ... ON DUPLICATE KEY UPDATE` (MySQL) or `ON CONFLICT (id)`
(PostgreSQL). They differ when another row has taken the topic's name: MySQL
writes over that row, PostgreSQL refuses; `Dialect` selects one.

History variables: `seen` (what Kafka has ever held) and `dirty` (something other
than this synchronisation changed Kafka or the table since it listed Kafka, or one
of its writes failed). No guard of an action reads them.

### Accounts

State: `row` (the account's status, or gone), `entry` (the cached status and the
time it has left), per request the step in `AuthMiddleware` and what it read, per
administrator's request the copy of the row it works on.

| action | code |
|---|---|
| `Lookup`, `Drop` | `MemoryCache.Get`: a hit, a miss, and an expired item that is deleted under a second lock |
| `Find`, `FindFails`, `Set` | the query of `AuthMiddleware` (an error counts as inactive), and `MemoryCache.Set` |
| `StartChange`, `Save`, `SaveFails` | `DisableUser`, `EnableUser`, `UpdateUser`, `UpdatePassword`: `FindByID`, then `Save` of the copy |
| `Invalidate` | `InvalidateUserStatusCache`, which only the handlers of disabling and enabling call |
| `Delete` | `DeleteUser` |
| `Tick`, `Evict`, `Crash` | time, the cache's clean-up and capacity limit, a restart |

A disabling can be lost: a concurrent `UpdateUser` or `UpdatePassword` that read
the row before saves "active" again, and `Save` inserts a row that was deleted
meanwhile. The model does both; the properties speak of the row as it is.

History: `off[r]` (the account has not been active since `r` began), `enabled`
and `on[r]` (the account is active since an invalidation; "clean" if no request
was then on its way to cache an older "inactive", "raced" otherwise).

### AclSync

State: `kafka` (a set of ACLs: a subject, which stands for resource name,
principal and host, a pattern, and an action, which stands for resource type,
operation and permission), `rows`, and per process what it holds. The table `acl`
has no unique key, so a row is an ACL, a spelling (`coded`: the worker writes
sarama's numbers as characters, the API writes names) and a number that tells
copies apart, for which the id stands in the code.

| action | code |
|---|---|
| `WorkerListKafka`, `WorkerListDB`, `WorkerWrite`, `WorkerDelete`, `WorkerWriteFails`, `WorkerFails`, `WorkerEnd` | `syncACLs`; `OneRowPerKey` is the map that keeps the last row of each key |
| `StartCreate`, `CreateInKafka`, `CreateInDB` | `CreateACL` |
| `StartDelete`, `DeleteInKafka`, `DeleteInDB` | `DeleteACL`, and each round of `BatchDeleteACL`; `Filter` is what its conversions make of the row |
| `StartSync`, `SyncListDB`, `SyncInsert`, `SyncInsertFails`, `SyncEnd` | `SyncACLs` of the service, which recognises ACLs by six names and only inserts |
| `RequestFails`, `ReplyLost`, `Crash` | as in `TopicSync` |
| `RemoveFromKafka`, `AddToKafka` | `DeleteACLFromKafka`, other administrators |

`RowKey` and `KafkaKey` are the two key functions; their results differ in the
`form` field because the code prints strings in one and numeric types with `%s`
in the other. `Unnamed` actions are those whose resource type or operation the
conversions map to a default (transactional ids become topics).

### HostMapping

State: `db` (rows by host and cluster, which together are unique), `cache[s]` of
each instance of the service, what a refresh has listed and found (`newCache`,
`oldKeys`, `todo`), what a request holds (`rid`, `mapping`, `old`), and the step of
one resolution. `main` makes one instance, through which Kafka is dialled, and the
router another, on which the API works: `Dialer` and `Api`.

| action | code |
|---|---|
| `ListTable`, `ListFails`, `RangeKey`, `StoreKey`, `DeleteKey`, `NextLoop`, `RefreshEnds` | `refreshCache`, key by key, as `sync.Map` is neither read nor written as a whole |
| `StartCreate`, `Insert`, `Store` | `Create` |
| `StartUpdate`, `FindOld`, `Save`, `Forget`, `Store` | `Update`, from the handler's read of the row on; `Save` as in `TopicSync` |
| `StartDelete`, `Delete`, `Forget` | `Delete` |
| `RequestFails` | a failed statement, or one whose answer is lost |
| `LookupFirst`, `LookupGlobal` | `ResolveForCluster` |
| `Restart` | the server stops, and each instance's `NewService` lists the table, or fails to: the dialer's in `main` (`main.go:73`), the API's in the router (`router.go:288`), with no writer between the two |

The lock that `refreshCache` takes is not modelled: refreshes of one instance
follow one another anyway, and the requests do not take it. A mapping created
between a refresh's listing and its `Range` is dropped from the cache until the
next refresh; the API's cache also stays wrong when two requests write it in the
other order than the table. Both happen in the model, and `Converges` says that they pass.

History: `seen` (every mapping the table has had), `quiet[s]` (keys whose row, or
entry in `s`'s cache, no request has changed since the running refresh listed),
`settled[s]` (the same for the last complete refresh) and `calm` (the keys of the
running or last resolution have stayed settled).

### RateLimiter

State: the map's `entry` for one key, what each bucket holds (`tokens`), the ticks since
the entry's last access, and per request its step and the bucket it `holds`.

| action | code |
|---|---|
| `Lookup`, `CreateOrReuse` | `getLimiter`: under the read lock, then under the lock, looking again |
| `Allow` | `Allow`, on the bucket the request holds |
| `Cleanup` | a round of `cleanupLoop`: by age (`RateLimiter`) or when the bucket is full (`IPRateLimiter`) |
| `Tick` | buckets refill, time passes |

History: `budget` is what one bucket that is never dropped would hold, `overdraft` counts
the requests it would have refused, `strays` the tokens drawn from dropped buckets.

What a key is makes no difference to the module. The router installs `RateLimitMiddleware`
before authentication (`router.go:50`), where no request has a user yet, so that the key of
`RateLimiter` is always the client's address and never "user:" with an id.

### Sessions

State: `tok` (claims of the tokens given out: the time each has left), the blacklist in
memory (`mem`) and in the table (`tbl`), and per request the token it shows, the cookie's
refresh token and its step.

| action | code |
|---|---|
| `Login`, `Refresh` | `Login`, `RefreshAccessToken` with `GenerateAccessToken` from the refresh token's claims |
| `CheckMemory`, `CheckTable`, `CheckTableFails` | `IsBlacklisted`: memory first, the table second, an error counts as "no" |
| `Admit`, `Refuse` | `ValidateToken` and the account's status, which may be anything each time |
| `AddMemory`, `AddRow`, `AddRowFails`, `Answer` | `Logout` and `AddToBlacklist`, first for the token shown, then for the cookie's |
| `Tick`, `Evict`, `Restart` | time, the cache's capacity, and `LoadFromDB`, which stores hashes under keys that nobody looks up |

History: `shield` (how long a logout's promise lasts), `unsaved` (tokens whose row could
not be written), `guarded` and `slipped` (a request with a promised token, and one that
went through), and each token's `kind` and `age`, the ticks since the login whose role it
carries; `Older` lets time pass for both. A `kind` is "renewed" when the token was made
from one that was not a refresh token. The promise is no longer than the
blacklist's lifetime.

### ClusterRows, Access

`ClusterRows` has the ids with a row (`rows`), the ids given (`used`) and the rows that
updates hold (`held`). `Access` adds the users' roles, `cluster_user_relation`
(`relation`), `user_topic_permission` (`perm`) and per request what it asks and its step.

| action | code |
|---|---|
| `BeginView`, `Check`, `ReadRole`, `ReadTopics` | `ListTopics` behind `RequireClusterAccess`, with `GetAllowedTopics`; a view without a cluster (`NoId`) passes unchecked and is answered in full, whatever the role |
| `BeginChange`, `Check`, `Grant`, `Revoke` | `GrantAccess`, `RevokeAccess` |
| `FindUser`, `FindCluster`, `FindAccess`, `AddAccess`, `AddTopics` | `AssignTopicPermission`, `BatchAssignTopicPermission` |
| `RevokeTopic`, `RemoveCluster`, `ChangeCluster`, `ChangeRole` | revocation of one topic, `DeleteCluster` with its cascades, `ClusterRows`' other steps, `UpdateUser` |
| `Finish` | the answer, or a failed statement at any step |

A token keeps the role of its login, hence `was`. History: `during` (what was so at
some moment of a request) and `lost` (relations taken away and not made again).

### Clusters

State: `cluster` (the row by id), `used`, `files` (what the directory of an id holds),
`temp` (the uploads in memory, with the time they have left), and per request its step and
`job`: the row it will write, its keytab and whether it has the bytes.

| action | code |
|---|---|
| `UploadKeytab`, `DeleteTempKeytab`, `Sweep`, `Tick` | the temporary keytab store |
| `BeginCreate`, `Prepare`, `InsertRow`, `CreationFails`, `SaveConf`, `SaveKeytab`, `SaveFails`, `DropTemp` | `CreateCluster` |
| `BeginUpdate`, `SaveRow` | `UpdateCluster`; `Save` brings a deleted row back |
| `DeleteCluster`, `Restart` | the row goes and the files stay; the store is lost |

`ImplementsRows` maps `rows` to the ids that have a row and `held` to those an update
carries. History: `verified`, `saved`, `broken`.

### ScramUsers

State: `kafka` (the mechanisms each user has a credential for), `row` (with its id), and
per request what it was asked and what it has listed. `Upsert` and `InsertCreated` are
`CreateUser`, `DeleteKafka` and `DeleteRow` are `DeleteUser`, `ListKafka`, `ListRows`,
`InsertListed`, `InsertRefused` and `Synced` are `SyncUsers`, `Abort` is a failure or a
stop at any step, `ChangeOutside` another tool. `DeleteUser` removes the credential of the row's
mechanism only, and Kafka refuses to remove one that is not there; so a row without its
credential can never be deleted, and `RowsHaveCredentials` says where such rows come from.

### ConsumerLag

State: each partition's first and next offset and where its batches begin, the groups'
commits, and the report in the making. The cluster's steps (`Produce`, `Commit`, `Retention`,
`Recreate`) interleave with those of `GetAllConsumerGroupLags`: `Begin`, `ReadOffsets`,
`ReadEnd`, `ReadStart`, `Compute`, `Close`; `GetConsumerGroupInfo` is the same without
starts and ages, and is `Refused` as a whole when the offsets cannot be read. A failed call
for an end leaves the partition out and reads as 0, hence as no lag; the age is the
timestamp of the first record of a batch.

### SyncWorker

State: where `runScheduledSync`, `runLogCleanup` and `Stop` are, the round's clusters
without a goroutine, per cluster its goroutine's step, failed attempts and client, the
`pool`, and which clients are `open` and `sound`.

| action | code |
|---|---|
| `List`, `Launch`, `RoundEnds`, `NextRound`, `RunnerEnds` | `runScheduledSync`, `syncAllClustersWithRetry` |
| `FindFails`, `Load`, `TestClient`, `CloseStale`, `DeleteStale`, `Create`, `CreateFails`, `Store` | `SyncCluster`, `getAdminClient`, `NewAdminClient` |
| `Topics`, `Acls`, `WorkFails`, `RemoveClient`, `CloseRemoved` | the rest of `SyncCluster`, `RemoveAdminClient`, `syncClusterWithRetry` |
| `BeginStop`, `VisitClose`, `VisitDelete`, `Signal`, `Stopped` | `Stop`: the pool is emptied first, `stopCh` closed second |
| `CleanupEnds`, `Break` | `runLogCleanup`; brokers drop a connection |

`main` defers `Stop` (`main.go:83`): it runs when the HTTP server has shut down, beside whatever
round is under way, and the process ends after it.

### AuditTrail

State: each request's `stage`, the `channel`, what each writer is `writing`, the `age` of
each row, and the cleaner. `Handle`, `Skip`, `Send` and `Panic` are `AuditMiddleware`,
`LogLogin` the login handler, `Receive`, `Store` and `StoreFails` are `auditWorker`, `Night`,
`CleanUp` and `CleanUpFails` are `runLogCleanup` (the first night only starts its ticker),
`CleanLogs` is the administrator's `CleanExpiredLogs`, `Restart` a stop that loses the
channel. History: the `fate` of each record, the `order` of sending, and `jumped`.

### ClusterHealth

State: what each cluster would answer (`alive`), the two windows of VictoriaMetrics (`sample`,
`most`), what the collector has `seen`, the shared `cache`, each dashboard user's `page`,
and per request its step, query results, probes and answer.

| action | code |
|---|---|
| `Read`, `Write`, `WriteFails` | the collector: an unreachable cluster counts no brokers and is written all the same |
| `PageHit`, `Hit`, `Miss`, `Query`, `Judge` | the dashboard's and the list's path to `GetDashboardVMData`; concurrent queries, then `Verdict` |
| `Probe`, `Answer`, `Close` | the list asks the clusters that the metrics do not tell of |
| `CacheExpires`, `PageExpires` | thirty seconds of either cache |
| `BrokersChange`, `LookBackPasses`, `WeekPasses` | the clusters and time |

`Lists` and `Overviews` are the requests of the cluster list and of the dashboard. The entry
`monitor:dashboard_vm_data` is one for all users, filled for the clusters of
whoever came first; `Scope(r)` is a request's clusters. In the run, users see the watched
cluster or none (`MCScope`), and a behaviour has one list and one dashboard, of which one or
both see it (`MCCasts`): so either may fill the entry for the cluster or without it, and either
may find it. A failed read, write, query or probe is left to the behaviours in which one of them
sees it (`HealthStep`). A request without clusters has nothing to query. What the dashboard shows of a
cluster that its entry does not tell of, but that has topic rows, is "assumed" here and
"healthy" on the page. History: `doubt[r]`, the clusters
of which `r` has a reason to say "error". A cluster that was never reached has no greater
count to fall short of and is "healthy"; so is one whose query for the peak failed.

## 3. What the runs check

| run | bounds | what it shows |
|---|---|---|
| `topic_sync` | 2 topics, 1 shape, 2 descriptions, 2 concurrent requests, 1 external change, 1 fault; MySQL | `RowsWereInKafka`, `CleanSyncMirrors`, `DeleteIsIdempotent`, `CleanSyncKeepsDescriptions` |
| `topic_sync_live` | 1 topic, 2 shapes, 2 requests one after the other, 1 external change, 2 faults; PostgreSQL | `Converges`, `ImplementsCatalog`, `IInv` (with `TypeOK`) |
| `topic_sync_cleanup` | 1 topic, 2 requests, no fault | *violation* of `CleanupOnlyDeletedTopics` |
| `accounts` | 2 requests, 2 administrators, 2 changes, 1 fault, a lifetime of 2 ticks | `DisabledStaysOut`, `EnabledGetsIn`, `LockoutEnds` |
| `accounts_enable` | 2 requests, 1 change, no fault | *violation* of `EnableTakesEffect` |
| `acl_sync` | 2 literal ACLs of which one has no name, 2 requests one after the other, 1 external change, 1 fault | `CleanSyncCovers`, `SyncLeavesNoGap`, `Converges` |
| `acl_sync_key` | 4 ACLs, literal and prefixed, the worker alone | *violation* of `MatchedRowsStay` |
| `acl_delete` | 2 ACLs, 1 request, no fault | *violation* of `DeleteTakesOneAcl` |
| `host_mapping` | a host's two keys, 1 address, 2 concurrent requests, 1 fault, one instance; PostgreSQL | `SettledMirrors`, `OnlyFromTable`, `CalmResolution`, `Converges` |
| `gateway` | 2 concurrent requests; 2 users, 1 cluster or none named, 1 update, 2 topics, 3 operations; 3 tokens, lifetimes 1 and 3, blacklist 1, 1 fault | `ActsInTime`, `PermissionBringsAccess`; `RevokedStaysOut`, `SessionsEnd`; `TypesOK` |
| `services` | 2 concurrent requests; 2 ids, 2 names, 1 keytab, 1 fault; 2 users, 1 mechanism, 2 rows, 1 outside change; 2 groups, 1 partition, 2 messages, 1 recreation, 1 failed call | `KeytabSurvives`, `NamesClash`, `ImplementsRows`; `RowsHaveCredentials`, `SyncCovers`; `BacklogShown`, `BacklogHasAge`; `TypesOK` |
| `operations` | 2 callers, 3 buckets, burst 2, 1 a tick, idle limit 2; 3 requests, 2 writers, 2 slots, 1 fault; 2 clusters, 1 slot, 2 attempts, 1 fault; 1 watched cluster with topic rows, a list and a dashboard of which one or both see it, 1 broker, 1 change, 1 fault (none when both see it) | `KeepsTheRate`; `BoundedOvertaking`, `RecordsSettle`, `OldRowsGoAtLast`; `ClientsAreOwned`, `StopReturns`, `KeepsSyncing`; `AnswersHaveCause`, `DownShows`; `TypesOK` |

The bounds are enough because the races are pairwise: a synchronisation against
one request, one request against another, either against one failure or one
external change. Two concurrent requests over two topics give the request pairs, on
one topic and on two, and give the worker a topic it handles before, and one after,
the disturbance; two shapes, over one topic, give the saves of changed partitions. Two
ticks of lifetime tell a fresh, an ageing and an expired entry apart; two account
changes are a disabling or an enabling and the update that races with it.
`Copies` has five numbers, more than the rows of one ACL and spelling that two
requests and one fault can leave: TLC would report a deadlock of the worker
otherwise. The two instances of `HostMapping` share the table only, so its run
takes one instance for both (`Api` and `Dialer` are the same value): its cache is
written by requests and read by the dialer, which disturbs either more than in the
program; the proofs hold for two.

In `gateway`, two topics make an assignment of which a part is there already, three
operations an assignment, a revocation and a deletion that overlap; three tokens
are a login and a refresh of it, the refresh token outlasts the blacklist, as seven days do a
day in the program, and the access token does not. In `services`, two ids are an overlap of two creations
and the reuse that the table must not make; two messages are a backlog whose first
message retention takes while the second stays. In `operations`, the idle limit
refills exactly a burst, so that a tick less would show; three records for two
slots and two writers fill and overfill the channel and leave one to be overtaken;
two clusters for one slot make a goroutine wait for the other, four clients of a cluster
are more than it ever has (`Create` would be blocked otherwise, and `KeepsSyncing` fail);
a request that sees no cluster leaves an entry, and a page, that does not tell of the one
that the other request is about.
Brokers are counted to 1: an outage is a count of 0 below a peak of 1.

**Fairness.** `WF(WorkerStep)`: the ticker fires and `syncAllClustersWithRetry`
runs to its end, as a goroutine of a running process does; a failed or crashed
attempt is repeated at the next tick. `WF(RequestStep(r))`: a handler that has
started finishes. `WF(RefreshStep(s))` in `HostMapping`: the ticker of `backgroundRefresh` fires and a
refresh runs to its end. `WF(Tick)` in `Accounts`: time passes. In `AuditTrail`, nights come
(`Night`), and the writers and the cleanup go on. In `SyncWorker`, rounds, goroutines and
`Stop` go on, since every call to Kafka times out; `SF(RunnerEnds)` says that a
`select` which finds both the ticker and the closed `stopCh` ready, again and again, takes
`stopCh` at last, because Go picks among ready cases at random. In `ClusterHealth`, the
collector's ticker, requests that have begun, and the clocks of the caches go on. No
fairness is assumed of requests being made, resolutions, failures, external changes,
stops or the cache's clean-up; `Evict` is never needed for `LockoutEnds`.

**Deadlock** is checked in every run but the three sums: the worker's tick, or a lookup,
is always possible. In `gateway`, `services` and `operations` a part may stop, when its
bounded operations are used up or the worker has been stopped.

**What "clean" leaves out.** `CleanSyncMirrors`, `CleanSyncKeepsDescriptions`,
`CleanSyncCovers` and `SyncLeavesNoGap` describe a synchronisation of which no write failed
and beside which nobody changed Kafka or the table: `dirty` excludes the rest. Of
interference and failures speak `RowsWereInKafka` (nothing is invented), `ImplementsCatalog`,
`Converges` (the next ticks repair it) and the violations below. That a description which is
saved while the worker works may be lost, no property says: the code lets it happen. For
ACLs, `Converges` says which ACLs the table tells of, and not how many rows each of them has.

### Where the code and its comments disagree

1. `topic_sync_cleanup`: the worker lists Kafka before it lists the table, so a
   topic that `CreateTopic` makes in between loses its row and its description in
   the cleanup loop ("清理数据库中已删除的 Topics", `sync_worker.go:328`). The next
   tick inserts the row without the description.
2. `accounts_enable`: a request that read "inactive" before `EnableUser` caches it
   after `InvalidateUserStatusCache` ("用于禁用/启用用户后立即生效",
   `middleware/auth.go:123`); the active account is refused until the entry expires.
3. `acl_sync_key`: the two "7 字段完整匹配" keys (`sync_worker.go:411`, `:416`)
   are never equal, so each tick replaces every row of the table; a
   duplicate, once there, stays, since each tick inserts one row and deletes one.
4. `acl_delete`: deleting one ACL through a row the worker wrote
   (`acl_service.go:166`, `:198`) removes all literal ACLs of the same resource
   name, principal and host.

The models show four more, which no run of their own states:

5. `GET /topics` without `cluster_id`: the handler filters "for normal users"
   ("普通用户需要过滤 Topic", `topic_handler.go:178`), who may read the clusters and topics
   assigned to them (`models/user.go:13`), but only when the request names a cluster. Without
   one the middleware lets it pass (`wrapper.go:106`), and the repository lists the topics of all
   clusters (`topic_repository.go:99-102`). In `Access` this is `BeginView` with `NoId`, and
   `ActsInTime` excepts it.
6. `RefreshAccessToken` "makes a new access token of a refresh token" ("使用刷新 Token 生成新的访问
   Token", `jwt.go:114`) but takes an access token as well: it looks at the signature and the
   expiry only. An access token can so be exchanged, before it ends, for another one, and that
   one for the next. In `Sessions` what comes of it is "renewed", and `SessionsEnd` says nothing of it.
7. The blacklist keeps a token for 24 hours, since that is how long tokens usually last ("Token
   有效期通常为 24 小时", `cache.go:258`); a refresh token lasts seven days, and one that was
   logged out is good again on the second. `RevokedStaysOut` promises the blacklist's lifetime.
8. `RateLimitMiddleware` limits "each user" ("默认每用户每分钟 100 请求", `ratelimit.go:112`) but
   runs before the user is known: users behind one address share its hundred requests a minute.

## 4. What is proved

TLAPS checks these for every value of the constants (any number of topics, ACLs,
requests, any bounds), from the constants' assumptions named in the modules: the
sentinels are not values, the worker is not a request, bounds are naturals.

- `TopicSyncProofs`: `TypeCorrect`, `RowsWereInKafkaAlways`, `OneTopicPerIdAlways`,
  `ImplementsCatalogSafely` (every step is a step of the catalogue or stutters).
- `TopicSyncCleanProofs`: `Safety` (`IInv`), `CleanSyncMirrorsAlways`,
  `CleanSyncKeepsDescriptionsAlways`, `DeleteIsIdempotentAlways`.
- `AccountsProofs`: `AccountsSafety` (`IInv`), `DisabledStaysOutAlways`,
  `EnabledGetsInAlways`.
- `AclSyncProofs`: `AclSafety` (`IInv`), `CleanSyncCoversAlways`,
  `SyncLeavesNoGapAlways`.
- `HostMappingProofs`: `HostSafety` (`IInv`), `SettledMirrorsAlways`,
  `OnlyFromTableAlways`, `CalmResolutionAlways`.
- `GatewayProofs`: `PermissionBringsAccessAlways` and `ActsInTimeAlways` of `Access`,
  `DeletedClustersStayGone` of `ClusterRows`, `RevokedStaysOutAlways` and
  `SessionsEndAlways` of `Sessions`.
- `ServicesProofs`: `KeytabSurvivesAlways`, `NamesClashAlways` and `ImplementsRowsAlways`
  (every step of `Clusters` is a step of `ClusterRows` or stutters);
  `RowsHaveCredentialsAlways` and `SyncCoversAlways` of `ScramUsers`; `BacklogShownAlways`
  and `BacklogHasAgeAlways` of `ConsumerLag`.
- `OperationsProofs`: `LimiterSafety` (`IInv`) and `KeepsTheRateAlways` of `RateLimiter`,
  `BoundedOvertakingAlways` of `AuditTrail`, `ClientsAreOwnedAlways` of `SyncWorker`,
  `AnswersHaveCauseAlways` of `ClusterHealth`.
- `GatewayTypes`, `ServicesTypes`, `OperationsTypes`: the variables of these modules keep
  their types, in each sum as a whole.

None of the properties is inductive. For topics, that a row was in Kafka depends
on what processes hold in memory: `SeenInv` extends it to both listings and to a
request that is about to insert, `PhaseInv` says what a process holds at each
step, `IdInv` that an id is known for one topic only (so that `Save` and
deletion by id hit the right row), and `CleanInv` that an undisturbed
synchronisation remembers the truth: its Kafka listing is Kafka, a topic it has
not yet handled has the row it listed, one it has handled is as in Kafka. For
accounts, `OffInv` carries "not active since the request began" through the
request's steps, and `OnInv` says that while an enabled account stays active
neither the entry nor a request on its way refuses it. For ACLs, `SyncInv` says
that what the worker has written is covered by rows outside `listed`, the ones
it will delete. For host mappings, `RefreshInv` says what each loop has done for a
quiet key, so that at the end of the third the cache is the listing, and the
listing the table. For permissions, `Committed` says that a request about to write a
topic permission has seen or made the relation, and `Entitled` what has been so since a
request began, by the step it has come to. For clusters, `JobOK` says that a creation
carries the keytab's bytes to the files, and that a row which an update holds in memory
has its files like one in the table. For the rate limiters, `NoCredit` compares the bucket
in the map with one that is never dropped, and `Refilled` makes an entry that is dropped
for its age a full one; that needs the assumption that the idle limit refills any bucket
(a burst of 100 is refilled in a minute and the limit is ten).

For sessions, `ShieldInv` says where a logout's promise is kept. `Kept`: the row of the
token lasts as long as was promised, or, when it could not be written, the copy in
memory does; `Standing`: which of the two writes a logout has tried when it answers;
`Caught`: a request whose token was promised to be refused has not come past the table.
`AgeInv` bounds a token's age and remaining time together, by its kind; of a "renewed"
token, which a caller gets for an access token where `RefreshAccessToken` expects the
other kind, nothing is promised. For clusters' names, `SeenOK` carries what a creation
saw in its check, up to the insertion: rows of other names, or renamed since. For SCRAM
users, `Covered` says that a row for every steady user is there, or on the list of what
the synchronisation has yet to insert; `Backed`, that a row without its credential is
the one which a deletion is about to remove, and `KeepsRow` and `Fresh`, what a request
knows that no other about its user overlaps. For consumer lag, `Reads` compares each
reading with the log as it is now (a log only grows at its end and only shrinks at its
start, unless the topic was made anew), and `Lines` the report with the readings. For
the audit log, `Queue` says that the channel is the end of the `order` in which records
were sent, so that what overtakes a record is in the hands of another writer. For the
worker, `Owned` says for each step of a cluster's goroutine whose the open clients of
that cluster are, `Left` what `Stop` has left of them, and `Walk` and `Rounds` that the
two do not begin anew. For health, `Grounded` and `EntryOK` carry the reason for an
"error" from the queries through the shared cache to the answer. Each proof takes every
action through each part.

Only model-checked are the liveness properties (`Converges` in three modules,
`LockoutEnds`, `RecordsSettle`, `OldRowsGoAtLast`, `StopReturns`, `KeepsSyncing`,
`DownShows`) and the fairness of the catalogue (`ImplementsCatalog`; its safety is
`ImplementsCatalogSafely`), which need ENABLED and are out of this proof system's reach.
Every invariant and every action property of a passing run is a theorem.

## 5. Plan

Done: every stateful part of the server, and the safety of each (sections 2 to 4). Left, in
this order:

1. Compositions: `SyncWorker` with `TopicSync` and `AclSync` for a cluster that is deleted
   while it is synchronised; `Sessions` with the status cache of `Accounts`.
2. Larger instances: prefixed ACLs beside requests in `acl_sync`, two instances in
   `host_mapping`, two clusters in `gateway`.

## 6. Not modelled

The client pool of `pkg/kafka/pool.go` and the retry helpers, which nothing in the
program uses. Of the collector and monitoring, all but brokers, health and consumer lag:
JMX text parsing, charts and the dashboard's other numbers are queries and text
without state. HTTP routing, CORS, validation, encryption, password hashing,
configuration, logging, migrations (start-up I/O or stateless), and the React frontend.
The lists and searches of the modelled services change nothing and are left out, except
where an answer is put together from several reads (`Access`, `ConsumerLag`,
`ClusterHealth`). Functions without a caller are left out too: `CleanupExpired` of the
blacklist, the `...ForUpdate` functions of the cluster service, `CheckTopicPermission`,
`GetAllowedClusters`. Within the modelled parts: consistency of database replicas, GORM's hooks,
and partial results of Kafka's multi-broker calls are abstracted to a call that succeeds,
fails, or succeeds without an answer. Times are ticks; sessions and the status cache are
modelled apart, an account's status in `Sessions` being whatever it is when a request asks.
