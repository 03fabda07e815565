# Verification of the AWS + Snowflake data platform

TLA+ models of the event pipeline in this repository, the TLC runs that check
them on small instances, and TLAPS proofs of the main results for every value
of the constants. Paths below are relative to the repository.

## The system

    simulate.py
    producer ──POST /events──> API Gateway ── authorizer Lambda (token)
                                   │
                              router Lambda ── put_events ──> event bus
                                                              │        │
                              rule: type in routing.yaml ─────┘        └──── rule: any other type
                                        │                                          │
                              Firehose -> BRONZE.RAW.EVENTS              Firehose -> s3://…/events/<entity>/
                                        │   (failed records -> bucket)             │
                              dynamic table ecommerce_clicks             COPY (dbt pre-hook) -> BRONZE.RAW.<entity>
                                                                                   │
                                                                         staging_scd1 MERGE -> SILVER.STAGING.<entity>
                                                                                   │
                                                                         marts -> secured views -> semantic models
    chat client ──POST /ask──> API Gateway ── authorizer ── analyst Lambda ── Cortex, then SQL ──┘

    operator ── cdk deploy (3 stacks) ── schemachange (18 scripts) ── .env, secrets by hand

| Component | State | Operations | What makes it correct |
|---|---|---|---|
| Authorizer (`infra/lambdas/authorizer`) | the secret; one cached copy per execution environment | rotate, cold start, recycle, compare | a replaced token stops working, and stays refused; the new one comes into use |
| Router (`infra/lambdas/router`) | none | check, put_events, answer | the answer is true of what was published |
| Bus and rules (`infra/stacks/ingest_stack.py`, `infra/routing.yaml`) | copies owed to each target | deliver, repeat, drop | each copy goes to exactly one target, the right one |
| Firehose streams | buffers | insert into EVENTS, flush a partition to S3, back up | at-least-once, no copy lost without a record |
| Stage and COPY (`snowflake/scripts/V1.1.10`, `macros/copy_raw_events.sql`) | objects; load history of each table; raw rows | COPY | each object once, into its entity's table |
| Clicks table (`models/staging/ecommerce_clicks.sql`) | its rows, which lag behind EVENTS | refresh | accepted clicks come to show; one row per click, says its yml |
| Staging (`macros/staging_scd1.sql`, `models/staging`) | raw rows, staging rows, runs in progress | compile, COPY, rebuild, merge, fail | the newest event of each key, never an older one again |
| Marts (`models/marts`) | tables rebuilt from staging | replace | consistent totals |
| DAG (`airflow/dags/jaffle_pipeline.py`) | task states | daily run, one retry | models run after those they read |
| Analyst (`infra/lambdas/analyst`) | per environment: secret, key, connection and its session variable | one request at a time | rows are read as the user who asked |
| Chat client (`smoke_tests/analyst_chat.py`) | its place in the prompt loop, its user | prompt, ask, print, give up | what it prints was read as the user entered; it returns to its prompt |
| Governance (`models/secured`, `macros/secured`, `macros/apply_rbac_masking.sql`) | views and tables, which of their columns are masked | create, attach, query | no row without an entitlement, at any moment; just the documented columns once published |
| Migrations (`snowflake/scripts`) | schemachange history, a script in progress, entitlements, policies | apply a script, fail, begin again | a script interrupted half way can be run again, and does what one run would |
| Deployment (`infra/app.py`, `infra/stacks`) | what each stack was deployed with; `.env`; secrets | synth, deploy, roll back, fill in | values copied by hand survive; the two-step bootstrap comes to an end |
| Simulator (`simulators/simulate.py`) | sequences and pools | generate, post | references point at what was generated; keys are unique |

Components interact through messages (HTTP, the bus), shared tables and
objects, and globals that outlive a request. The hard behaviours are
at-least-once and unordered delivery, buffering longer than the look-back,
statements of several runs falling between one another, failures between two
statements of a thing that is then begun again from its start (a dbt run, a
migration, a deploy), and cached tokens, keys and sessions. `PROJECT.json` lists
each hazard with its line and the properties that cover it.

## Modules

| Module | Models | Composes |
|---|---|---|
| `SCD1` | what a slowly changing dimension of type 1 promises: loads add events, a publication sets every row to a newest loaded event of its key | |
| `Staging` | one staging model, from producer to merged row | implements `SCD1` |
| `Authorizer` | the token authorizer | |
| `Routing` | how a `type` decides rule, S3 key and COPY path (operators only) | |
| `Ingest` | API, router, bus, streams, objects, COPY | `Authorizer`, `Routing` |
| `Clicks` | the dynamic table over EVENTS | `Ingest` |
| `Analyst` | the analyst Lambda | |
| `AnalystApi` | chat client, gateway, authorizer and the analyst's environments | `Analyst`, `Authorizer` |
| `Marts` | the queries of `models/marts` (operators only) | |
| `Pipeline` | the daily run: checks, models, tests | `Marts` |
| `Simulator` | a session of the event simulator | |
| `Migrations` | schemachange and eight of its scripts | |
| `Deployment` | the three stacks, the trust bootstrap, the hand-copied values | `Migrations` |
| `Governance` | a dbt run that makes and masks the customer table and view, and what a query shows | `Deployment` |
| `Rollout` | deploys, scripts and dbt runs from an empty account on | `Governance` |
| `StagingProofs`, `AuthorizerProofs`, `IngestProofs` (with `Clicks`), `AnalystApiProofs` (with `Analyst`), `PipelineProofs`, `SimulatorProofs`, `RolloutProofs` | theorems | |
| `Sums` | lemmas about sums over finite sets, for `IngestProofs` and `PipelineProofs` | |
| `MCStaging`, `MCIngest`, `MCClicks`, `MCPipeline`, `MCSimulator`, `MCRollout` | instances for TLC; `AnalystApi` is checked directly | |

An operator whose comment begins with `Mutant:` is not part of a model. It is a
plausible bug in the definition that follows it, and stands beside it to show
that a property would notice.

### Staging

State: `clock`; `flight`, events accepted and not yet in S3; `landed`, events in
objects that the table's load history does not list; `raw`, `BRONZE.RAW.<model>`;
`staging`, the table, with `exists`; for each dbt run `pc` and `mode`, the value
`is_incremental()` had when the run compiled.

A run is `Compile`, `Copy` (the pre-hook), then `Rebuild` or `Merge`, and `Fail`
can end it before any of them. Runs interleave at these points: each is one
Snowflake statement, and a statement is atomic here. So a `CREATE OR REPLACE
TABLE AS SELECT` reads raw at the moment it replaces the table; a second run that
copies and merges in the middle of that one statement is not modelled.
`Selected` is nondeterministic where `row_number()` is: equal times, and the
NULL times that sort first under `desc`. `Breaks` is the select that raises.

`MaxDelay` is how long after its `time` an event may reach S3 and `MaxSkew` how far
ahead a producer's clock may be. *Timely* means `MaxDelay + MaxSkew <= Lookback`
and no event without a time. The repository gives a look-back of 15 s and a
Firehose buffer of 60 s, so it is not timely as deployed; the timely run and
theorems say what the look-back would have to be, and `staging_late` what happens
otherwise.

### Ingest

`req` is the list of requests, each with the stage it is in; `puts` is a history
variable that counts the copies it put on the bus, `dead` records whether its token was dead when it was
sent. `owed`, `buffered`, `events`, `failures`, `dropped` and `objects` hold the
*number* of copies of each event in each place. Duplicates come from clients that
post again (`Send`), from boto3's repeated `put_events` (`PutAnswerLost`) and
from EventBridge's repeated deliveries (`Deliver` with `again`). `Flush` writes
an object; `Copy` loads those the table's history does not list. A request without the header that
carries the token is answered 401 and its authorizer not asked (`NoHeader`).

COPY lists objects by a string prefix that ends in a slash, and Firehose puts a type's text before
one. `RightPlace` therefore holds only if no type has a slash of its own (`NoSlash`): of an event
with the type `com.shop.order/x.upsert` TLC shows that the raw table of `com.shop.order` gets it. No
type in the repository has one, and neither the router nor a rule refuses it.

### Clicks

On top of `Ingest`, `clicks` counts the rows of the dynamic table. `Refresh` makes it
what the query gives on EVENTS, at any time: its target lag of a minute bounds how far
behind a reader is, not what it may find. The router does not look at `data`, so a click
of `Malformed` can reach EVENTS; as long as it is there the casts of the query raise and
every refresh fails.

### Analyst

Each environment serves one request at a time. `secret`, `key` and `conn` are
the globals `_s`, `_private_key` and `_conn`; `appUser` is the session variable
`APP_USER_ID` of the session behind `_conn`. `conn = "ended"` is a session
Snowflake has ended, which `is_closed()` does not see. `last` is the last answer
of the environment and the user its rows were read as. `user` of a request is what `int()` makes of
its `user_id`; JSON's `Infinity`, of which `int()` makes nothing (`infinite_user`), and a result that
`json.dumps` cannot write raise past the handler, and API Gateway answers 502.

### AnalystApi

One chat client (`at`, `user`, `serving`, `shown`) among the requests of others, which
are `Analyst`'s `Invoke`. `GatewayPasses` gives the client's question to any idle
environment of the Lambda, if some environment of the authorizer allows its token, which
it read when it started and which the operator may have replaced since. `GiveUp` is the
client's or the gateway's time limit: the Lambda goes on with the request, and its
answer is read by nobody. So it does when the user ends the client: `Exit` is possible at any time,
since Ctrl+C is caught at the question only and anywhere else ends the program with a traceback.
`PromptReturns` therefore says that a question comes back to the prompt unless the client is ended. `LambdaStep` is a step of `Analyst` and, when it answers the client's
question, what `_print_response` prints.

### Marts and Pipeline

A table is a set of rows with the columns its properties need; `sum` over no row is
`Null`. `Refs` gives the `ref()`s of each model's file and so the task graph: `Parents`
adds `check_snowflake` and `dbt_deps`, and Cosmos's default of running a model's tests
before the models that read it. `Named` is what a semantic view's text names, which is
no edge of the graph. State: the status of each task in the present run; `table`, the
rows of staging tables and marts; `exists`.

`Build` writes and succeeds; `BuildLost` writes and fails (a post-hook raises after the statement, a
worker is lost); `FailAttempt` fails and writes nothing; the second failure of a task is final, and
`Skip` is Airflow's upstream_failed. `Sound` is what a model's tests demand: one row for each key,
and of payments an amount and a listed method or none, since dbt's `accepted_values` does not count
NULL as a value it refuses. A staging build merges any rows: which rows is `Staging`'s matter. The
days go on without a bound, one run at a time. The DAG sets no `max_active_runs`, so two runs could
overlap; with a mart's statement of one falling into the other, neither `DoneIsFresh` nor
`RevenueAgrees` would hold, and the code promises nothing there.

### Simulator

A session: `Load` decides the templates, `NextEvent` takes the next in the round, one step for each
field (`Counted`, `Random`, `Referred`, `Raise`), `PostEvent` with its three outcomes (202; refused;
no answer, with the event taken all the same), `Interrupt`. `seqs` and `pools` are `_sequences` and
`_pools`, which are global and keyed by field name. `log` is a history of what was posted. A value
is a number, and of the kinds whose value nothing refers to it is any. A field that cannot be
generated is of kind `raises`, whatever the reason. `--dry-run` prints where a post would be; to the
session that is a post that was refused.

Only `sequence` fields count and fill pools, and the templates of the repository have none.
`MCSimulator` takes those of them with keys or references as they are (`Shipped`), and has beside
them four that count fields (`Made`), for the rest of what the head of `simulate.py` describes.
`FallsBackOnlyUncounted` is what then holds of a reference: it is a random number only if no
event posted before it had a counted value of its field.

### Migrations, Deployment, Governance, Rollout

`Migrations` keeps the change history as the number of `applied` scripts and `next`, the statement
of the script in progress. A script is a sequence of statements; `Effect` is what a statement does,
`Refused` when Snowflake raises, and `Fail` ends a deploy at any statement. DDL commits the open
transaction, so `copies` are the committed rows of each INSERT and `pending` those a failure takes
back. Eight of the eighteen scripts are here: those with statements that cannot be repeated
(`V1.1.4`, `5`, `9`, `12`) and those that make, grant and patch policies (`13`, `14`, `15`, `18`).
The others can be repeated from any statement: CREATE IF NOT EXISTS, CREATE OR REPLACE of nothing
that is in use, GRANT, and the two ALTERs of `V1.1.16` (SET CHANGE_TRACKING) and `V1.1.17` (DROP
DEFAULT).

`Deployment`: `Synth` is a `cdk deploy --all`, which reads `.env` once; the stacks
follow in the order of `app.py`, and one that CloudFormation cannot make is rolled back.
`TrustPolicy` is the account root until both hand-copied values are in `.env`, and IAM
refuses a principal that does not exist. `Connection` says that CloudFormation writes a
secret's value only when the template's changes, and the template's is a constant.

`Governance`: a dbt run is four statements or series of statements, `BuildTable`, `MaskTable` column by
column, `BuildView` with its row access policy, `MaskView` column by column; `RunFails`
where a policy or a right is missing, `RunDies` anywhere. `Shown` is a query: the policies
are evaluated when it runs, against the entitlements and policy bodies of that moment.
The policies read `APP_USER_ID` with `GETVARIABLE`, which is upper case; a body that reads
`app_user_id` finds nothing.

`Rollout` runs the three from an empty account on. One operator types one command at
a time, so a `cdk deploy` and a schemachange deploy exclude each other (`stack = 0`,
`~Running`); dbt runs interleave with both. The bound on failures is one for all.

## Runs

| Run | Instance | Shows |
|---|---|---|
| `staging_any` | 2 keys, 2 runs, 3 events, delay 2 over look-back 1, untimed events | `NeverRegresses` |
| `staging_live` | 2 keys, 2 runs, 2 events, a payload that does not cast, delay 1 and skew 1 in a look-back of 2, the clock to 3, fair schedule | `NoneStranded`, that `Staging` implements `SCD1`, `LandedIsReflected` |
| `staging_late` | delay 4, look-back 1 | violation of `NoneStranded` |
| `ingest_api` | 2 requests of every form, a click or an order item, 2 environments, one rotation | `AnswersAreTrue`, `OnlyValidStored`, `DeadTokenPublishesNothing` |
| `clicks` | a good and a malformed click, order_item (beside the table of order) and an undotted type; 2 requests, 2 copies | `RightPlace`, `EveryCopyInOnePlace`, `LoadedOnce`, `AcceptedArrives`, `AcceptedClickShows` |
| `clicks_once` | one click, one request, 2 copies | violation of `OneRowPerClick` |
| `analyst_api` | a client and others, 2 users, one environment of each Lambda, one rotation | `AnsweredAsAsker`, `ShownAsEntered`, `EveryRequestAnswered`, `PromptReturns`, `DeadStaysDead`, `RotationTakesEffect` |
| `pipeline_revenue` | 1 customer, 2 orders, 2 payments, a listed and an unlisted method and none, any number of days | `DoneIsFresh`, `RevenueAgrees`, `MethodsAddUp` |
| `pipeline_lines` | 1 product, 1 line, 2 prices, a secured view above | `LinesPriced`, `SkippedBelowFailure`, `EveryRunEnds` |
| `pipeline_semantic` | a mart and a semantic view | violation of `SemanticAfterMarts` |
| `simulator` | the six shipped templates that have keys or references, and four made ones (three count fields, two of them the same; one has a reference under another name, one raises); 6 argument lists, 6 posts | `FallsBackOnlyUncounted`, `ReferencesWerePosted`, `KeysNeverRepeat`, `CountEndsSession` |
| `rollout` | 4 users of different entitlements, 2 customers, 2 failures anywhere | `EntitledOnce`, `PoliciesNotReplacedInUse`, `RowsNeedEntitlement`, `ShowsAsDocumented`, `ConnectionKept`, `ComesUp` |

Each state machine has its type invariant checked in one of them. Deadlock is checked
everywhere.

**Bounds.** A regressed row needs two events of one key and a third to move the watermark of the
table from another key, and two runs to interleave: three events, two keys, two runs. A stranded one
needs one event and the watermark, so two. `MaxTime` is beyond the look-back in every run, so that
rows fall behind the window and a select leaves them out; more of it only repeats this. In
`staging_live` an event may be as late, and a clock as far ahead, as the look-back just allows. In
`Ingest` copies of different requests do not meet before an object is flushed, so two requests and
two copies give every interleaving of a duplicate with a flush and a COPY. Environments of the
analyst share nothing, so one is enough; two users are needed for one to find the other's session,
and two versions of the token for the client's to go stale. `Pipeline` needs two orders of a
customer and two payments for a join to go wrong, and keeps the amounts small: its sums are of rows,
not of sizes. Several payments of one order, and of any amounts, are the theorems'
(`PartsMakeTheTotal`). In `simulator` six posts are a round of the shipped templates and one and a
half to three of the shorter lists, so that a reference meets an empty pool, one of a single value,
and one that has grown. `Rollout` needs two failures for a script to be left half done in two
places, or a script and a stack; the users are one for each clause of the policies, and with two
customers one entitlement names one and not the other. Symmetry is used for keys, in `staging_any`.

**Fairness.** `Staging`: the DAG is scheduled every day and each statement that is
enabled again and again in the end succeeds (weak fairness for `Compile` of the DAG's run, strong for
its COPY and its build, since `Fail` may disable them); nothing is assumed of
manual runs or producers. `Ingest` and `Clicks`: EventBridge and Firehose work through what
they hold, COPY runs daily and the dynamic table is refreshed by Snowflake; nothing is
assumed of producers or requests.
`AnalystApi`: the handler's calls return or raise (they have time limits: 60 s for
Cortex, 120 s for the Lambda), the gateway answers, Lambda retires every environment of
the authorizer in the end; the client's user need not type anything.
`Pipeline`: the scheduler goes on with a run, and every attempt ends in some way
(weak fairness of the tasks' steps together; no task is assumed to succeed).
`Simulator`: its calls return or raise, a post after 10 s. `Rollout`: the operator
repeats a command that failed and fills in what the README tells to, and the daily run goes on:
weak fairness of each of the four together, not of single statements, and failures come
to an end by their bound.

## Disagreements with the documentation

1. `staging_late`: `staging_scd1.sql:23-24` says the look-back "guards against
   late-arriving events at the Firehose boundary". The look-back is 15 s, the
   buffer 60 s (`ingest_stack.py:288-291`); an event that lands after a newer one
   was merged is loaded into raw and never selected.
2. `clicks_once`: `ecommerce_clicks.yml:9` says "Deduplicates by click_id, keeping
   the latest event per click". The query selects every row of EVENTS of its type.
3. `pipeline_semantic`: `sem_jaffle.sql:5` says the semantic view "depends on the marts
   through ref()", and `jaffle_pipeline.py:106-107` that it is built after them. Neither
   semantic view contains a `ref()`, so neither waits for any mart.

Noted while reading, with no run:

- `simulate.py:165-166` says "Root entities must appear before dependents so their sequence pools
  are populated before any reference generator runs on the first cycle". Only `sequence` fields
  fill a pool (`simulate.py:76-82`), and the keys in `simulators/events` are all `type: int`: the
  pools stay empty whatever the order, and every reference is a random number (`simulate.py:108`).
- `staging_scd1.sql:28-29` says "highest record_content:time wins". NULL sorts first
  under `desc` (line 106), so in a full build an event with no time, which the router
  accepts, wins.
- `fact_orders.yml:5` calls the parts a "per-payment-method" breakdown of the order. A payment whose
  `payment_method` is NULL passes `accepted_values` (`payments.yml:17-19`, with no `not_null` beside
  it), counts in `amount` and in none of the parts. `MethodsAddUp` excepts orders with such a
  payment.
- A rerun of `V1.1.5` whose first attempt passed its first ALTER is refused at that ALTER: `email`
  has its policy. The INSERT above is repeated by each attempt. `ComesUp` has this as its exception
  (`Stuck`); it takes an operator who unsets the policies.
- `create_security_infrastructure.sql:5` says it is "Called via on-run-start in
  dbt_project.yml"; that file has no such hook, and nothing else calls it.
  `apply_governance` is a no-op.
- The masking policies look at the level of an entitlement and not at its `object_id`: a
  user with level 2 on one customer sees the lifetime value of every row it can see.
- `infra/README.md:10` and `README.md:9` name Kinesis and a backup of `AllData`. No stack
  makes a Kinesis data stream; types in `routing.yaml` go to Snowflake only, and that
  stream backs up failed records only.
- `dim_date.yml:5` says the calendar covers "2017-01-01 through 2026-12-31", and
  365 * 10 rows end on 2026-12-29.

## Proofs

All are safety results and hold for any sets of keys, payloads, runs,
environments and users, and any bounds, under the assumptions the modules name.

- `TypeCorrect`, `StagingNeverRegresses`: from `SafeInv`, the type invariant and
  `RowsAreRaw`: every row of the table is a raw row of its key. The lemmas
  `SelectedRows` and `SelectedFirst` say what a select returns; `MergeKeepsUp` says
  that it cannot return an older event than the row it replaces: a timed row lies in
  the window its own time opens, so it is itself among the rows selected from.
- `TimelyNoneStranded`, `TimelyImplementsSCD1`: `NoneStranded` is not inductive, since a
  COPY may bring in any landed event. `TimelyInv` adds that all events are timed
  (`AllTimed`), that none in flight is overdue (`OnTime`), that none is ahead of the
  clock by more than the skew (`NotAhead`), and hence that no raw row is more than
  delay plus skew ahead of an event still to be loaded (`CloseBehind`): so whatever
  COPY loads is still in the window. `BuildPublishes` then shows each rebuild and
  merge to be a `Publish` of `SCD1`; a COPY is a `Load`, every other step a stutter.
- `AuthTypeCorrect`, `DeadTokensStayDead`: a cached token is never newer than the
  secret, and only `ColdStart` caches, from the current version.
- `AnswersTrue`, `DeadTokens`: from `RequestInv`, which says of each request that what it
  has put agrees with how far it has come (`Truthful`), and that one with a dead token
  stays where the authorizer left it (`Refused`). `AuthorizerSteps` is why no rotation or cold
  start lets it in later; `RequestStepMoves` describes every step of a request as one
  update of its stage, status and puts.
- `ValidStored`: `OnlyValidStored` speaks of the ends of the path only. `PlacesInv` says the same of
  every place on it, and `Brings` that a step other than `put_events` stores
  only what was stored.
- `IngestTypeCorrect`, `CopiesConserved`, `EachObjectOnce`: from `IngestInv`, with the lemmas of
  `Sums`. The copies of all events in all places are a sum over the events. A step either leaves
  every event's count over the places alone or adds one copy of one event, and `SumChange` says
  what that does to the total. A flush makes an object whose rows join the sum over the objects.
  A COPY moves the rows of many objects at once: the sum over the objects is split into those it
  loads and those its history lists already (`SumUnion`). `LakeOK` says that an object holds only
  events of its key prefix, and that a history lists only objects COPY lists for its entity.
- `EventsInTheirTables`, under `NoSlash`, which TLC evaluates on the instances: the text of a key
  that begins with an entity's path and a slash is, up to its first slash, the entity's text; so
  the object holds the entity's events. For EVENTS it is that the rule's target was decided by the
  listed types, and is kept with the copy.
- `ClicksAddsToIngest`: a step of `Clicks` is one of `Ingest` or changes nothing of it, so the
  invariants of `Ingest` are those of the composition, which `clicks` runs.
- `AnalystTypeCorrect`, `RowsReadAsAsker`: `AskerInv` says that at `query` the
  session variable is the current request's user; `AnswerKeeps` covers every early
  return.
- `ApiTypeCorrect`, `ApiAnsweredAsAsker`, `PrintsAsEntered`, `ApiDeadStaysDead`: from
  `ApiInv`. It takes `AskerInv` over from `Analyst` and adds `ServesOwn`: while the
  client waits, the environment it waits for holds the client's question and is not free.
  That a request given up leaves `serving` behind is what keeps a late answer from being printed.
- `DoneMartsAreFresh`, for any set of models closed under `ref()`: `DoneIsFresh` alone
  is not inductive, since a build could rewrite a table under a finished mart. `Ordered`
  says that the parents of a done task are done; with it whatever a finished mart
  reads is done (`InputsDone`) and not built again in this run, and `QueryReads`, that a query
  reads only what it `ref()`s, does the rest.
- `PipelineTypeCorrect`, `LinesArePriced`: `Keyed` adds that a staging table has rows of its
  model, one for each key, which every outcome of a merge keeps. `LinesPriced` then is
  `DoneIsFresh` used twice: the lines are fresh over `dim_products`, which, done before them, is fresh
  over the staging table; with one row per key the price found is the product's.
- `PartsMakeTheTotal`, `MartsAgreeOnRevenue`: `TestedSound` says that what the tests of a table
  accepted stands until the end of the run. So the payments under a mart have listed methods or
  none, and one row per key. The sum of the parts is then a sum over payments and methods taken in
  the other order (`SumSwap`), and what a customer paid is the sum of the payments grouped by order
  (`SumGroups`), the rows of `fact_orders` being one to one with the orders (`SumRename`).
  `RowAssumption` has tables finite, amounts numbers or NULL, and NULL no number.
- `SkipsAreBelowFailures`: inductive as it stands, once the failed task is known to be one of the
  run. `Upstream` is a recursive function; `UpstreamUnfolds` shows that its equation has a solution
  (`Ancestors`), without which nothing is known of it.
- `SimulatorTypeCorrect`, `NoKeyRepeats`: `KeysInv` says that a counter is past every value it
  gave (`Past`), posted or not, and that no key of the event being filled in is one posted before: so an
  event keeps its keys its own whether it is posted, lost or interrupted. `NamesAssumption`, that
  `_all_template_names` gives a list of templates, is evaluated by TLC: it is a fact about `SelectSeq`,
  which is defined by recursion.
- `ReferencesPostedBefore`, for templates that refer to no key they count themselves (`RefersToOthers`):
  `RefInv` says that a pool has only what a posted event carried or the one being filled in counts.
  TLC evaluates the condition on the instance it runs.
- `FallbacksAreUncounted`, for all templates: a reference falls back when its field has no pool; then
  it has no counter (`TypeOK`), and by `KeysInv` no counted value of it was posted (`NoPoolIsUncounted`).
  `FallInv` keeps this for the event at hand until its own post joins the log.
- `Sums` proves its lemmas by induction over finite sets. The library's induction theorems take an
  operator as a parameter, which the prover cannot instantiate; `Induction` states it for a *set* of
  subsets instead, from the well-foundedness of the strict subset ordering.
- `RolloutTypeCorrect`, `EntitledOnceHolds`, `NotReplacedInUse`, `NoRowWithoutEntitlement`,
  `ConnectionSurvives`, `PublishedAsDocumented`, for any users, customers, entitlements and number of
  failures: `RolloutInv`
  is the types, `InScript` (a deploy in progress is inside a script), `EntitledInv` (at each
  statement of `V1.1.12`, which INSERTs are pending and that none is committed),
  `PolicyInv` (nothing is granted before `V1.1.14`, and how far `V1.1.15` has patched) and `Guarded`
  (the view is never there without its row policy). `EntitledOnce` needs the statement-by-statement
  form, since in the middle of the script nothing is there once yet;
  `ShowsAsDocumented` needs that a view can only have been made after `V1.1.14`. It is about a
  column from the moment its policies are set (`Covered`): the view may be half masked.

Only model-checked: every liveness property (fairness and `ENABLED` are outside the prover), and
what `SelectSeq` and other recursive library operators compute (`NamesAssumption`). Every invariant
and action property that a passing run checks is stated by a theorem.

## Not modelled

Snowflake, Firehose, EventBridge, Lambda, API Gateway and CloudFormation are services: what is
here of them is what the stacks configure and the code relies on. Throttling limits, IAM beyond
the trust policy, logging, JWT construction, result coercion, date parts and all naming are left
out, as are the components `PROJECT.json` marks `not_modelled`: the naming macros (text), the
smoke tests (except the chat client), CI and local tooling. COPY's load history is kept for
ever: Snowflake forgets it after 64 days. A staging key is not NULL, which `not_null` tests
check only after the merge.

Of `Pipeline`'s marts one run at a time is modelled, and of the six secured resources the
customer's; `PROJECT.json` says of each component marked `partly` what is left out.

Some hazards are modelled and have no property, since the code promises nothing that they break.
When the analyst's secret is cached and its key does not parse (`analyst/handler.py:20-22`), every
later request of that environment is 502 until Lambda retires it: `ApiTypeOK` allows that state and
`EveryRequestAnswered` counts a 502. A simulator's post that fails leaves its key in the pool:
`ReferencesWerePosted` speaks of what was posted, received or not.

## Plan

Done: `SCD1`, `Staging`; `Authorizer`, `Routing`, `Ingest`, `Clicks`; `Analyst`, `AnalystApi`;
`Marts`, `Pipeline`; `Simulator`; `Migrations`, `Deployment`, `Governance`, `Rollout`; proofs of
all of them.

Next, in order:

1. Proofs: that `Clicks`' table has only clicks of EVENTS and never loses one but by a refresh that
   fails; `Pipeline`'s marts as an implementation of an abstract one.
2. `Pipeline` with overlapping runs, whose statements read and write in two steps, and staging's
   builds split in the same way: what an abstract mart then still promises.
3. NULL keys in `Staging`; COPY's 64-day history in `Ingest`.
4. A second resource in `Governance`, for the joins a secured view adds.
