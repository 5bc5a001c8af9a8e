# A TLA+ model of cloudbeat

Cloudbeat is an Elastic beat that collects cloud and Kubernetes resources, evaluates them against
security benchmarks (the *posture* flavor) or scans EC2 snapshots for vulnerabilities (the
*vulnerability* flavor), and publishes the findings. This directory models its concurrent core in
TLA+, checks it with TLC on small instances, and proves the main results with TLAPS for every value
of the constants. `PROJECT.json` lists, for every definition, the lines of source it stands for.

## 1. The system

The process has one **launcher**, which runs one **beater** at a time and replaces it when Fleet
sends a configuration. A beater has one of two flavors. A *posture* beater has a benchmark: a
**fetcher manager** starts, per period, an iteration of all the registered fetchers; they send
resources into a channel; two **pipeline** stages evaluate and transform them; the **publisher**
buffers the events and hands them to libbeat. On Kubernetes a **leader election** manager decides
which agent runs the cluster-wide fetchers. A *vulnerability* beater has a **repeater** that creates,
per period, a **worker** of five goroutines that snapshot, verify and scan EC2 volumes, and uses the
same publisher. Fetchers share **cycle caches** of API answers.

| Component (source) | State | Operations | What is hard | Correct means | Module |
|---|---|---|---|---|---|
| Launcher (`launcher/`, `beater/`) | beater, WaitGroup, `beaterErr` (capacity 1), merged configuration, listener channels | Run, Stop, Reload | stop, update and error race; late errors; bounded and unbounded waits | one beater at a time, truthful exit status, stop ends | `Launcher` |
| Cycle cache (`resources/fetching/cycle`) | value, cycle it was fetched in, RWMutex | GetValue | double-checked locking; failing fetch | one stored fetch per cycle, never stale, never older | `CycleCache` |
| Posture data path (`flavors/posture.go`, `publisher.go`, `pipeline/`, `benchmark/builder`) | four channels, event buffer | fetch, Step, HandleEvents, Stop | closing order, back-pressure, sends after close | exactly once, in order, all delivered, Run returns | `Posture` |
| Fetcher manager and registry (`resources/fetching/manager`, `registry`) | timer, map of fetchers, goroutines per fetch | Run, Stop, fetchIteration, fetchSingle, Update | overlapping iterations, abandoned fetches, map changed meanwhile | iterations end, nothing leaks, Stop drains | `FetchManager` |
| Vulnerability flavor (`flavors/vulnerability.go`, `repeater.go`, `vulnerability/`) | iteration, worker, five goroutines, snapshots in AWS | Run, Stop, each stage, the cleaner | five unbuffered channels, any failure, cancellation anywhere | no snapshot used after deletion or forgotten, nothing scanned is lost, all ends | `Vulnerability` |
| Leader election (`uniqueness/`, `builder/k8s.go`) | elector goroutines, WaitGroup, context | Run, Stop, OnStoppedLeading | WaitGroup counted after `go` | Stop waits for all, leadership is sought again | `LeaderElection` |
| AWS organization (`fetching/preset/aws_org_preset.go`, `benchmark/aws_org.go`, `account_provider.go`) | cache of fetchers per account, registry map, a forwarding goroutine per account | updater, forward | plain map shared by overlapping iterations, accounts that come and go while they are fetched, loop variable that is pointed to | the registry is one listing, every sender has a forwarder, resources are stamped with their own account | `AwsOrg` |
| Kubernetes fetcher (`fetchers/k8s/kube_fetcher.go`) | watchers, `sync.Once` that is replaced | Fetch, Stop | retry after a partial initialisation, with Fetches overlapping it | a Fetch without error is complete, no kind watched twice | `KubeFetcher` |
| AWS providers (`providers/awslib`) | clients by region | one `Describe`/`List`/`Get` per service | any call fails, in any region; half of an answer is kept | what is lost is what could not be read | `AwsProviders` |
| IAM credential report (`awslib/iam/user.go`) | retry counter | getCredentialReport | the report is made on demand; the loop looks at an old error | ends, and users come from the report | `CredentialReport` |
| AWS fetchers (`fetchers/aws`, `fetchers/k8s` for ECR and ELB) | | Fetch | partial failure, IDs | as above, and IDs are unique | `AwsFetchers` |
| GCP inventory and fetchers (`gcplib/inventory`, `fetchers/gcp`) | cache of display names | ListAllAssetTypesByName, the groupings by project | two listings of each asset, either fails | as above | `GcpInventory` |
| Azure providers and fetchers (`azurelib`, `fetchers/azure`) | two cycle caches | queries, enrichers, batches | enrichers that fail for all assets at once; empty batches | as above | `AzureInventory` |
| Node fetchers (`fetchers/k8s/process_fetcher.go`, `file_system_fetcher.go`), cluster IDs (`dataprovider/providers/k8s`) | | Fetch, getIdInCluster | processes that end while they are read | as above | `NodeFetchers` |
| Region cache (`awslib/*_region_selector.go`) | list of regions, 720 hours | Regions | | the regions, or the fall back to the configured one | a call that succeeds or fails, in `AwsProviders` |
| Construction of a beater (`config`, `flavors`, `flavors/benchmark`, `fetching/preset`, `gcplib/auth`, `azurelib/auth`, `awslib/cluster_name_provider.go`) | | NewPosture, NewVulnerability, NewBenchmark | many steps that must succeed and one that need not; fetchers that depend on the configuration | all the fetchers of the benchmark, or no beater | `Benchmarks` |
| Event of a vulnerability (`vulnerability/events_creator.go`) | | generateEvent | score and vector are looked up separately, in a map | they are of one rating | `ScanReport` |
| Evaluator, transformer, data providers | none that is shared | translation, API calls | not concurrent | | not modelled (section 5) |

## 2. From code to model

An action is what a goroutine does between two points where another one can get in its way: a
channel operation, a wait, a lock, a call into another component or into the cloud. Calls into
clouds, libbeat, client-go and Trivy succeed or fail as they like. A Go `select` is one action per
branch, so that every choice it may make when several branches are ready is explored: a stop
signal ready together with a timer, for instance, lets the loop run once more, as in Go. An
unrecovered panic in any goroutine ends the process. Comments above each action name what it stands
for; definitions keep the names of the source where they can. Every module also holds, next to the
action it belongs to, the *mutants* of it: the same action with one plausible bug, used to confirm
that each property notices the bug it is there for.

**`Launcher`** — `pc` is where `launcher.Run` is; `beaters` has a record for every goroutine of
`runBeater` with its configuration; `errCh` and `errClosed` are `beaterErr`, `wg` the WaitGroup;
`listener`, `reload` and `reloads` are the two channels of the Fleet listener and the call blocked
on them. `Stop` is libbeat's signal goroutine (it closes `beaterErr`), `Reload` Fleet's. A
configuration is a type and a benchmark, each possibly unset, which is what the merge and the
validator tell apart; `Merge` is ucfg's overlay. A Run may return, fail or panic at any time, and
after Stop it returns; the order in which deferred functions run (`wg.Done` before the recover
handler's send) is kept. **`Supervisor`** is the abstract specification of it: beaters one at a time,
one report, and "graceful" only when no beater runs. `Supervises` states that `Launcher` implements
it under the mapping given in the module.

**`CycleCache`** — one `GetValue` per caller, step by step; the lock is `writer`. A value is the
cycle it was fetched in, stored once per machine word of the Go type: the fast path copies it, with
no lock held, word by word. `seen` and `floor` are history.

**`Posture`** — fetch goroutines (`fetch`, `sent`), the goroutine of an AWS account that forwards a
fetcher's resources (`forward`), the two stages with the resource each holds (`stage`), the
publisher (`buffer`, `published`) and `posture.Stop` (`stop`, step by step). A resource makes one
event or, when evaluation or transformation fails, none. **`Delivery`** is its abstract
specification: a resource is accepted, then published at most once or lost, and nothing is published
after the publisher has returned; `Delivers` is the refinement.

**`FetchManager`** — `loop` is `fetchAndSleep`; `iter` each iteration; `single` each `fetchSingle`
and `job` the goroutine it starts and may abandon; `reg` the registry's keys, which every iteration
may replace when there is an updater. `missed` and `disturbed` are history: the iterations for which a
fetcher they had listed was gone by its ShouldRun or Run (`registry.go:78, 94`), and those after whose own Update another one took
keys out of the map. The registry's calls to the fetchers' own Stop are left out:
only the Kubernetes fetcher does anything there (`KubeFetcher`).

**`Vulnerability`** — the flavor is `repeater` (`Repeater.Run` and `HandleEvents`, which is the same
goroutine), `iterations`, `buffer` and `cancelled`; a worker is `worker[i]` (its phase), `at[i][g]`
and `hand[i][g]` (where its goroutine `g` is and what it has received or wants to send),
`listed[i]` (what the replicator collects and the cleaner deletes). Channels are unbuffered, so a
send and its receive are one action, `Handover`. `undeleted` are the snapshots that exist and
`DeleteSnapshot` was not called for, `unpublished` those scanned with success whose events the
client has not got. A snapshot stands for its scan report. The order in which instances are sent is not
modelled.

**`LeaderElection`** — electors are numbered in the order in which they start; `elector[e]` is where
the goroutine is, from campaigning to the last statement of `OnStoppedLeading`; `added` and `wg`
are the WaitGroup; `run` and `stop` are `k8sbenchmark.Run` and `Stop`. The statements `go
m.leader.Run(ctx)`, `wg.Add(1)` and the deferred `wg.Done()` are separate actions, and the
WaitGroup panics as Go's does: below zero, or when it is counted up between the release of `Wait`
and its return. `overlap` is history: Stop came between an elector's start and its Add (or before
Run had got that far). `Lose` assumes that two adjacent statements take less than the RenewDeadline
of three seconds.

**`AwsOrg`** — the organization is `active`, and changes while it is listed. An update (`pc[i]`) is
`listAccounts`, account by account, then the loop of `newCisAwsOrganizationFetchers` over the
listing, in any order as over a map or list, the sweep of what was not seen, and `registry.Update`.
`cache` is the preset's map, which overlapping updates share with no lock: every reading and writing
of it is a step of its own, and two at once may end the process, as Go's map does (`MapRace`).
`account[i]` is the loop variable, which with go 1.21 outlives its iteration; the factory is given
its address, the forwarder a copy of it. The fetchers of account `a` made in update `i` are the pair
`<<i, a>>`, and `forwarder` is the goroutine that stamps what they send. `truth` is history: which
accounts the listing could see, and whether another update was in the cache meanwhile.

**`KubeFetcher`** — one Fetch per call: take the Once (`mine`), run or await `initWatchers`, which
starts a watcher per kind in a fixed order and may fail at each, replace the Once after an error, and
report what the list holds *now*. `watchers` is the list, `live` the watchers that run, which differ:
after an error nobody stops those that were started. A list read while it is written may be torn
(`TornList`). `failed` and `overlaps` are history.

**`CloudFetchers`** runs one Fetch of one fetcher (`task`), of the twenty-odd that the benchmarks
register. **`CloudCalls`** is the world they share: the account is fixed, and what varies is the set
of calls that fail (`fails`) and of those that answer truthfully that nothing is configured
(`unset`). **`AwsProviders`**, **`CredentialReport`**, **`AwsFetchers`**, **`GcpInventory`**,
**`AzureInventory`** and **`NodeFetchers`** say, function by function and under the function's name,
what is returned for such a set: the resources, the error beside them, and for each detail of a
resource what the rules can see of it after its encoding — a setting, "none", or nothing. Providers
do not share state, so this is a calculation and not a concurrent system; what is a process is the
credential report, whose first, second and repeated requests and `GenerateCredentialReport` are the
steps of `CredentialReport`. Each of these modules lists the calls of its fetchers (`AwsCalls` and so
on), what a cycle should find (`AwsExists`) and, separately and from the side of the user, which failed
calls may hide a resource (`AwsHidden`): the properties compare the two.

**`Benchmarks`** is the construction of a beater in the same form: a task for each of the five
benchmarks and one for the vulnerability flavor, whose calls are the steps of `NewPosture`,
`NewBenchmark`, the credential providers and the Kubernetes helpers, and whose fields of the
configuration are "calls" that are set or not. What it "sends" is the beater and one entry per
fetcher of its registry; what it should send (`OfBenchmark`) is written in terms of the fetchers
that `CloudFetchers` runs, and what may prevent it (`Needed`) is written per benchmark. **`ScanReport`** is
what the event of one vulnerability shows: any data source, any sources that rate it, each
with any of the four fields (score and vector of CVSS 2 and 3); the lookup that ranges over a map
gives a set of answers.

`Launcher` calls the Run and Stop that `Posture`, `LeaderElection` and `Vulnerability` refine: what it
assumes of a beater (Run returns after Stop) is what `StopEndsRun` and `StopEnds` check there, and
the crash of `posture.Stop` that `Launcher` contains is what `Posture` calls `ClientSet = FALSE`.
What `FetchManager` lets a fetch do (return, fail, panic, hang, outlive its iteration) is what
`Posture` assumes of its senders, `KubeFetcher` of its overlapping calls and `AwsOrg` of its overlapping
updates and of senders that outlive their registration. A Fetch of `CloudFetchers` is one `single` of
`FetchManager`; the panics it contains are those that `fetchProtected` recovers there.

## 3. What is checked

Passing runs, exhaustive:

| Run | Instance | Shows |
|---|---|---|
| `launcher` | vulnerability configuration, three reloads out of five updates of both flavors, managed or not | one beater at a time (`OneLiveBeater`), a beater that is being replaced is on its way out (`OldBeaterCanEnd`), the configuration is the ordered merge of accepted updates, a blocked Reload is released, the process ends after Stop, and the refinement of `Supervisor`, which includes that a graceful exit is reported only with no beater running |
| `cache` | two callers, cycles 0..2, two words | results of the requested cycle or later; no call returns anything older than an earlier call did; a stored fetch always moves forward; calls return |
| `posture` | an organization and a direct fetcher with two resources each, channels of one, threshold two | exactly once and in order, nothing left behind by an ordered shutdown, everything accepted is published or the beater was stopped, Run returns after Stop, refinement of `Delivery` |
| `manager` | two overlapping iterations of two fetchers, one that never returns, one conditional, with an updater | what an iteration listed is missed only if the other one took keys out of the map after it (`MissedMeansDisturbed`), iterations end although a fetch hangs, goroutines of fetches that return end, Stop drains |
| `vulnerability` | two iterations, two instances, one with two volumes | `NoUseAfterDelete`, `NoSnapshotForgotten`, `OnePipeline`, `NothingLost`; workers end, and Run returns after Stop |
| `leader_election` | four successive electors | the WaitGroup's accounts, `StopBlocks` and `PanicsInWindow`, leadership is always sought again, Stop returns |
| `org` | two overlapping updates of two accounts, two changes to the organization, two resources under way | `RegistryIsListing`: the registry is one listing, whatever overlaps and fails; `CacheIsRegistry`; `KeepsFetchers`: an account that stays keeps its fetchers; every sender has its forwarder |
| `kube` | four overlapping Fetches of three kinds | which Fetches may report less than everything without an error (`CompleteOrOverlapped`), and no kind is watched twice but for leftovers (`WatchedOnce`) |
| `cloud` | every fetcher, two places with two names each, any two calls failing or answering "none", the code's five retries; the six ways to build a beater; three sources that rate a vulnerability | `LossIsLocal`: a cycle reports exactly what no failed call had to hide, and a beater has all of its fetchers or is not built; `TellsTruth`: where a failure reads as a setting; `UniqueIds`: exactly which resources share an ID, also across accounts; `ReportBounded`; `CvssAgrees`: exactly when score and version shown are of one generation of CVSS |

Why these bounds are enough. The hard cases need two of a kind: two beaters (a third reload lets an
old error meet a third beater), two callers and a value of two words (a torn read needs both), two
fetchers and channels that are full after one value, a buffer that is below, at and above the
threshold, two iterations that overlap, and two workers, the former in its clean-up. In `vulnerability`
the instance with two volumes makes a stage send twice per input, and the one without volumes makes it
send nothing. Four electors let one be re-run after a re-run. In `org` one account can leave and come
back between and inside two updates; that a third update heals the cache after two that overlapped
is the supplementary `AwsOrg_ThreeUpdates.cfg` (fewer changes and resources, the same properties). In `kube` a
call can overlap one that fails while a third runs under the next Once and a fourth comes after all. In
`cloud` two failures meet in every pair: two regions, a region and a detail, a listing and the
listing of the regions, the two listings of GCP, two databases of one server; no function asks for
the outcome of three calls at once other than through "some failed" (a construction is a conjunction of
steps, in which two can go wrong together). `MCAwsManaged` makes one of the two policies of each account AWS's own;
`MCPath` lets two patterns list one file, as any two patterns given to `NewFsFetcher` may, although the two presets' do not
(`pki/**` lists the directory as `pki/`, the pattern `pki` without the slash: two paths, two IDs).
Three sources are the data source, NVD and another. The invariants are then
proved for all values (section 4). MaxReloads, MaxCycle, Items, MaxIter, MaxElectors, MaxAtOnce, MaxChanges,
MaxFlight, MaxCalls and MaxOdd are the bounds; the code has none of them. (MaxRetries is the code's.)

Every module's type invariant, and the inductive invariants of section 4, were checked with TLC before they
were proved; as the proofs now show them for all values, the runs above keep to the promises.

Runs that refute what a comment or test says (each with its counterexample's cause in
`PROJECT.json`, "findings"):

| Run | What happens |
|---|---|
| `cache_torn_read` | the fast path copies a multi-word value while it is being written |
| `posture_org_crash` | `resourceCh` is closed while an account goroutine sends on it, with nothing to recover |
| `org_shared_identity` | the fetchers of every account made in one update point to the loop variable, so that the IDs made from it (password policy, monitoring, AWS Config and others) are the same for different accounts |

Four more configurations give counterexamples to statements that no line of the code makes in so many
words, but that a reader may expect; they are kept for `tlc -config`:

| Configuration | Counterexample |
|---|---|
| `Launcher_ErrorMeansReturned` | the error of a beater that was already replaced ends the launcher while its successor runs |
| `Launcher_ErrorEndsLauncher` | the same leftover error fills `beaterErr`: the next failing beater blocks in its send, and `stopBeater` waits for it for ever (the exception `Leftover` of `OldBeaterCanEnd` is exactly this state) |
| `Launcher_StopSurvives` | `posture.Stop` calls `Close` on a client that no constructor sets |
| `FetchManager_NotInParallel` | an iteration longer than the period overlaps the next |

What `cloud` shows of the code, as the exact conditions in its properties: when the regions cannot be
listed and another region than us-east-1 is configured, buckets and trails are not listed at all (a nil client
panics); a GCP network known by its IAM policy only, which a DNS policy names, ends its Fetch (whether that policy
enables logging or not), with the assets listed after it;
a process that ends while `/proc` is read ends the Fetch of all processes; the details named in `Blurred` and
`UnreadFor` are reported to the rules as absent when they could not be read, among them the document of an inline
policy;
a trail whose log group's ARN has six parts ends the monitoring Fetch, and with it the security hubs, while an ARN
with fewer parts or an empty name leaves only that trail out; a credential report that does not parse is not asked for again.

IDs are shared exactly so (`UniqueIds` is an equivalence): the policies of AWS itself, `AWSSupportAccess` as any other
that is attached, have no account in their ARN and are one resource to every account of an organization that attaches
them (`iam/policy.go:52`, `iam_fetcher.go:119`); what is named through an identity that several accounts share (see
`org_shared_identity`) has one ID for all of them; a cluster's ECR repositories share one ID, as do its load balancers;
so do processes whose PID and start time differ only in where the one ends and the other begins; and a path that
two patterns list is sent twice under one ID.

A vulnerability's score and version are looked up separately. The sources that count are the data source, else NVD,
else all. If all they have to show, scores and vectors alike, is of one generation of CVSS, the event agrees with itself; otherwise
(two random sources that rate differently, one source with a score but no vector) some event shows a score of one generation
beside the version of another. `CvssAgrees` states both directions.

Because of what `Launcher_StopSurvives` shows, whatever comes after the call of `Close` in `posture.Stop` is never
reached today. `posture` is therefore checked with `ClientSet = TRUE`, to say something of the
shutdown that was meant. Seen in the models too, but not run on their own: a panic in a beater after
Stop panics again in `runBeater`'s recover handler (`panicSend`), and the grace period of twenty
seconds is not observed while an update waits for its old beater (`StopEnds` then relies on that
beater's return); `StopBlocks` and `PanicsInWindow` without their `overlap` are violated by a Stop that
comes between `go m.leader.Run` and `wg.Add(1)`, although `leaderelection_test.go:60` relies on "Stop is
blocking until all go routines are finished".

**Fairness.** Weak fairness of each goroutine's steps: Go's scheduler runs what can run, and timers
fire. It is never assumed of what others decide: calls of Stop and Reload, ticks of the repeater and the
manager, failures, the acquisition or loss of a lease. Calls into a cloud are assumed to return (their contexts are cancelled or time
out), except where a constant says they may not: `MayHang` in `Launcher` and `FetchManager`.
`CycleCache` needs strong fairness of each caller, which `sync.RWMutex` gives: a waiting writer
blocks later readers, and waiters are served in order. The publisher's flush tick is assumed to be
chosen in the end by a select that keeps finding it ready, as Go's random choice does.
`AwsOrg`, `KubeFetcher` and `CloudFetchers` state no fairness and no liveness: a listing may go on as long as AWS
answers, and `watcher.Start` may wait for ever (the code says so itself, `kube_fetcher.go:125`). That an
iteration ends all the same is `FetchManager`'s `IterationEnds`. That the credential report is given up is
`ReportBounded`, a bound on its requests. Deadlock is not checked where the system may stop for good.

## 4. What is proved

Every invariant that a passing run checks is also a theorem, and so are the two refinements and the action
properties. The proofs are in `LauncherProofs`, `CycleCacheProofs`, `PostureProofs`, `FetchingProofs` (the
fetcher manager and the Kubernetes fetcher), `VulnerabilityProofs`, `LeaderElectionProofs`, `AwsOrgProofs` and
`CloudProofs`. They assume only the named assumptions of the modules: types and sizes of the constants,
`NamesAssumption`, that what stands for the root user and for AWS's support policy stands for nothing else, and
`PathAssumption`, that one pattern lists a file once.
Each follows the same argument: an inductive invariant; a lemma that the initial state satisfies it; a lemma
with one step per action that it is preserved; and theorems that draw the promises from it.

- **Launcher.** `IInv` is inductive: only the newest goroutine can hold the WaitGroup, `wg` says
  whether it does, and `pc` agrees with both. `wg = 0` at the two places where a beater may be
  created is what `OneLiveBeater` needs and does not say by itself. From it: `TypeOK`,
  `OneLiveBeater`, `GracefulMeansStopped`, and `Supervises`, the refinement, step by step. `MergeInv` is about
  the configurations: `latest` has, field by field, what the latest accepted update that sets the field says
  (`LatestIsMerge`), which merging one more update extends; the beater the launcher waits for was built from it
  (`BuiltFromLatest`); and in managed mode nothing is created before a first, validated update (`FirstIsValid`).
  Hence `ConfigIsMergeOfUpdates`, for any updates in any number. `ReleaseInv`, that nobody is blocked once
  `done` is closed and that `ch` is closed after it, gives the action property `ReloadReleased`. `LeavingInv` says
  that a beater `stopBeater` waits for has left its Run or was told to, and with it `OldBeaterCanEnd`.
- **CycleCache.** `CInv`: who holds the lock, that a writer's cycle is later than the cached one
  (`FetchInv`), which words it has stored (`CachedInv`), and that what a reader has copied so far lies
  between what it asked for and what is cached (`ReadInv`), which holds even during a race, since
  words only ever grow. From it `OneFetch`, `Fresh`, `MonotoneReads`, and the action property `OncePerCycle`, for
  any number of callers and words.
- **Posture.** `TypeOK` (no channel beyond its capacity) and `DrainInv`: each channel is closed only
  after the one before it is closed and drained; hence `ClosedMeansDrained`. `PostureCrashCauses`:
  whatever the fetchers are and whether there is a client or not, the process ends only after `resourceCh` was closed,
  and only by `Close` on the missing client or by an account goroutine of the organization that holds a resource, never
  by a fetcher that sends itself. `DeliveryInv`: `Trail`, the sequence of what was published
  and of what the buffer, the channels and the stages hold, in that order, is increasing for every fetcher, and is
  with what the account goroutines hold exactly what was sent and not dropped. A resource that moves on leaves
  `Trail` as it is (`TrailStays`, from a few lemmas on concatenation); a send appends to it (`PushAppends`), a
  dropped resource is cut out (`StageDropsCuts`, `CutOrdered`). Hence `ExactlyOnceInOrder` for any fetchers,
  resources and capacities, and, since a flush moves the front of `Trail`, the refinement `Delivers`: every step
  accepts one resource, loses one, publishes some, or changes nothing that `Delivery` sees.
- **FetchManager.** `MInv` (iterations, fetches and their goroutines agree), which is inductive, and from it
  `MissedMeansDisturbed`, for any fetchers and iterations: of what an undisturbed iteration listed nothing has left the
  map (`ListInv`), whichever of its goroutines are late or were abandoned.
- **Vulnerability.** `VInv` ties the phases together: goroutines run only in the pipeline phase
  (`PhaseInv`), whatever is not deleted is listed by its own worker (`ListInv`), unless stopped only the
  handled iteration runs (`CycleInv`), stages close in order (`ChainInv`), and what is not published is
  in the buffer or on its way to it (`DeliveryInv`). With it `NoUseAfterDelete`, `NoSnapshotForgotten`, `OnePipeline`
  and `NothingLost`, for any instances, volumes and iterations.
- **LeaderElection.** `ElectionInv`: at most the last two electors are alive, only the last contends
  (`ElectorInv`), and `wg` is what these two count (`WgInv`), so that it is zero exactly when none is left.
  With it `PanicsInWindow` and `StopBlocks`.
- **AwsOrg.** `OrgInv`. While an update lists, what it has listed and what it has yet to read cover `least`,
  and lie in `most` (`ListInv`); the map it returns is filled from the listing (`FmInv`), hence
  `RegistryIsListing` for any number of updates that overlap in any way. Of two updates in the cache
  neither believes itself alone (`AloneInv`); one that is alone keeps its map a part of the cache and the rest
  stale (`SoleInv`), hence `CacheIsRegistry`, however spoilt the cache was before. A fetcher gets into any map only
  after its forwarder was started (`MadeInv`), hence `Forwarded`. An update that has the cache to itself,
  after one that had, returns for each account of the registry the fetchers it has there (`KeepInv`), hence the action
  property `KeepsFetchers`.
- **KubeFetcher.** `KInv`. A Once is replaced exactly when `initWatchers` failed under it, by the one call
  between the failure and the replacement (`OnceInv`); every call numbers its Once below itself, so that there are
  always Onces left (`OrderInv`); a latest Once that is done and did not fail has a complete list (`WatcherInv`);
  and whoever used a failed one overlapped the call it failed for (`OverlapInv`). Hence `CompleteOrOverlapped` and
  `WatchedOnce`, for any number of kinds and calls.
- **CloudFetchers.** The proofs are about one large step, Fetch, for any places and names and any number of calls that
  fail or answer "none". `ReportInv` counts the requests for the credential report, hence `ReportBounded`; `ScanInv`
  says where score and version were read; as each lookup is free to choose among the sources that count, and each
  generation has a lookup that shows it, hence `CvssAgrees` in both directions. `AskedInv` bounds what can fail to what the task asks
  for. On it rest three arguments, each with a lemma per fetcher and one that no later step can undo the result,
  as the world does not change:
  `TellsTruth`: a detail is the answer, the answer of a client that may be missing, or either of them blurred
  (`PlainTold`, `BlurTold`), and each fetcher's details have one of these forms.
  `LossIsLocal`: what is sent, by type and place (`Found`), equals what exists and is not hidden, both written as
  sets of pairs per type (`ShownPairs`, `FoundOf`); `Hidden` expands the user's table of hiding calls, and the report
  is read before anything is sent (`SentInv`).
  `UniqueIds`: a fetcher sends one resource per type and place (`Single`), only of what exists (`Placed`), and an ID is
  a tuple from which type and place can be read back (`AwsIdOf`, `Tuples`), except where the property says so; there
  the IDs are equal (`SameIds`).

**In place of liveness.** Why does a wait end? Because, as long as it lasts, somebody can take the next step, and because
the steps run out. Both are safety, and these are proved. `CanStep` is written from the guards, without ENABLED;
that it says the same is `CanStepIsEnabled` in the MC modules. The statements were checked with TLC like the others
(add them to the INVARIANT or PROPERTY lines of the module's configuration to repeat it).

- `LauncherOldBeaterCanEnd` (above): `stopBeater` waits in vain only for a beater whose error finds the error of an
  earlier one in its place.
- `CacheNeverStuck`: while calls are in progress, one of them can go on: whoever holds the lock does not wait for it.
  `CacheStepsRunOut`: each step of a call brings it nearer to its return, and no other call sets it back, so that
  `GetValue` returns within five steps and one per word of its own.
- `PostureNeverStuck`: while the publisher is there, full channels never hold each other up, and the end of the input is
  passed on. It needs no invariant: the argument goes along the chain of stages, from the publisher back to whoever cannot
  go on because the next one cannot. `PostureWorkRunsOut` is the other half: once `resourceCh` is closed
  nothing adds to `Work`, and each step of a stage or receive of the publisher takes from it, so that the pipeline is
  drained in as many steps as `Work` says. The account goroutines that still run do not appear in it: what they may do
  instead is end the process.
- `VulnerabilityNeverStuck`: as long as a worker waits for its five goroutines, they are through or one of
  them can go on, although the channels are unbuffered and the receiver of the events may have left. It needs
  `ReadyInv` (whoever sends has something in hand, all five were started, and the first never receives), and that only
  the handled iteration runs unless the context is done (`CycleInv`).
- `LeaderElectionStopNeverStuck`: while Stop waits, an elector that the WaitGroup counts is alive and can go on, also
  after a Stop in the window between `go` and `Add`; `StillCounting` says that the counter is positive
  as long as Stop waits and has not panicked.

Model-checked only: the liveness properties (`StopEnds` of `Launcher`, `Vulnerability` and `LeaderElection`,
`CallReturns`, `EventuallyPublished`, `StopEndsRun`, `IterationEnds`, `NoLeak`, `StopDrains`, `WorkerEnds`, `Follows`),
for which the prover has no rule: they speak of fairness, and so of ENABLED. What is missing from the theorems just listed to these properties is the
fairness alone, or (`Follows`, `EventuallyPublished`, `StopDrains`) also the argument.

## 5. What is not modelled

- **In the modelled components**: wording, logging, metrics; how long anything takes, but for the order of
  timers the code fixes; the contents of resources, findings and reports, but for what `CloudFetchers`
  keeps of them; what Fleet, Kubernetes, AWS, Azure and GCP answer, except that they may fail. The other
  holders of the Kubernetes lease are client-go's business: what is modelled is what this process does
  when it gains or loses it. `Launcher` takes a Run that was cancelled to return.
- **Configuration** (`config/`): default values, periods and the contents of credentials. What refuses a configuration is
  in `Benchmarks`, what decides whether an update is accepted in `Launcher`.
- **Evaluator and transformer**: one call per resource and no shared state; a success or a drop in `Posture`. The
  rules are Rego, in a submodule.
- **Data providers and enrichers**: fields read once at start and copied into every event, but for the IDs, which
  are in `NodeFetchers`.
- **The region cache**: each multi-region client is made with a selector of its own, asked by one caller at a time;
  `AwsProviders` has its listing as a call that succeeds or fails.
- **GCP's cache of display names** is a map that goroutines write without a lock, which Go's runtime ends the
  program for, as in `AwsOrg`'s `MapRace`. It is listed as a hazard.
- **Mocks** (15,600 of the 34,400 Go lines outside tests, nearly half), libbeat's command line, build, deployment, test suites: nothing of
  them runs in the product, or nothing of it is cloudbeat's own.

A great part of the source is therefore outside `map`: generated mocks, structures and the encoding of
events. What is in the map is the code that decides something.

## 6. Plan

1. Done: the launcher with its abstract promise; the cache; the fetcher manager; the posture data
   path; the vulnerability flavor; leader election; the organization's registry; the Kubernetes
   fetcher; the fetchers and providers of the three clouds and of a node; the construction of a beater; the proofs of
   section 4, with which every invariant, action property and refinement of the passing runs is proved.
2. Left: the start of `k8sbenchmark.Run` before a leader is known, composed with
   `Posture`; what no theorem says of the fetcher manager's liveness (each of its waits has a deadline
   of its own, so there is no chain to follow, but the steps of an iteration are not counted).
