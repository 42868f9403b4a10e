# A verification of HM9000

HM9000 is Cloud Foundry's health manager. It compares what users asked for (the
desired state, held by the Cloud Controller) with what runs (the heartbeats of
the DEAs), and sends start and stop messages to make the second match the first.
This directory models the part of it that decides, remembers and sends, and
checks and proves properties of that part.

Paths below are relative to the repository; `x.go:12-15` names lines.

## 1. The system

HM9000 is one binary started several times. Each process does one job; the
processes share an etcd-like store and never call each other.

| Part | State it keeps | Operations | Talks to |
|---|---|---|---|
| Listener (`actualstatelisteners`, `hm/start_listening_for_actual.go`) | heartbeats not yet saved; a sender that lives as long as the process | receive a heartbeat (HTTP or NATS), every second save the batch, bump or revoke freshness, start replacements of evacuating instances | store, Cloud Controller |
| Store: actual state (`store/actual_state.go`) | in the store: `/apps/actual`, `/dea-presence`; in memory: heartbeat caches, DEA cache with an expiry | `SyncHeartbeats`, `GetInstanceHeartbeats` (deletes what belongs to absent DEAs) | store adapter |
| Freshness (`store/freshness.go`) | one key with a TTL and the time it was first set | bump, revoke, verify | store adapter |
| Store: messages, crash counts (`store/store.go`, `pending_*.go`, `crash_count.go`) | `/start`, `/stop`, `/apps/crashes` | save, get, delete; several keys at a time, each by itself | store adapter |
| Analyzer process (`hm/manage_desired_state.go`, `hm/ifrit.go`) | nothing between passes but the time of the next | a pass: fetch and analyze concurrently, then send | all of the following |
| Fetcher (`desiredstatefetcher`) | the bulk token of a pass | page through the Cloud Controller's apps | Cloud Controller; hands batches to the analyzer on a channel |
| Analyzer (`analyzer`) | a snapshot of apps and messages | read, decide app by app, save crash counts, starts, stops | store |
| Sender (`sender`) | what was sent, what to save and delete | verify, send, mark, delete | Cloud Controller, store |
| Evacuator (`evacuator`) | nothing | on `droplet.exited`: save a start and send it | NATS, store, Cloud Controller |
| Polling loop (`hm/ifrit.go`, main functions in `hm`) | timers of a pass, the goroutine of its action; in consul: a lock | call the component's action every polling interval while the lock is held | consul |
| Compaction, shredder (`store/compact.go`, `shredder`) | nothing | delete old schema versions and empty directories | store |
| Dump (`hm/store.go`) | nothing | print apps and messages; reading apps deletes expired heartbeats | store |
| API server (`apiserver`) | nothing | answer for a list of apps | store |
| Metrics, configuration, logging | counters | output | |

What is hard here:

* Every process reads, decides and writes without a transaction: the analyzer's
  snapshot is old when it saves, and older when the sender acts on it. The
  evacuator and the listener write the same keys.
* Several processes of a component run; a lock in consul says which one works. A pass
  may outlive the lock, and a hung pass its own timeout.
* Within a pass three goroutines meet over channels, and a pass is given up
  without waiting for them.
* A save handles its keys in parallel, so it may fail half done, and an HTTP call
  may succeed with its answer lost. A process may die anywhere.
* Delays decide what happens: grace periods, backoff, keep-alives, TTLs and the
  polling interval interact, and the default configuration has the polling
  interval (6 heartbeats) longer than the grace period (3).

`PROJECT.json` lists the hazards line by line, with the properties for each.

What makes each part correct:

* **Pass**: nothing is written before the list of desired apps is complete; an
  abandoned pass leaves the store alone; no goroutine is left behind.
* **Analyzer, one app**: it acts exactly when the app has diverged; it never
  takes away the last instance that serves; it stops nothing that runs before what is missing
  has a start; duplicates go one at a time; backoff
  never shrinks.
* **Analyzer and sender, over time**: a crash is counted before it is retried; a
  message is marked as sent only if it was; a queued message is not overwritten;
  an index that stays missing is started, but not twice within a keep-alive.
* **Evacuator**: a start it saves as sent was sent, whatever the sender does to its key.
* **Polling loop**: a process makes one pass at a time; two processes make one each only
  around the loss of the lock; passes go on whichever process fails.
* **Compaction**: a key that was there when the store was listed is not deleted; in the end
  nothing is left but the current schema's keys, newer schemas and the locks.
* **Actual state**: the store comes to agree with what the DEAs report, whatever
  failed; a read deletes no instance of a DEA that is present; a state that is fresh
  has been so for a full TTL and lacks no instance reported all that time.
* **Listener**: an evacuating instance is replaced once; starts are left out only
  over the limit of that invocation.

## 2. The modules

| Module | Stands for | Correspondence |
|---|---|---|
| `AbstractPass` | what a pass promises | Pages learned, whether they are complete, the writes made, the outcome. `AnalyzePass` implements it; the refinement mapping is `Promise`. |
| `MessageLife` | what is promised of a pending message | For each key whether a message is absent, waiting or sent, and when the Cloud Controller accepted one. `HealthManager` implements it, twice: `StopLife` for stops, `StartLife` for starts. The refinement mapping is `LivesOf` of the store's map and `Posted` of the history of accepted calls. |
| `AnalyzePass` | one call of `analyze()` | Three program counters for the three goroutines, one action per channel operation or store call. A channel is a sequence of at most one batch and a closed flag; a result channel is its one-place buffer. Batches are numbers, writes are kinds. |
| `Messages` | `models`: apps, heartbeats, pending messages | One operator per method of `models.App` and `PendingMessage` that a decision uses. A Go map is a total function, an absent key has the zero value. |
| `AppAnalyzer` | `analyzer/app_analyzer.go`, `crash_delay.go` | One operator per `generatePending...`; the keyed maps of the code become "what is at this key afterwards" (`NewStart`, `NewStop`), so the overwrite of a crashed start by an evacuation is there. The order of the heartbeat list is an argument, since a directory listing decides it. |
| `SharedStore` | store, clock, Cloud Controller | The variables the processes act on. |
| `AnalyzerProcess` | the analyzer process | A pass as a sequence of single reads, saves, posts and deletions. |
| `Evacuator` | the evacuator process | `handleExited` in three steps: save, send, save as sent. |
| `ListenerSender` | the listener as a sender of starts | The start of an evacuating instance through `Send`, failed, held back or accepted, and the save of everything the sender ever marked. |
| `HealthManager` | the three processes together | Interleaves them with the clock (and the TTL of crash counts), users and instances, and keeps the history the properties speak of. |
| `Failures` | errors of the store, the Cloud Controller and hosts | A bounded number of failing calls, and `Handled`: which keys of a save or a delete went through. |
| `ActualState` | `/apps/actual`, `/dea-presence`, and a process's reads of them | One record per `RealStore`: where its read is, what it has listed, its cache of DEAs and the age of that cache. One action per store call of `GetInstanceHeartbeats` or `GetInstanceHeartbeatsForApp`, the deletion of what belongs to absent DEAs among them. |
| `Listener` | the listener process | `syncHeartbeats` as a control point per store or HTTP call: load the cache, merge, save, delete, bump or revoke, verify, post, keep. |
| `Heartbeating` | DEAs, listener and readers together | Interleaves the listener with DEAs, instances, readers, restarts and time. |
| `PollLoop` | the processes of one polling component | `main` is where the main goroutine is: waiting for the lock, in one of the selects of `Component.Run`, or on its way out. `running` is the action's goroutine, `age` the two timers, `holder` the lock in consul. |
| `Compaction` | `Compact` over the store's tree | A node is its path, a sequence of names. One action per request: the two listings, each deletion; between any two of them other processes save and remove keys. |
| `Shredding` | the shredder | `PollLoop` with `Compaction` as its action, and the fairness of both. |
| `MCAppAnalyzer`, `MCHealthManager`, `MCHeartbeating`, `MCShredding` | | Small instances. |
| `AnalyzePass_proofs`, `AppAnalyzer_proofs`, `MCAppAnalyzer_proofs`, `HealthManager_proofs`, `Timing_proofs`, `Heartbeating_proofs`, `Presence_proofs`, `Shredding_proofs` | | Theorems and their lemmas. Each extends the module it is named after, but for two: `Timing_proofs` goes on from `HealthManager_proofs`, `Presence_proofs` from `Heartbeating_proofs`. |

`HealthManager` EXTENDS `AnalyzerProcess`, `Evacuator` and `ListenerSender`, which EXTEND
`SharedStore`, which EXTENDS `AppAnalyzer` (and through it `Messages`) and
`Failures`. `Shredding` EXTENDS `PollLoop` and `Compaction`. `Heartbeating` EXTENDS `Listener`, which EXTENDS `ActualState`, which
EXTENDS `Messages` and `Failures`. `HealthManager` and `Heartbeating` meet in the actual state: to
`HealthManager` a heartbeat simply changes it, and `Heartbeating` shows how far that
is so.

`AnalyzePass` and `AnalyzerProcess` look at the same pass at two granularities.
`AnalyzePass` has the goroutines and no data, `AnalyzerProcess` has the data and
takes from `AnalyzePass` what it shows: that the analysis writes only with a
complete list, and that a pass that failed does not write later. Its one remnant
of the fetcher is *when* the app's page was read: any time while the analyzer
reads.

In `AnalyzerProcess`:

* an app is one version of one app. Messages of different apps never meet in a
  key; what apps share is the limit on starts, which is 1 in the instances, so
  that two indices of one app compete for it;
* `Send` is the verification of all messages (it depends only on `currentTime` and
  the snapshot), `PostStart`/`PostStop` the calls, one at a time, in the code's
  order: starts before stops, starts by `SendOn`;
* `Fault` is any error, and `MaxFaults` bounds them. A call that fails may have
  done part of its work: some keys of a save, or a message accepted whose answer is lost;
* `ProcessDies` is a crash, a timeout of `Component.Run` or a lost lock, at any
  point; the next process begins a pass at once. `PollLoop` has the loop itself;
* a crash count is kept for `CrashCountTTL`, twice the longest delay, from its last save.
  While a pass is between its two saves, the counts it has just saved do not expire, since its
  timeout comes long before; those of other indices may (`CountExpires`).

In `ListenerSender`:

* `ListenerHears` is what `syncHeartbeats` does with an instance that begins to
  evacuate; how the heartbeat got there is `Listener`. Instances that begin to evacuate
  in one batch are taken one at a time, each with a `Send` of its own;
* the start is not saved before it is sent, unlike the analyzer's and the evacuator's;
* `markedByListener` and `sentByListener` are the fields of the one `sender`, which
  only a restart (`ListenerDies`) empties. `ListenerKeeps` therefore writes old starts again:
  every mark ever made, several of them under one key, of which any may be the one that
  stays (`LastWritten`), since `SetMulti` writes in parallel.

In `PollLoop`, `Compaction` and `Shredding`:

* what ends a member of the ordered group ends those after it first, so the lock is
  released (`LockRunnerEnds`) only when `Run` has returned. `Run` does not wait for its
  action: with a timeout or a signal the goroutine goes on (`running`) until `os.Exit`;
* a timer is `age`, the time since the pass began, up to the greater of the two limits.
  An action takes less than the timeout unless it hangs (`GetsStuck`, a fault), and a
  hung action may still go on, at any time;
* a consul session expires when its process is gone, or, as a fault, while the process is
  cut off (`expired`); the process notices at its next select;
* `RunsOnce` is `hm9000 shred` without `-poll`, which takes no lock;
* `ListsEverything` and `ListsRoot` decide at once what the code decides recursively from
  the same listing: a directory goes if no key is below it (`Hollow`). The deletions follow
  one by one, children before parents. Deleting a directory takes what is in it by then.

In `ActualState`, `Listener` and `Heartbeating`:

* there is no clock: a key with a TTL is what is left of it, a timestamp that is
  compared with a limit is an age up to that limit (`Less`, `More`), and `Tick` moves
  all of them by a heartbeat period. A bump writes back the age of the old timestamp,
  which grows while the write is under way (`oldAge`);
* the `SetMulti` of a sync is one key at a time in any order (`SaveNode`), since
  readers see the keys appear; deletions are one step, of all keys or, on failure, some;
* the cache takes in a batch before it is saved, as in the code, so the two differ
  after a failed save until the cache is loaded again;
* a reader is the analyzer or the API server: it verifies freshness, lists, makes its
  cache of DEAs anew if that is old, deletes what it takes for expired. One read at a
  time per `RealStore`. A dump (`Dumpers`) is a reader that does not insist on freshness
  and whose `RealStore` is new each time;
* `MaxLate` bounds how many heartbeat periods pass while a process is at work or a heartbeat is
  due. `Prompt` is `MaxLate = 0`: every process is done before time goes on, as it
  is when a sync takes less than the heartbeat period; steps still interleave in every order between
  two ticks. With a greater bound a save may take too long for the freshness to be bumped
  (`actual_state_syncer.go:112`), and keys may expire in the middle of a sync or of a bump;
* `presentFor` is a history of how long the freshness key has been there without a
  gap, `steadyFor` of how many heartbeats in a row have reported an instance.

Abstracted away: the contents of messages that no decision reads (ids, guids of
apps), start priorities (they only break ties), metrics, logs, encodings. A stop
carries `IsDuplicate`; what the Cloud Controller does with it is not in this
repository, and acceptance is all the model says of it.

Operators named "Faulty variant" are not part of the model. Each is a bug the code
might plausibly have, used to see that the property it is paired with in
`PROJECT.json` (`mutants`) notices it.

## 3. The runs

| Run | Bounds | What it shows |
|---|---|---|
| `analyze_pass` | 3 pages | `WritesOnlyComplete`, `SendsOnlyAnalyzed`, `AbortedPassNeverWrites`; `PassReturns`, `GoroutinesEnd` and `ImplementsAbstractPass` (safety and the promise to end) under fairness. Three pages are one in the channel, one drained and one waiting. |
| `app_analyzer` | 3 instances (two at index 0, one at 1), every state of each, 0-2 desired instances, crash counts 0-2, any one stop and any starts queued | `ActsUnlessSettled`, `ServingSurvives`, `StopsComeLast`, `StopsStaggered`, `BackoffGrows`, over every such input. The decisions look at one index and at whether anything runs at another, so two indices suffice; the maximum delay (3) cuts off the doubling of 2. |
| `hm_faults` | 1 instance, 1 index, limit 1, one failure, one change, one exit, clock to 4 | `TypeOK`, `CrashCountCoversStarts`, `SentMarksAreTrue`, `AnalyzerKeepsItsOwn`, `StopsLive`, `StartsLive` with a failure or a crash at any step, and analyzer, evacuator and listener writing the same key. The last two are refinements: stops have the life of `MessageLife` throughout, starts until an instance evacuates. From then on the listener's sender may save an old start over a new one, and the evacuator saves without looking. |
| `hm_restarts` | 1 instance, 2 indices, limit 1, two changes, no failure, clock to 13 | `MissingIsStarted`, `KeepAliveHonoured`, `CountOutlivesStart`. 13 leaves room for a crashed start held back by the longest delay, its whole keep-alive, and another start; limit 1 makes the indices compete. |
| `hm_duplicates` | 2 instances of one index, prompt passes, clock to 9 | `FirstStopsLeaveOne`: of two duplicates of which neither was sent a stop before, one is left. The first stop is due after 4 grace periods, the second after 5. By 9 a second pair of stops can be due, the first time at which the condition on earlier stops matters. |
| `heartbeat_recovery` | 1 DEA, 1 instance, a dumper, TTLs of 2 heartbeats and a cache of 4, two failures, one silence, one late period, one change or dump | `TypeOK`, and `StoreRecovers` under fairness: after failed or half done saves, a failed save followed by a failed revocation (a stale state then stays fresh), a deletion by a dump, an expired DEA, a save that takes a heartbeat period so that the freshness is not bumped, or keys that expire during a sync or a bump, the store agrees with the DEA again. Two failures are what the second of these takes. A reader that verifies freshness first is left out: with one DEA, one failure and no late period (a run of its own) it never finds anything to delete, the DEA being present whenever the state is fresh. |
| `heartbeat_freshness` | 2 DEAs with an instance each, a reader, the default TTLs (3, 3, 6), one change, one restart, no failure, prompt | `FreshOnlyIfPresent`, `FreshIsComplete`, `PresentDeasAreKept` and `EvacuatedOnce`, while all DEAs keep beating: an instance is reported evacuating by every heartbeat, before and after a restart. |
| `shredding` | 2 processes, 7 keys (two of the current schema in directories of their own, an older and a newer version, no version, a lock, and a name that only begins like the locks'), interval and timeout of one tick, one key saved, one fault | `NoPassOverrun`, `OverlapOnlyOnExit`, `SparesWhatItSaw`, `TypeOK`, and under fairness `PassesGoOn`, `OverlapEnds`, `StoreGetsCompact`. Two directories under one root are what tells a wrong decision about siblings from a right one; the one fault is a hang, a death, a signal, a lost session, a run by hand or a failed request; two processes are what an overlap takes. |
| `fresh_not_complete`, `sender_limit` | 1 or 2 instances, default TTLs | violations, see below |
| `three_duplicates` | as `hm_duplicates` with 3 instances | a violation, see below |
| `evacuation_overridden` | 1 instance, 1 exit | a violation, see below |

The bounds are constants of the modules, named there: `MaxPages`, `MaxIndex`,
`MaxFaults`, `MaxExits`, `MaxTime`, `MaxReports`, `MaxCrashes`, `MaxChanges`,
`MaxSilences`, `MaxRestarts`, `MaxLate`, `MaxSaves`. Time is not bounded in `Heartbeating` and
`Shredding`: ages stop at their limits, so their runs cover behaviours of any length. `heartbeat_recovery` has
shorter TTLs than the default because liveness is checked on the whole graph; it
keeps their order (DEA and freshness TTL shorter than the cache's life), on which the
argument rests. `PromptPasses`
restricts a run to passes that begin on time and take no time; the timed
properties (`MissingIsStarted`, `FirstStopsLeaveOne`) are about such runs, since
nothing bounds the length of a pass but its timeout. `hm_faults`
uses it too, to keep the clock small: steps of the processes still interleave at
one instant.
`MissingIsStarted` is a bounded-response property: `RestartBound` is the longest
backoff, a grace period and three polling intervals.

Deadlock is checked in the `HealthManager` runs, where `TimeIsUp` lets a behaviour
stop only when the clock's bound is reached with all processes idle: a process
stuck in the middle of a pass would be reported. In the `Heartbeating` runs and in `shredding` it is
checked without exception. `AnalyzePass` and
`MCAppAnalyzer` are finite by nature. The pass ends when its goroutines have
ended, so its deadlock check is off, and `PassReturns` and `GoroutinesEnd` say that
it stops nowhere else.

### Fairness

`AnalyzePass`, `Heartbeating` and `Shredding` assume some. In `AnalyzePass`: weak fairness of each of
its three goroutines. The Go scheduler runs what can run, HTTP calls have a timeout, and `select` picks at
random among ready cases. Weak fairness of `Main` as a whole is enough, since each
of its receives empties a buffer.

In `Heartbeating`: weak fairness of the listener as a whole (its loop runs each
second, and every call returns or times out), of each DEA's heartbeats and return,
and of a read under way. Beginning a read is not fair: nobody need read. `Tick` is
strongly fair, because with `Prompt` it is disabled while a reader is at work, and
readers that read again and again within one instant would stop time; time passes
whatever they do. Failures, silences, restarts and late periods are bounded, so the premise "from
some time on nothing goes wrong" is part of every behaviour.

In `Shredding`: weak fairness, for each process, of being started again (by monit), of the
cases of its selects that stay ready, of its action while that is not stuck, of exiting and
of the expiry of the session of a process that is gone; of time; and of the lock being
taken by *some* process. That a particular process gets the lock is not assumed. Strong
fairness is assumed of `NoticesLoss` alone: the signal that the lock is lost stays in a
channel which each of the two selects listens to, but a process that goes round the loop
leaves the select between two of them. A stuck action, the other processes' writes and the
faults are not fair.

### What the violations say

* **`three_duplicates`**: the sender checks a stop against the analyzer's snapshot
  (`sender.go:356`), which does not change while it sends. After the first of three
  duplicates was stopped, the stops of the other two are a grace period apart, but
  with passes every 6 heartbeats and a grace period of 3 both are due in the same
  pass, and both are sent. `app_analyzer.go:122-125` relies on this not happening. Even two
  can go together if one was sent a stop earlier, say as an extra instance: while that
  message is kept there is no room for another, so its share of the new stops, due after 4
  grace periods, may be made one pass later than its sibling's, due after 5. TLC finds this
  when `hm_duplicates` checks `SenderLeavesOne`; `FirstStopsLeaveOne` is what remains true.
* **`evacuation_overridden`**: the analyzer does override a message
  (`README.md:259`) that the evacuator saved between the analyzer's read and save.
  `AnalyzerKeepsItsOwn` (`hm_faults`, and proved) says that this is all that is lost of
  the promise: nothing but the start of an evacuating instance is ever overridden.
* **`fresh_not_complete`**: an instance whose heartbeat could not be written is in the
  listener's cache all the same (`actual_state.go:86`), so it is not written again
  until the cache is reloaded after 6 heartbeats, while freshness, revoked by the
  failure, is back after 3. The analyzer may then start an instance that runs.
* **`sender_limit`**: the listener makes one sender (`start_listening_for_actual.go:35`)
  whose count is never reset, so the limit "per invocation" (`README.md:161`) is one per
  life of the process, after which evacuating instances are not started by it.

The properties of the passing runs mark further limits of what the code achieves:

* `FreshOnlyIfPresent` needs `Prompt`. A bump takes its timestamp, or reads the old one
  (`freshness.go:21`), before it writes, and writes an old one back whether or not the key is
  still there. If the key expires in between, the state goes from not fresh to fresh in one
  write.
* `StopsComeLast` is all that holds the stops of extra and duplicate instances back
  (`app_analyzer.go:52`): a start already queued counts as done. The first pass over an app with
  a missing index queues its start and stops nothing, as `analyzer_test.go:365-366`
  wants; the second finds that start in the store, adds none, and schedules the stops while
  the index is still missing.
* `PresentDeasAreKept` needs DEAs that keep beating. A read deletes the instances of a
  DEA that came back within the life of the reader's cache of DEAs
  (`actual_state.go:224`), although its presence is in the store.
* `PresentDeasAreKept` and `FreshIsComplete` are checked without dumps. A dump reads
  whether or not the state is fresh, so it may delete the first heartbeats of a new DEA,
  written before its presence. `StoreRecovers` holds with dumps.
* `KeepAliveHonoured` stops at the first evacuation. The evacuator and the listener ask no
  one before they send; the listener does not save before it sends, so its start and the
  analyzer's may both go out; and its sender saves old starts over newer ones.
* `OverlapOnlyOnExit` lists when two passes run at once: one of the processes has ended its
  group and not yet exited, was run by hand, or was cut off from consul. `OverlapEnds` says it
  does not last. A key saved after the shredder's listing may be deleted with the directory
  that looked empty; `SparesWhatItSaw` is about the keys in the listing.
* `handleExited` ignores the errors of its save and its send, so a start can be lost
  unsent; the instance is replaced when it is found missing, after a grace period.

## 4. What is proved

TLAPS proves, for every value of the constants that meets the named assumptions
(`MaxPagesAssumption`, `InstancesAssumption`, `DelaysAssumption`, `MaxCrashesAssumption`,
`MaxFaultsAssumption`, `SenderAssumption`, `MaxExitsAssumption`,
`PollingAssumption`, `HealthManagerAssumption`; `PollLoopAssumption`,
`CompactionAssumption`, `ShreddingAssumption`; `DeasAssumption`, `ListenerAssumption`,
`HeartbeatingAssumption`). Eight theorems need more, which they name as hypotheses; the
table after the list says what for and why it is so in the program.

* **`AnalyzePass_proofs`**: `TypeCorrect`, `CompleteBeforeWrite`, `SendAfterWrites`,
  `AbortIsFinal`. The four come from one inductive invariant, `IInv`. A property
  like `WritesOnlyComplete` is not inductive: that the analyzer leaves its range
  with everything analyzed needs to know which batch is where (the ones analyzed, the
  buffered one and the offered one make up `1..served`), that the flag is up
  exactly when the fetcher has left its loop well, and that the channel is closed
  only after that. `AbortIsFinal` needs that an aborted pass has either a failed
  fetch, so that the flag stays down, or an analyzer that has stopped.
* **`AnalyzePass_proofs.PassRefines`**: the safety part of `ImplementsAbstractPass`. Each
  step of a goroutine is a step of `AbstractPass` or a stutter under `Promise`; `IInv` is
  what makes a write find the list complete and main's end of a pass find all writes made,
  or one missing for good.
* **`MCAppAnalyzer_proofs`**, for any instances, indices, delays, queued messages and order of the
  heartbeats: `TypeCorrect`, `ActsWhenNeeded` (`ActsUnlessSettled`), `ServingGoesOn`
  (`ServingSurvives`), `RunningStopLast` (`StopsComeLast`), `StopsAreStaggered` (`StopsStaggered`) and `BackoffIsMonotone`
  (`BackoffGrows`). One analysis is one step, so `AnalyzedInv` says only that the output is
  that of some input, and the theorems are about operators. The lemmas on those are in
  `AppAnalyzer_proofs`, which `HealthManager_proofs` uses as well: when `NewStart` makes a
  start, which, when it is due (`StartReasons`, `NewStartTimes`), that the backoff is
  within its bounds (`DelayBound`), that an analysis only adds (`AnalysisAddsOnly`).
  `StopsStaggered` is a fact of counting: of two duplicates the later one in the order has
  one predecessor more, the other itself.
* **`HealthManager_proofs.TypeCorrect`**: all variables of the composition.
* **`HealthManager_proofs.MarksAreTrue`** (`SentMarksAreTrue`). The marks in the store
  are copies: of what the sender, the evacuator or the listener marked after a call was accepted, and
  of what the analyzer read earlier. `MarksInv` adds that those copies are true as
  well (`CopiedMarksAreTrue`) and that an analysis makes no marks
  (`AnalysisIsUnmarked`). The history of accepted calls only grows
  (`AcceptKeepsMarks`), so a mark once true stays true, which is what makes stale
  copies harmless here.
* **`HealthManager_proofs.CrashesAreCounted`** (`CrashCountCoversStarts`). `CountsInv` adds
  `CountsAreCurrent`: from the moment the analyzer has read the counts until its
  pass ends, its snapshot is what is stored, or, after the save, what it is about to
  count. So the count it saves is one more than the one that covered all earlier
  crashed starts. It needs that neither evacuator nor listener ever saves a crashed start.
  A count that expires takes its history with it (`TickCounts`). It is
  here that a second analyzer after a lost lock would break the argument.
* **`HealthManager_proofs.OverridesNotItsOwn`** (`AnalyzerKeepsItsOwn`). `OwnInv` says that a
  queued start that does not skip verification, and a queued stop, was there when the pass
  read the messages, from that read until the save (`OwnIsRead`): only the analyzer saves
  such messages, and all that the evacuator and the listener hold skip verification
  (`OthersSkip`). `AnalysisAddsOnly` says that an analysis adds nothing under a key it read
  a message for, so the save spares what it read.
* **`HealthManager_proofs.StopsRefineLife`** (`StopsLive`) and **`StartsRefineLife`** (`StartsLive`): each
  step of the three processes is a step of `MessageLife`, in which several keys may move at once, or a
  stutter. The processes write from copies, so a step is one only if the copy is still
  true. `LifeInv` says that it is: what a pass has read is what is stored until its own
  writes, and what it adds has a key that is free (`StopsAreRead`, `StartsAreRead`); what is
  to be sent is stored, unsent and due, and so is what has been marked but not yet
  saved; what is to be deleted is due or no longer kept. The sender works by one reading of
  the clock, which is in the past (`SenderIsFresh`). That a mark is the time of an
  accepted call is `MarksInv`, that an analysis adds only under free keys is
  `AnalysisAddsOnly`. A failed save or deletion goes through for some keys, hence the
  pointwise form (`StopsMoveOn`, `StartsMoveOn`). For starts all this holds
  while evacuator and listener have nothing to write (`OthersWriteNone`), which
  `NoneEvacuates` gives.
* **`Timing_proofs.StartsAreKeptApart`** (`KeepAliveHonoured`), for passes of any length that
  begin at any time. What holds a second start off is the copy of the first that is marked as
  sent, so `KeepAliveInv` follows that copy: until its keep-alive is over, the last
  start accepted is marked in the sender's map or in the store (`AcceptedIsHeld`), the analyzer
  works with what is stored (`ReadIsStored`), and the sender posts and deletes only where
  the keep-alive is over (`SenderIsCareful`). All of it needs that nobody else saves starts,
  hence the property stops at the first evacuation (`OthersAreQuiet`).
* **`Timing_proofs.CountsAreKept`** (`CountOutlivesStart`). The hard part is how long a start can
  wait, given that the limit holds starts back. `PaceInv` says that when a pass is over at most
  `SenderMessageLimit` starts are overdue and none was due before the pass before
  (`WaitsAreShort`); since the oldest go first (`OldestGoFirst`), the next pass sends all of
  those. This is where two passes must be able to send a start for every index.
  `TimelyInv` then says that a crashed start waits only while its count is kept until the
  longest delay after it is due (`WaitsAreCovered`), and that this is so for those sent
  (`CountsLast`).
* **`Timing_proofs.MissingAreStarted`** (`MissingIsStarted`), which is a response property proved as an
  invariant: `MissingInv` bounds the clock. The key of a missing index may be taken, by a
  start not yet sent or by one sent earlier. `Outcome` is what will be stored under
  the key when the sender has kept and deleted, `Passed` the last pass that has dealt with it;
  `Moves` says that no such start stays (it is due within the longest backoff, or its
  keep-alive runs out after `Passed`), `Hurries` that for an index not yet started the
  key is free, or holds a start due soon, within the longest backoff of the time it
  went missing. `MissingIsSeen` says that a pass that began later finds the index missing
  and has a start for it, so that `Send` does not drop it.
* **`Timing_proofs.OneIsLeftAtFirst`** (`FirstStopsLeaveOne`). `DuplicateInv` follows the stops of two
  siblings (instances of one index) that were never sent one. Between passes either a pass is
  still to come that finds the one due and the other not (`InTurn`), or only one has a stop and it is
  due at the next pass (`WaitApart`), so that a stop made for the other by then comes too late
  to go with it. After the analysis this may be the pass that stops the first, and two that are both
  due are no longer duplicates (`Decided`), so the sender's choice leaves one (`SparesOne`). That the
  pass decides by what is stored is `LifeInv`; that the stop of an instance that was
  never sent one is unsent is `MarksInv`; that an accepted stop bears the time of a pass is
  `AskedInTime`.
* **`Shredding_proofs`**, for any processes, intervals, keys and failures.
  `OnePassAtATime` (`NoPassOverrun`) and `LeaderRunsAlone` (`OverlapOnlyOnExit`) come from
  `LoopInv`: who is in the loop holds the lock or was cut off (`HasLock`), and an action runs
  only where one was begun and not ended (`MayRun`). Two that hold the lock are one.
  `SeenKeysStay` (`SparesWhatItSaw`) comes from `CompactInv`: what is to be deleted is a
  condemned first name, or a directory with no key of the listing below it, so no key
  of the listing is under a node that goes unless its first name is condemned. `TypeCorrect` adds the ages and the faults.
* **`Heartbeating_proofs.FreshnessIsPresence`** (`FreshOnlyIfPresent`), for any number of
  DEAs, instances, readers, failures and restarts and any TTLs, assuming `Prompt`, without
  which it is false. `FreshnessInv` says that the age
  in the key is at most the time the key has been there, and that an age read for a
  bump about to be written is also at most that. The second part is where `Prompt` is
  needed: the key cannot expire between the read and the write.
* **`Heartbeating_proofs.TypeCorrect`**. `TypeInv` adds to the types that what one invocation
  has posted is counted in the sender's total, which the limit bounds.
* **`Presence_proofs.PresentDeasStay`** (`PresentDeasAreKept`), for any DEAs, instances, readers and TTLs.
  `PresenceInv` has three parts: a DEA beats once a period and its heartbeat is in one
  batch (`OneAtATime`); a period that does not renew the presence of a DEA is one of the
  losses, so while those are few presence does not run out, and freshness cannot be
  older than presence (`PresenceLasts`); and a cache of DEAs that a deletion goes by has all
  that are present: a reader's because what is fresh is complete, the listener's because it
  makes its cache anew when it loads (`CachesAreComplete`).
* **`Presence_proofs.WhatIsFreshIsComplete`** (`FreshIsComplete`) and **`StartsReplaceOnce`**
  (`EvacuatedOnce`), while no call fails but restarts happen anywhere. `CalmInv` adds that the
  listener's cache is what is stored but for what it is saving (`CacheIsStored`), that a
  sync saves what it was told (`SyncSaves`), that an instance that is not stored has been reported
  once, and once more for each restart (`StoredInTime`), and that a start already posted
  is one whose evacuating state is stored or gone (`ReplacedOnce`).

| Hypothesis | What it says | Why it is needed, and what justifies it |
|---|---|---|
| `PowersOfTwo` (`BackoffIsMonotone`, `CountsAreKept`, `MissingAreStarted`) | `2^n` is a number and doubles with `n` | The provers know `^` only for numerals. It is arithmetic, not an assumption about the program. |
| `PassesKeepUp` (`CountsAreKept`, `MissingAreStarted`) | `PromptPasses`, and `MaxIndex < 2 * SenderMessageLimit` | Nothing bounds the wait of a start in passes that come late or cannot send what falls due. The default limit is 60, so up to 120 starts that compete. |
| `GraceIsShort` (`MissingAreStarted`) | a grace period and a polling interval are no longer than the longest backoff | `RestartBound` counts the longest backoff, not the keep-alive, as the time the key can be taken. By default 30 s and 60 s against 960 s (`config.go:102-122`). |
| `PassesSplitStops` (`OneIsLeftAtFirst`) | `PromptPasses`, no index with more than two instances, a grace period no longer than a polling interval, and a multiple of the polling interval that is at least 4 grace periods and less than 5 | With three duplicates it fails (`three_duplicates`), and so it does if no pass comes between the times the two stops are due. By default the second pass after the analysis comes after exactly 4 grace periods (2 * 60 s = 4 * 30 s, `config.go:102-113`). With a shorter polling interval more passes come in between; the proof does not cover that. |
| `Quiet` (`MissingAreStarted`) | nothing has failed, nothing was sent but by the analyzer | The listener's sender may put an old start back under the key. |
| `Prompt` (`FreshnessIsPresence`) | `MaxLate = 0`: every process is done before time goes on | Section 3 says how it fails without. A sync that takes less than a heartbeat period is prompt. |
| `KeepsPace` (`PresentDeasStay`) | `Prompt`, no silences, no dumps, `HeartbeatTTL > MaxLosses + 1`, `ActualFreshnessTTL > MaxLosses`, `CacheRefreshInterval > HeartbeatPeriod` | Section 3 says how the first three fail. A heartbeat is lost with a restart or a failure; a DEA that loses all of a TTL is not present. The last holds by default (6 to 1): the listener's cache of DEAs lives a heartbeat period, and when it loads its cache of heartbeats it must not find one of DEAs that is still alive and lacks a new DEA. |
| `NothingFails` (`WhatIsFreshIsComplete`, `StartsReplaceOnce`) | `KeepsPace` and `MaxFaults = 0` | With one failure `FreshIsComplete` is false (`fresh_not_complete`). |

The runs meet these: `hm_restarts` has two indices and a limit of 1, `hm_duplicates`
the default ratio of polling interval to grace period, `heartbeat_freshness` the default TTLs with
one restart.

`Losses` counts over the whole behaviour, so with the default TTLs `PresentDeasStay` is
about behaviours with one loss; two losses that are far apart would do no harm, but the
invariant does not tell them from two in a row.

The strengthenings were checked with TLC before they were proved.

Only model-checked:

* `PassReturns`, `GoroutinesEnd`, `StoreRecovers`, `PassesGoOn`, `OverlapEnds`,
  `StoreGetsCompact` and the liveness in `ImplementsAbstractPass`: liveness under fairness is
  beyond this prover.
* `MissingIsStarted` once an instance has been reported evacuating, which `hm_restarts` includes, and
  the two timed properties where more than two passes are needed to send what is due.

The safety properties of the other runs are all proved. No module declares a RECURSIVE operator.

## 5. What is not modelled

* The heartbeats' way into the store beside the analyzer: in `HealthManager` a heartbeat
  simply changes the stored state, and a state that is not fresh is a failing pass or `Send`.
* Two syncs at once (the mutex in `SyncHeartbeats` excludes them), two requests at once
  to the API server over one `RealStore`, and heartbeats in the store that cannot be
  parsed (the program writes none).
* Two analyzers at once after the lock was lost: `PollLoop` says when that can be, `Shredding`
  composes it with the shredder, whose passes are harmless to each other;
  `CrashCountCoversStarts` is about one analyzer.
* More than one app, and an app that is on two pages of one fetch.
* The API server's authentication and encoding, `dumpRaw` and what a dump prints, metrics,
  configuration, command line, encodings of the models: output, plumbing and wording, on
  which no decision rests. Fakes, fixtures and test helpers.
* Names of the store character by character: a name has a version or not.
* The NATS variant of the sender (`sender.go:135-161`): nothing calls it.
* Integer width: times and counts are far from overflow. The floating point of
  `ComputeCrashDelay` (`crash_delay.go:12-18`): the model doubles integers and cuts off where they pass the
  maximum, and does not check that the rounded logarithm finds the same place.

## 6. The plan

Done: all modules of section 2 and the proofs of section 4. What would add most, in this
order:

1. Two analyzers in `HealthManager`, as `OverlapOnlyOnExit` allows: which of its
   properties survive the overlap.
2. The actual state with freshness in `HealthManager`, for one DEA and one index: with
   `FreshIsComplete` as what the listener promises, an instance that is reported is not
   started.
3. More proofs: `MissingIsStarted` with evacuations, whose starts take the key for at most a
   keep-alive; `RestartBound` as a function of the limit; `PresentDeasStay` with
   losses counted within a TTL.
