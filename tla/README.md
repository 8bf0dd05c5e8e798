# buildbar in TLA+

Models, model-checking runs and proofs for the programs of this repository: the
command line tools `re-memoize` and `re-dispatch` (Rust, `src/cmd/`), the
completed-actions ingester and its Elasticsearch client, and the slow generic
runner (Go, `src/pkg/`, `src/cmd/bb_*`). File and line references are to the
sources.

Contents: 1 the system; 2 the modules and how they correspond to the code;
3 the runs; 4 bounds; 5 fairness; 6 proofs; 7 departures of the code from its
documentation; 8 what is not modelled; 9 the plan.

## 1. The system

The programs do not call each other. What ties them together is that they all
talk the Remote Execution API (REAPI) to servers outside this repository: a
Content Addressable Storage (CAS), an ActionCache, an Execution service, and a
scheduler that streams completed actions.

| Component | State it keeps | Operations | What makes it correct |
|---|---|---|---|
| `re-memoize run` (`run.rs`) | in a process: the result being assembled or replayed, the upload in progress; outside: CAS, ActionCache, the caller's directory | upload the key, look up, execute, capture outputs, upload, record; on a hit replay streams, files and directories | the cache never refers to what is not stored; an entry is one whole execution of the keyed action; a hit looks like the execution; what is recorded is not executed again |
| `re-memoize upload`, `download` (`upload.rs`, `download.rs`, `tree.rs`) | CAS; the frontier of a breadth-first download | build messages bottom-up, upload, fetch by levels or as one Tree, write files | what comes back is what went in, or an error that the CAS is to blame for |
| batching client (`client.rs`) | the batch being filled, the batches sent, what was missing or read | split a list of sized items; ask, send and read batch by batch | nothing lost or moved, no batch empty, too large or cut short; what a call reports is what happened to its blobs |
| `re-memoize digest --filter` (`tree.rs`) | nested maps | resolve each filter, insert it or refuse it, build the tree | accepted exactly when no two overlap, in any order; the tree is the selected part of the whole one |
| `re-dispatch serialize` (`serialize.rs`) | nested maps | walk a directory, check links, build the tree | no link leads out of the tree; the tree is the one re-memoize would build |
| `re-dispatch execute` (`execute.rs`) | a pool of at most `--jobs` futures, each with the place in the blob it writes or reads, a sticky failure flag | compose the inputs; per action: upload in chunks, execute, wait, read streams, report | every action reported once, nothing fails without a fault, reports and the exit code tell the truth, the pool does not starve |
| ingester (`ingester.go`, `converter.go`, `uploader.go`) | per stream: the action in hand; outside: the index and the client's queue | receive, flatten, put, acknowledge | anonymous acknowledgements stay aligned with the client's queue; no completed action is lost; the queue drains |
| Elasticsearch watchdog (`elasticsearch.go`) | failures in a row, time of the last noted success | probe, count, die | dies neither early nor late |
| command wrapper (`command_wrapper.go`) | a slice shared by all requests | append root, directory and arguments | each request runs its own command |
| `action-digest`, command lines, error formatting, the two check programs, readiness runner, JSON conversion | none | | not modelled, section 8 |

What is hard about them:

* *Concurrent invocations* of `re-memoize run` share a cache, and sometimes a
  directory, without locks. A look-up, the execution, each capture, each of the
  two RPCs of an upload, and the record are separate steps.
* *Partial failure*: batches that are stored in part, RPCs whose answer is lost
  although they took effect, processes that die, children that leave outputs out.
* *Servers that forget*, stop early or stop trusting: a CAS may drop blobs an
  ActionCache entry refers to, commit part of a write, send other bytes than the
  digest's, and refuse headers that have expired.
* *Unordered and repeated work*: index requests that take effect after their
  stream has ended, streams that are reopened, actions that end out of order.
* *Names*: one file can be named through links, `.`, `..` and trailing slashes,
  and what a name leads to is not what its text says.
* *Shared memory without synchronisation* in the command wrapper.
* *Limits*: message budgets, chunk sizes, `--jobs`, the watchdog's two thresholds.

`PROJECT.json` lists each of these hazards at the line where it bites, with the
properties that cover it.

## 2. Modules

`X.tla` is the model of a component, `MCX.tla` its small instances, `MCX*.cfg`
the configurations, `XProofs.tla` its theorems. `MemoRun` is the one component
whose properties have a module of their own. `ListOps` has what several models
compute of a list in one pass: the items that are in a set (`Selected`), and
lists put together (`Joined`).

Mutated forms of some definitions stand before them (their comment says
"Mutation"). They are plausible bugs, not part of the model: `PROJECT.json`
pairs each property with one that breaks it.

### Memo, MemoRun, MemoRunProperties

`MemoRun` has one process per invocation of `re-memoize run`; `pc[r]` names the
place in `run_cached` (`run.rs:137-195`) or `replay` (`run.rs:197-233`), and a
step ends where the code awaits an RPC or the child.

| Step | Code |
|---|---|
| `Start` | `build_action`, then `upload_if_missing` of Command and Action |
| `FindMissing`, `Push`, `PushPartly` | the two RPCs of `upload_if_missing` (`client.rs:66-128, 171-179`) |
| `LookupMiss`, `LookupHit` | `action_result` |
| `Execute` | `spawn_and_tee`; the child runs over whatever lies in its directory |
| `CaptureFile`, `CaptureDir`, `CaptureRefused` | one turn of the loops `run.rs:170-177`; the `?` that ends them |
| `Record`, `RecordUnanswered` | `update_action_result`, answered or not |
| `PrintStdout`, `PrintStderr` | `write_stream`: the stream is shown, or, if the answer leaves its digest out, silently not |
| `RestoreFiles` | `restore_output_files`, up to the first file it cannot restore |
| `MaterializeTree`, `MaterializeRefused`, `WriteTree`, `WriteRefused` | `download_tree`: first directories and links, then files |
| `BlobGone` | a download that meets a missing blob |
| `LeftOut` | a download whose answer leaves a digest out, where the code does notice: the files before it are written |
| `Fail` | an error or a signal at any point, for the invocations in `Unreliable` |
| `EvictBlob`, `EvictAction` | external: the servers drop what they may drop |

The server may leave digests out of its answers to the invocations in
`Omitting`. A stream that it has put into its answer to the look-up
(`stdout_raw`) needs no download; that is the branch of `PrintStdout` that shows
it, which asks nothing of the CAS. The third branch of `write_stream`, for a
result without the digest of a stream, is never taken: `run_cached` records both.

State outside the processes: `cas`, `ac` (the ActionCache), `disk` (what is at
each declared path of each working directory). `executed` and `published` are
history variables; no guard reads them. A digest is the value it digests. A
node on disk is absent, a file, a symbolic link (of which the code that restores
over it sees the content and the mode of its target) or a directory, which is
flat here: nesting is `TreeTransfer`'s subject.

`Memo` is the abstract specification: an invocation executes its command, or
recalls a whole result that another invocation of the same key executed and
offered, or gives up. There is no server, no blob and no disk in it.
`MemoRunProperties!Abstract` is the refinement mapping: a result is an
invocation's `own` once its child has ended, `memo` is what was ever recorded,
`answer` is known when the process ends.

### TreeTransfer

A directory is a function from paths to nodes. `Message` is `build_directory`
(`tree.rs:121-193`), a recursive function on the subdirectories; `FindMissing`,
`Push`, `PushPartly` upload, `FetchLevel` is one turn of `download_from_root`
(`download.rs:24-77`), `FetchTree` is `materialize` (`download.rs:213-266`),
`WriteFiles` sets contents and modes (`download.rs:134-160`). Modes are told
apart as the code does: executable for the owner, for others only, for nobody.

### Batching, BatchClient

`Batching` is `chunk_by_size` (`client.rs:253-275`): `Splits` is the call,
`TakeItem` one turn of its loop, `Return` what follows it. `BatchClient` extends
it by the calls that use it: `Split`, then one RPC per batch (`FindMissing`,
`Update`, `Read`), `Filter` between the two halves of `upload_if_missing`
(`client.rs:171-179`), and `Done`, where the caller looks the digests up in what
came back (`download.rs:34-45`) or, in `write_stream`, prints what there is
(`run.rs:359-379`). `RpcFails` is a call that fails, of which an update may have
been executed in part; statuses of single blobs fail inside `Update` and `Read`
(`check_blob_status`), and either answer may leave blobs out: an update counts
them as stored (`client.rs:122-125`). `Refused` is a message that is too large
for gRPC or for the server, larger than `Limit`. A message is what `size_of` has
counted and `Framing` bytes for each item, for the rest of its encoding. Between
any two steps other clients store blobs and the server drops some.

### PathTrie, FileSystem, LocalInput

`insert_filter` (`tree.rs:332-360`), `DirectoryComposer` (`execute.rs:254-393`)
and `DirectoryBuilder` (`serialize.rs:108-217`) build nested maps from a list of
paths. In `PathTrie` the maps are the set of paths with an entry and the set of
paths of groups; `Collides` is the test, by walking down from the root. What
differs is kept: a composer inserts files before trees, refuses odd components
and lets a tree stand for the whole root if it is alone; a serializer ensures
directories first, inserts links before files, and does not look on its way down.

`FileSystem` is the external file system: nodes by path, and `Lookup`, which
resolves a path as the kernel does, one component at a time (`Advance`): `..`
goes up, a link puts its target before what is left, and a walk that is not over
after `MaxSteps` components fails. `Canonicalize` and `NoFollow` are
`canonicalize` and `symlink_metadata`. `LocalInput` makes the lists from it and
builds the trees: `FilterEntry` is the resolution of a `--filter` (parent
resolved, name kept, `tree.rs:255-325`), `Filtered` the tree of `build_group`,
which reads a leaf through the filter *as it was typed* (a tree with a pipe or a
socket in it, which `build_directory` would try to read, is not `Readable`);
`WalkOrders` are the orders a walk of `serialize` may take, `WalkEntry` and
`MayStay` what it makes of an entry and its rule for links
(`serialize.rs:61-102, 219-258`), `Serialized` the directory it encodes.

### Dispatch

One record per argument of `re-dispatch execute`:

| Step | Code |
|---|---|
| `Connect` | the credential helper and the channel, once (`execute.rs:109-118`) |
| `Start` | `buffer_unordered` takes the next argument; the spec is read and composed |
| `WriteChunk` | one `WriteRequest` of `upload_blobs`, with its offset (`:535-575`); after the last one, `AfterCommit` is the check of `committed_size` |
| `AnswerEarly`, `StopEarly`, `UploadFails` | the server has the blob already; commits less; fails |
| `Execute`, `StreamEnds`, `CallRefused` | the call, a stream without a done operation, a call with expired headers |
| `Response` | the done operation: status, result, exit code (`:190-203`) |
| `ReadChunk`, `ReadDamaged`, `ReadEnds`, `ReadFails` | `read_blob`: chunks of any length, then size and hash (`:408-460`) |
| `Report`, `PrintFailure` | one turn of the loop in `run`; the `?` that ends it |
| `Finish` | the exit code |
| `Expire`, `Evict` | external |

Everything runs in one task and a report does not await, so it is one step. The
bytes of a blob are the numbers 1 to its size, so a chunk in the wrong place is
another content; `executed` and `harmed` (the arguments that met a fault) are
history variables.

### Ingester

`handler[s]` is the `LogCompletedActions` call of stream `s`: `Recv`,
`Flatten`, then `PutApplied` (indexed), `PutRefused` (a status below 500 becomes
`InvalidArgument`, which the ingester acknowledges) or `PutFails` (the call
returns and the stream ends), then `Ack`. Several calls coexist: one whose
stream broke goes on until it notices. The client is external and modelled from
how the ingester speaks of it: a queue, sent in order, whose head is dropped for
every acknowledgement and whose rest is sent again on the next stream. An index
request that was given up may still be executed later (`Land`).

`ActionLog` is the abstract specification: actions wait in the order in which
they completed, and only the first one leaves, once it is settled. There are no
streams and no acknowledgements in it. `ImplementsActionLog` maps the client's
queue to it.

### Watchdog

`DieWhenConnectionFails` with time in seconds: `ProbeFails` and `ProbeSucceeds`
are one turn of the loop with any of a set of latencies.

### CommandWrapper

`append(append(wrapper, root, dir), args...)` on a slice with `spare` unused
capacity that all calls share. Go strings are two words, and unsynchronised
accesses are modelled word by word.

## 3. Runs

| Run | Question and answer |
|---|---|
| `memo_shared` | Two invocations of one action race in one directory that a third cleans; one may fail or die at any step; the CAS drops a content and the ActionCache entries. `ReferentialIntegrity`, `HitsResolve` and what they rest on (`TypeOK`, `OwedOrPending`) hold. |
| `memo_separate` | Two invocations race in directories of their own, a third follows in the first one's; the server leaves digests out of its answers to one of them. `OneExecution`: an entry is one execution, whole. `HitLooksExecuted`: a hit that ends well leaves what was recorded in place and shows each stream, whole or, where digests are left out, not at all. `ImplementsMemo`: refinement of `Memo`. |
| `memo_sequence` | A script runs a command twice in one directory over leftovers, while a third invocation uses `--no-cache`; no faults. `ClearHitsSucceed`: a hit that finds nothing in the way of its outputs when it begins does not fail over leftovers or over what it restored itself. `Memoized`, and `ImplementsMemoLive`: everyone gets an answer. |
| `memo_twins` (violation) | `HitSucceeds` fails: section 7. |
| `memo_kinds` (violation) | `HitHasDeclaredOutputs` fails: section 7. |
| `tree_transfer` | `RoundTrip`: what comes back is what went in; `FailsOnlyIfForgotten`; for both ways of downloading, under evictions and partial uploads. |
| `batching` | `NothingMoved`, `WellCut` for the batches; `StoredOnSuccess`, `ReadOnSuccess`, `FailsForABlob` for the calls made of them, for all lists within the bounds, with answers that leave blobs out, lost RPCs and messages refused for their size. |
| `path_trie` | `AcceptedIffDisjoint`, `HoldsWhatWasGiven` for all lists within the bounds and for those that come from file systems; `FiltersSelect`: filters select a part of the whole tree, however they are spelled; `SerializedIsHermetic`: links lead to the same place wherever the tree is put, unless they leave the root on their way; `ToolsAgree`: both tools build one tree. |
| `dispatch` | `NothingMissing`, `ReportsTell`, `FailsOnlyByFault`, `ExitTells`, and `Ends`: the process ends. |
| `ingester` | `Aligned`, `AcksAreEarned`, `NothingLost`; `EveryActionSettles`: the client's queue drains; `ImplementsActionLog`: refinement of `ActionLog`. |
| `watchdog` | `KilledOnlyWhenDown`, `DiesInTime` for every pattern of probes. |
| `wrapper_race` (violation) | `OwnArguments` fails: section 7. |

`OneExecution` and `ImplementsMemo` need invocations that share a directory to
run one after the other. In one directory at the same time two invocations do
mix their outputs (the second child overwrites what the first is capturing);
nothing in the documentation promises otherwise, so it is a precondition and not
a finding. `ReferentialIntegrity` does not need it, and `memo_shared` checks it
with such a race.

Each property has a mutation that breaks it. Three of them are not slips one would
make in this code but broken data structures or libraries: that of
`HoldsWhatWasGiven` (`GroupsOfParent`, nested maps that forget a level), of
`TypeOK` in `Dispatch` (`AdvancedNot`, a stream that yields one argument again and
again) and of `Ends` (`InFlightForever`, a buffer of futures that does not let go
of one that has ended). The mutation of `ImplementsMemoLive` breaks its safety
half.

`MemoRun` states the end of all invocations as a step (`Terminated`), so
deadlock is checked there. In the other modules a behaviour ends when the
program does.

## 4. Bounds

* `MemoRun`: three invocations, two contents, two names in a directory, one
  output file and one directory. Two invocations are what a race needs; the third
  undoes the outputs or follows. Two contents let two results differ and share
  blobs. At most one invocation is unreliable and its faults may come anywhere;
  the other two see every effect of it. Evictions are unbounded in number. One
  invocation of `memo_separate` is in `Omitting`, and any of its answers may leave
  any of its digests out. In `memo_sequence` every invocation is reliable, so that
  `ClearHitsSucceed` is about all of them.
* `TreeTransfer`: every directory of two levels over two names with files of two
  modes, links and empty directories, and those of three and four levels that
  repeat a subdirectory, since equal subdirectories share a digest.
* `BatchClient`: lists of up to four blobs (`MaxLength`) of 0, 9, 10 and 30
  bytes, with repetitions, against a budget of 20 with hashes of one byte: two
  digests fill a question nearly, two small blobs fill a message exactly, a
  medium one exceeds it, the large one does so alone. One fault (`MaxFaults`)
  anywhere, one blob the server may drop; every initial content of the CAS. The
  encoding adds one byte to an item (`Framing`), and a message may have 24
  (`Limit`): the large blob is refused, a full batch is not.
* `PathTrie`: lists of two paths up to length three, of three paths up to length
  two, and lists with odd components. A collision involves two paths; a third
  one shows the effect of order.
* `LocalInput`: a root with a file, a link and a directory with one more entry,
  and a sibling of the root to escape to. Links take eleven targets: siblings,
  `.`, themselves, nothing, a directory, through a directory and back, out of the
  root, out and in again, through a file, absolute. Filters are all paths of
  three components and all pairs of nine spellings, below three roots. `MaxSteps`
  is 24: more components than any of these walks looks up, unless it is in a loop.
* `Dispatch`: four specs (composed with a repeated directory, mounted, empty
  root, unusable), two at a time, chunks of two bytes and blobs of 0, 2, 3 and 4,
  so that a blob ends before, at and after a boundary; four answers whose streams
  are inline, by digest, empty or absent; two faults (`MaxFaults`) anywhere; the
  mounted tree may be dropped; stdout may fail.
* `Ingester`: two actions, one of which may be refused, two faults (`MaxFaults`:
  broken streams and failed puts), hence three streams.
* `Watchdog`: the code's constants, probes of 0, 3 or 25 seconds, 150 seconds
  (`Horizon`), more than twice the time it takes to die.

## 5. Fairness

* `MemoRun`: weak fairness of each invocation's `Step`. An invocation is one
  task that moves on whenever the RPC or the child it awaits returns; that these
  return is assumed. Faults and evictions are not assumed to happen.
* `Dispatch`: weak fairness of `Connect`, `Start`, `Finish`, each action's steps
  (`RunOne`) and its report: the executor polls what it was woken for, servers
  answer or fail. The disjunction of a job's steps is fair, not each of its
  outcomes.
* `BatchClient`, `PathTrie`, `TreeTransfer` and `Watchdog` have no liveness
  property and assume no fairness.
* `Ingester`: weak fairness of the client's connecting, sending and listening
  and of each handler. No fairness among `PutApplied`, `PutRefused` and
  `PutFails`: a put that keeps failing is limited by `MaxFaults` only, which is
  what "once the faults are over" means. Index requests that were given up need
  never be executed.

## 6. Proofs

All theorems hold for every value of the constants that satisfies the named
assumptions of the module; TLC evaluates these assumptions in the module's runs.

### MemoRunProofs

For any sets of invocations, contents, names,
paths and any options, behaviours, faults and evictions:

| Theorem | Statement |
|---|---|
| `TypeCorrect` | `Spec => []TypeOK` |
| `CacheIsReferentiallyIntact` | `Spec => []ReferentialIntegrity` |
| `NothingOwedIsForgotten` | `Spec => []OwedOrPending` |
| `HitsAlwaysResolve` | `Spec => []HitsResolve` |

Assumptions: those named in `MemoRun` (`OptsAssumption`,
`BehavioursAssumption`, `NodesAssumption`, `NothingAssumption`), which say that
options and behaviours have their types and that `Nothing` is no content and no
result. TLC evaluates them in every `memo_*` run.

Argument:

1. `TypeInv == TypeOK /\ LoopsInBounds` is inductive; `LoopsInBounds` is a lemma
   of the proof, about the model's positions in the code's `for` loops, and says
   nothing of the code by itself. The two need each other:
   that an output to be captured, or a directory to be replayed, is one of the
   declared or recorded ones (`LoopsInBounds`) is what gives the appended entry
   its type, and the lengths only make sense for a result of the right type. One
   lemma per action (`StartTypes` ... `EvictTypes`).
2. `RefInv == TypeInv /\ ReferentialIntegrity /\ OwedOrPending` is inductive.
   `ReferentialIntegrity` alone is not: when an invocation records its result,
   nothing in it says that the blobs are stored. `OwedOrPending` carries this
   through the run: at every point, the blobs of what was captured so far are
   stored or part of the upload in progress. Captures extend what is owed by
   exactly what they upload (`FileRefsExtend`, `DirRefsExtend`), a push stores
   what was reported missing, and blobs reported present stay, since only
   `EvictableBlobs` may leave the CAS.
3. `HitsResolve` follows: a hit owes what it looked up, nothing is pending while
   it replays, and each download asks for a part of it.

The second half of the module proves that memoization is sound, under `Separate`:

| Theorem | Statement |
|---|---|
| `EntriesAreOneExecution` | `Separate` implies `Spec => []OneExecution` |
| `RunImplementsMemo` | `Separate` implies `Spec => ImplementsMemo` |
| `HitsLookExecuted` | `Separate` implies `Spec => HitLooksExecuted` |
| `ClearHitsDoSucceed` | `Separate` implies `Spec => ClearHitsSucceed` |

`Separate` says that of two invocations with one working directory, one starts
after the other has ended. Without it they are false, as section 3 says:
the second child overwrites what the first one's tool is capturing. The code
does nothing to enforce it; build scripts that run their steps in sequence, or in
directories of their own, fulfil it. Invocations in different directories are
not ordered, and share the cache as they like.

`MemoInv` is `TypeInv` and, for each invocation:

* `InTurn`: once it has started, those before it have ended. This is what
  `Separate` becomes in a state: nobody else is at work in its directory.
* `InStage`: what has been executed at which point, and who may look up or record.
* `Undisturbed`: between the child's end and its own, the directory is as the
  child left it. This is where `InTurn` is needed.
* `Assembled`: the result so far is what the child left at the outputs whose turn
  has come, and all of it when the loops have ended. `OneExecution` does not see
  half a result, so it is not inductive without this part.
* `Recalled`: what is replayed was recorded for this action.

and of the servers `Entries` (an entry was recorded, under its key) and `Origins`
(whatever was recorded is the whole result of one execution of its command).
Steps of others are dealt with once (`OthersKept`), the own ones by one lemma each
(`ExecuteSound`, `CaptureFileSound`, ...).

The refinement is a step simulation: `Execute` is the execution of `Memo`, the
end of an upload or of a record is its answer, `LookupHit` with all its replay is
one recall, which is allowed because of `Recalled`, and the rest stutters.

`HitsLookExecuted` is an action property with an invariant of its own, `HitInv`:
while a hit is replayed, the streams printed, the files restored and the
directories written so far are what the result says (`HitSoFar`). A stream that
was not printed, because the answer left its digest out, was not printed at all:
an invocation has shown nothing before it replays (`SilentSoFar`). A later output
does not undo an earlier one because a result that one execution left behind has
one thing at each path (`Coherent`, which `Origins` gives).

`ClearHitsDoSucceed` follows a hit from its first step to its end, and shows that
nothing comes into its way: `Unhindered` says of each point of the replay that
the directories still to be restored will take what is restored to them, that the
blobs still wanted are there (`WantedIsThere`, from `OwedOrPending`), and, until
the files are written, that no directory is in the place of one. Writing the files
does not disturb the directories, nor restoring one directory the next, since
they lie at different paths (`AllRestorable`, `OtherDirectories`). The theorem is
about hits that begin `ClearHit`; section 7 has those that do not.

### IngesterProofs

For any set of actions, any number of streams and faults: `TypeCorrect`,
`AcknowledgementsAreAligned` (`Aligned`), `AcknowledgementsAreEarned`
(`AcksAreEarned`), `NoActionIsLost` (`NothingLost`) and
`IngesterImplementsActionLog` (`Spec => ImplementsActionLog`).

`IInv` is their conjunction strengthened by `Untouched` (streams not opened yet
are empty), `Documented` (a handler past flattening has a document), `Known`
(whatever is in a queue, an inbox, a handler or under way has completed) and
`InStep`: position by position, the open stream's inbox is the part of the
client's queue that follows what was acknowledged and what the handler holds.
`InStep` says what `Aligned` says, in a form that a step changes at one position;
`Aligned` follows by extensionality of sequences. One lemma per action, with the
frame conditions shared (`InStepFrame`, `EarnedFrame`, `HandlerFrame`). The
refinement is a step simulation: `ReceiveAck` is `Drop` because the head of the
queue is settled (`AcksAreEarned`), a put or a late request is `Settle` because
its action has completed (`Known`), the rest stutters or is `Complete`.

### DispatchProofs

For any specs, blobs and their sizes, chunk size, number of jobs, answers, faults
and evictions: `TypeCorrect`, `NothingIsMissing` (`NothingMissing`),
`ReportsTellTheTruth` (`ReportsTell`), `FailuresHaveACause` (`FailsOnlyByFault`),
`TheExitCodeTells` (`ExitTells`).

`IInv` says of each job that its record is one of `Places` and fits the rest of
the state (`Fit`): while blob *n* is written, the blobs before it are stored or
evictable and what the server has got is the first `offset` bytes; while a stream
is read, one execution has succeeded, nobody executed it twice, and what was read
whole is what was produced, unless the argument was harmed. Cutting and joining
are the lemmas `Joined` and `FirstN`. `OneReport` says that reports and reported
jobs correspond one to one, which gives `ExitTells` its `Len(reports) =
Len(Spec)`; `EndsRight` ties the exit code to the reports.

### WatchdogProofs

For any latencies and limits with `MaxDown <= (MaxRetries + 1) * SleepSeconds`
(`LimitsAssumption`; the code has 60, 5 and 10): `TypeCorrect`,
`NeverKilledEarly` (`KilledOnlyWhenDown`), `AlwaysDiesInTime` (`DiesInTime`). The
invariant `Counted` relates the counters to time: each failure in a row is
followed by a sleep, so the failures alone account for the downtime, although
the clock of the code starts at an older success. Without `LimitsAssumption`,
`KilledOnlyWhenDown` is false.

### ListProofs

What the models compute of a list is a function on its prefixes, defined by
recursion. `RecursionUpTo` says that such a function exists, and `CountingUp` is
the induction up to a bound that everything else uses, both from the least member
of a set of naturals (`LeastMember`). Of `Selected` they give that the items keep
their order and come from places of their own in the list (`SelectedPlaces`), and
which items there are (`SelectedItems`); of `Joined`, what appending a list does
(`JoinedAppend`) and whose items it has (`JoinedItems`). Cutting a list in two and
putting the parts together again (`CutInTwo`, `JoinTwice`) is what the proofs about
paths are made of.

### BatchingProofs

For lists of any length, blobs of any size, any budget of a message, any faults
and evictions: `TypeCorrect`, `BatchingMovesNothing` (`NothingMoved`),
`BatchesAreWellCut` (`WellCut`), `UploadsStoreEverything` (`StoredOnSuccess`),
`DownloadsReadEverything` (`ReadOnSuccess`), `FailuresAreAboutABlob`
(`FailsForABlob`). They need no assumption beyond those of `Batching` and
`BatchClient` on the types of the constants, but for the last one, which assumes
`Room`: whatever the budget admits has a message within `Limit`, encoding
included. The code does not see to that; with the default budget it is false of a
gRPC with the default limit (section 7), and so is `FailsForABlob`.

`BatchInv` strengthens the properties of `chunk_by_size` by `Filling`: the batch
being filled starts with the item that did not fit into the last one, which is
what makes that one full when the next is closed; and once the call has returned,
nothing is left to do. `Total` of a batch, a sum over a list, is a recursion like
the others (`TotalAppend`).

`ClientInv` adds what the calls know: which blobs the batches are made of
(`ForThisCall`), what the answers up to batch `sent` have established
(`Answered`: a blob asked about is missing, stored or may be dropped; a blob sent
is stored, was left out or may be dropped; a digest read has its content, or was
left out), and
what an end without an error means (`Ended`). `BatchesHold` ties the two halves
together: after the last batch, all blobs of the list were in one. With `Room`,
a message that is refused has a single item that exceeds the budget by itself
(`RefusedAlone`, from `WellCut`).

### PathTrieProofs

For lists of any length, paths of any depth and any order:
`AcceptedWheneverDisjoint` (`AcceptedIffDisjoint`) and `HoldsNothingElse`
(`HoldsWhatWasGiven`) for filters and specs, and `SoundForEveryList`, both of them
for every list that `Suits` the tool, which includes the walks of `serialize`.
`NamesAssumption` (the component "." is odd, names are not) is needed: a tree
mounted at "." would else be an entry like others.

For any file system, with files, links, pipes and directories of any depth, and
any calls: `SoundOnEveryFileSystem` (both of the above for what the tools make of
the file system), `FilteredTreeIsPartOfWhole` (`FiltersSelect`),
`SerializedTreeIsHermetic` (`SerializedIsHermetic`), `BothToolsAgree`
(`ToolsAgree`). `CallsAssumption` says what a call is: a file system in which what
exists lies in directories up to the root (`IsFileSystem`), and a directory there
to walk or to run in. For a walk that is what `canonicalize` and `is_dir` have
established (`serialize.rs:53-59`); the root and the filters of a digest may be
any paths. The bound `MaxSteps` may be any number.

`TrieInv` says that some number *n* of the work list is done (`Progress`): the
entries and the groups are exactly what its first *n* leave (`EntriesOf`,
`GroupsOf`), these are usable and, but for a walk, pairwise apart (`Apart`); or
the one tree that stands for the root is mounted. Colliding with what the first
*n* leave is the same as being a prefix of, or having as a prefix, one of them
(`WhatCollides`, from `AboveIsPrefix`), so that an insertion extends `Apart` and a
refusal shows two paths that are not disjoint (`RefusedIsNotFine`). A composer
and a serializer work through the list in another order than it was given in:
that this is a permutation (`OrderPermutes`, from `SelectedPlaces` for the two
halves) and that being disjoint does not depend on the order (`PermutedIsFine`)
takes the result back to the list that was given.

`LocalInv` is `TrieInv` and where the list came from: a walk of the root in one of
its orders, or the filters of a call. Nothing else is needed, since the tools read
the file system and do not change it; the work is in what they read.

* A walk names each entry once, after the directory it is in (`WalkSuits`,
  `WalkedTree`), so that it suits the trie. A resolved filter has no odd component
  (`FilterSuits`), because `Lookup` stands at a path that exists or has
  failed (`LookupIsWalk`, an invariant on its steps) and ends at no link
  (`CanonicalIsNoLink`).
* `FiltersSelect`: the place a filter was given (its parent, resolved, and its
  name) is the place it is read from (`FilterNamesIt`), whatever `.` and slashes
  it was typed with, unless a slash lets it follow a link. That is shown by cutting
  its walk in two: the walk of its parent is a part of it (`AheadStep`,
  `FirstPart`), and dots at the end move nothing (`DotsStay`). What is read below
  it is then what `build_directory` finds there (`FilteredValue`), and a group is a
  directory of the whole tree (`GroupsAreDirectories`).
* `SerializedIsHermetic`: while the walk of a link's target stays below the root,
  the walk of the stored target in the materialized tree mirrors it. One step of
  the original is one step of the image, at the place that `Image` gives, or
  none when a `.` was dropped (`MirroredStep`); `MirroredWalk` is the induction and
  `HermeticLink` its end. The links that the walk meets were stored by the same
  rule and are relative (`MirrorOfTree`). That the walk stays below the root is a
  hypothesis and not a lemma: section 7.

### TreeTransferProofs

For any set of directories without endless paths (`DirectoriesAssumption`; a
directory of a file system has none), of any depth and with any number of equal
subdirectories, and whatever the CAS drops: `TypeCorrect` (`TypeOK`), `ComesBack`
(`RoundTrip`), `FailsForDropped` (`FailsOnlyIfForgotten`).

`Inv` describes a walk by the level *n* it has come to (`WalkedTo`): the
directories above it are on disk with their links, their files are to be written,
and those at it come next; a walk of the Tree jumps to the level below the last.
What a level adds is read from messages, so that the lemmas `NextLevel`,
`LevelShown` and `NextTargets` first look each entry up in the message of its
directory (`EntryNode`). That a directory has messages at all, and only one each,
is shown from the deepest ones upwards (`SomeMessages`, `OnlyMessages`); that an
empty level ends the walk, and that the Tree's children are found down to the
deepest one, from the root downwards (`NothingBelow`, `ReachedIsAll`). All four
use `CountingUp`. What is written at the end has the shape of the source
(`WrittenIsAlike`), differing only in permission bits that no message carries, and
so has its messages (`SameMessages`). `InvStored` says that what was uploaded is
stored unless the CAS may drop it, and `WantedWasSent` that a walk asks for
nothing else.

### Only model-checked

* Liveness: `Ends`, `EveryActionSettles`, `Memoized` and `ImplementsMemoLive`.
  Fairness and ENABLED are beyond the provers used.

## 7. Departures of the code from its documentation

Checked as violations:

* **Two output files with one content** (`memo_twins`): `restore_output_files`
  takes contents out of the map it downloaded (`run.rs:338-345`), so the second
  file with a digest finds none and the hit fails, each time.
* **Files and directories in one key** (`memo_kinds`): `build_action` merges
  both kinds of outputs into one list (`run.rs:95-113`); an invocation with
  `--output-dir f` replays what one with `--output-file f` recorded.
* **A shared slice** (`wrapper_race`): with spare capacity in the configured
  command, two concurrent requests write their input roots to one array
  (`command_wrapper.go:30`), and one may run with the other's.

Met while modelling and described by the model's definitions, without a run of
their own:

* A link is created without looking whether one is there (`download.rs:259`), so
  a hit on an output directory with a link fails where the directory still is, as
  after the run that recorded it (`MaterializeRefused`). Files are overwritten.
* `write_stream` prints nothing and succeeds when an answer leaves the digest out
  (`PrintStdout`, `run.rs:372`), against "a cache hit looks the same to the
  caller" (`run.rs:197-199`). Files and directories fail in this case
  (`LeftOut`).
* A child that fails and leaves an output out makes the tool exit with 1
  (`CaptureRefused`), not with the child's code, against `run.rs:133-136`.
* An output that the command did not produce is an error only if nothing lies at
  its path (`CaptureFile`, `run.rs:290-307`); otherwise what is there is recorded as
  its result, and every hit brings it back.
* Entries that were in an output directory before a hit stay there
  (`WithEntries`); `main.rs:73-77` says "restored verbatim".
* The command line is part of the key (`CommandOf`), against the re-memoize
  README, which says a changed command is likely treated as a hit.
* `lastSuccess` is not refreshed by a success that follows a success
  (`Watchdog!ProbeSucceeds`), so the downtime that is logged is too long. The
  decision to die is right nevertheless (`KilledOnlyWhenDown`), because the
  number of failures bounds the time too.
* A filter that ends in a slash follows a link at its end and gives a directory
  under the link's name (`LocalInput!Follows`), against `tree.rs:296-299`.
* A link in a serialized directory may leave the root and come back by the root's
  name, `../root/x` (`Leaves`): it is accepted, and leads nowhere where the
  root is called something else. `serialize.rs` means to refuse links whose
  "target escapes input root". (From "/", which `SerializedIsHermetic` leaves
  aside, `..` leads nowhere else and so no link leaves it, but every `..` too many
  does once the tree is put elsewhere.)
* `re-memoize` takes a file for executable by `0o100`, `re-dispatch serialize` by
  any of `0o111`, so one directory can have two root digests (the precondition
  of `ToolsAgree`).
* An update answer that leaves an item out counts as success (`Update`,
  `client.rs:122-125`), so that `StoredOnSuccess` excepts what was left out.
* The budget is not one of requests: `size_of` counts data and hashes
  (`client.rs:105-107, 135-139`), not the size, the tags and the lengths that
  encode each item, so that a full batch makes a larger message (`Message`). With
  the default budget of 4 MiB, which `client.rs:16-18` takes from gRPC's default
  limit, it may be refused. `client.rs:236-240` says that the budget "already
  bounds request size regardless of how many items make it up".
* A blob larger than a message is sent alone and refused (`Refused`);
  `client.rs:233-235` leaves streaming "out of scope for v1".
* Downloads of `re-memoize` are not compared with their digest, unlike those of
  `re-dispatch`. Not modelled.
* Output of `re-memoize run` may be cut: tokio's stdout is not flushed before
  `process::exit` (`run.rs:374`). Not modelled.
* A put that failed for the ingester may have been executed and is repeated;
  `uploader.go:65` assumes that documents are uploaded once.

## 8. Not modelled

* `action-digest`, command lines, TLS, logging, error wording (`error.rs`), JSON
  layout, configuration messages: no state to speak of.
* `run_check.rs`, `roundtrip_check.rs`: test programs that drive the tool; they
  were read for what they expect of it.
* The readiness runner: two calls in sequence, no state.
* A directory changing while it is walked: a walk is one step. Both tools ask
  their caller to keep it still (`serialize.rs:64-65`).
* A child that goes on writing after the tool that started it was killed
  (`run.rs:405-408`): the death of an invocation is the death of its child.
* The error return of `ingester.go:66-69`: `FlattenCompletedAction` always returns
  a nil error, so that `Flatten` does not have it.
* Servers that break the REAPI, beyond what `MemoRun` and `BatchClient` (digests
  left out of an answer) and `Dispatch` (short commits, damaged reads) have.
* The credential helper and the opening of the channel are one step that may
  fail (`Dispatch!Connect`).

## 9. Plan

Written, in this order: `MemoRun` with `Memo` (the tool's core and the most
concurrent part), its proofs, `Ingester`, `Dispatch`, `CommandWrapper`,
`Watchdog`, `Batching`, `PathTrie`, `TreeTransfer`; then `ActionLog`, the chunks,
damage and expiry of `Dispatch`, `BatchClient`, `FileSystem` and `LocalInput`;
the proofs of `Watchdog`, `Ingester` and `Dispatch`, and that memoization is
sound; `ListOps` with its lemmas, and the proofs of `Batching`, `BatchClient`,
`PathTrie` and `TreeTransfer`; last, the walk of a path as a recursive function in
`FileSystem`, and with it the proofs about `LocalInput`.

To come: the child that outlives its tool, in `MemoRun`.
