# TLA+ models of YesSteveModel-Native

YesSteveModel-Native is the C++ library a Minecraft mod loads through the JNI. It bakes a
model's bones and cubes into a layout made for SIMD, extracts the pose of every visible bone
each frame, renders the bones into vertex buffers on a pool of threads, decodes and normalizes
sounds, opens archives of models and imports the models of an older, encrypted format. This directory models the parts of
it that have state, interleavings, streams or limits, checks them with TLC, and proves the
theorems listed below with TLAPS. Source paths are relative to `src/modules/`.

## 1. The system

| Component | Code | State | Operations | Model |
|---|---|---|---|---|
| ParallelExecutor | `gfx/src/renderer/parallel_executor.{h,cc}` | `task_seq_`, `next_seq_`, `running_workers_`, `workers_available_`, the plain pointer `currentTask_`, threads | constructor, BeginActiveScope, EndActiveScope, Execute, Worker, destructor | `ParallelExecutor`, `ForkJoin` |
| RenderSchedule | `gfx/src/renderer/schedule.cc`, `gfx/include/gfx/renderer/schedule.h` | tasks, groups, bone owners, vertex count, mode | Update | `Schedule`, `TaskRange` |
| Render, RenderState | `gfx/src/renderer/render*.{cc,inc}`, `buffer/translucent.h` | bone states and ready flags per thread, the caller's buffer, the translucent proxy and its depths | Render, Update, Wait, Sort | `RenderFrame` |
| ModelState | `gfx/src/renderer/model_state_impl.inc`, `gfx/src/math/pose_stack_impl.inc`, `lib-jni/src/render/` | visible bones, schedule, validity, pose stack, Java's arrays | Run, nExtract, nInvalidate, nRender | `ModelState` |
| Bake and bake cache | `gfx/src/bake/` | the baked model | BakeModel, SerializeBakedModel, ReadBakedModel | `BakedModel` |
| Opus streams | `codec/src/codec/{opus,mini_ogg}.cc`, `lib-jni/src/sound/opus_decoder.cc` | staged page, staged packet, decoder, PCM, counters, failure; the gate restores may be paused at | Feed, EndInput, Decode, CaptureCheckpoint, restore; pause and resume of restores | `OpusStream`, `RestoreGate`, `OpusDecoder` |
| The loops that consume one | `codec/src/codec/audio.cc` 1511-1574, `docs/infrastructure/opus_cn.md` | chunk, position of the loop | ValidateComplete | `OpusConsumer` |
| Audio normalization | `codec/src/codec/{audio,ogg_muxer}.cc`, `lib-jni/src/sound/audio_normalizer.cc` | inspected timeline, planned pages, resampler and encoder backlog, cancellation | NormalizeAudio and its JNI entry | `AudioNormalizer` |
| Legacy envelope | `legacy/src/v3/codec/` | cipher chunk, zstd input and output, plaintext buffer | Initialize, ReadExact, Finish | `LegacyEnvelope` |
| Legacy import | `legacy/src/v3.cc`, `legacy/src/v3/{container,conversion}/`, `codec/src/codec/image*`, `lib-jni/src/legacy/` | decoded model, projected tree and payloads, status, result | read version, decode, prepare images, project, canonicalize, validate, deliver | `LegacyImport`, `LegacyBodies`, `LegacyImages`; with the envelope `LegacyFile` |
| Archives and bundles | `core/src/hierarchy/`, `codec/src/codec/{zip,7z,zlib}.cc`, `legacy/src/bundle.cc`, `lib-jni/src/archive/archive.cc` | the tree of paths, the collapsed root, the decoded folders of a 7z, the buffer lent to Java | nCreate, nList, nGetFile | `Archive`; with the import `ModelFile` |
| Thread policy | `core/src/thread_scheduling*` | the OS scheduling state of the calling thread, the report | ApplyCurrentThreadPolicy | `ThreadPolicy` |
| Runtime and topology | `lib-jni/src/runtime/native_runtime.cc`, `core/src/{cpu_topology,device_quality}.cc`, `gfx/src/renderer/parallel_executor.{h,cc}` (size and creation of the pool) | the configuration of the library, the pool | nInitialize, nPhysicalCoreCount, nClassifyDevice, nApplyThreadPolicy, ParallelExecutor::Get | `NativeRuntime` |
| Not modelled | JNI wrappers and entry registry, handles, accessors, buffers, math, vertex formats, compression, image codecs, log, files | | | see `PROJECT.json` and section 6 |

How they interact. Java calls `nExtract`; `Run` walks the baked bones, fills the list of visible
bones and calls `RenderSchedule::Update`; validity is published to Java only when the arrays could
be filled. `nRender` compares Java's vertex count with the state's, then `Render` opens an active
scope on the executor and runs one fork/join: every worker first updates its share of the bone
states (the owners of the schedule), publishes a ready flag, then draws its share of the tasks and
waits for the flag of the owner of any bone it draws. Sounds go file → `NormalizeAudio` (which
validates its own output by driving an `OpusAudioStream` with `ValidateComplete`) → Java, which
later plays them through its own `OpusAudioStream`. A model's file is an archive, whose files Java lists and
reads by path, or a legacy file of version 3, which goes through `ContainerReader` → decoder (which draws its
plaintext from the reader as it goes, and probes, scales and encodes the images) → projector → `ResultOwner`,
whose answer is either a result, a failure result, or a Java exception. How many threads the executor has, and to which
CPUs they are bound, comes from the topology the thread that first renders finds. Nothing is persisted except the bake cache and the normalized file;
checkpoints of an Opus stream live in memory.

What is hard, and for each part what makes it correct:

* *Executor*: a futex-like wait on 32-bit sequence numbers with an ABA between scopes, a plain
  pointer read by workers, one notification that ends a call. Correct: no data race on the pointer,
  no call through a dead task, no lost wake-up, every index runs exactly once per call before
  Execute returns, the destructor returns.
* *Schedule*: one split of n items over the workers computed in three places; reused objects;
  32-bit limits. Correct: all three agree, the vertex ranges tile the buffer.
* *Render*: ready flags and bone states outlive the frame; workers wait for one another; one of
  several fails. Correct: no stale bone is drawn, nobody waits for ever, what Java is told does
  not depend on who was faster.
* *ModelState*: a list overwritten in place with errors in the middle, thread-local leftovers, two
  owners of the truth. Correct: valid exactly when published, and then the schedule is the list's.
* *Bake*: cycles, shared quad groups, two layouts written by three loops, files checked field by
  field. Correct: a preorder of the hierarchy, every quad once, a cache reads back, and what is read
  is a hierarchy.
* *Opus streams*: input cut anywhere, exceptions in the middle, checkpoints in the middle, damaged
  files. Correct: what is heard is a prefix of the sound and all of it at end of file.
* *Restore gate*: a pause requested for the next restore, a resume that may come before that restore has locked the
  gate, and other restores in between. Correct: a restore that pauses stays until it is released, and is released.
* *Normalization*: repaging, trimming, rounding, cancellation. Correct: the timeline survives.
* *Envelope*: three nested streams whose boundaries do not coincide. Correct: accepted means whole.
* *Import*: budgets, duplicates, version gates, references across collections, images
  near a size limit. Correct: the outcome is right, what is refused is refused for its own reason, every
  reference resolves, and the bodies say what the source said.
* *Archives*: paths that conflict, folders of a 7z that are decoded once and kept, one buffer extracted into again and
  again. Correct: what is listed is what is kept, and what a request is answered with are the bytes of that file.
* *Topology*: facts read one by one, any of which may be missing or contradict another, about CPUs of which the thread
  may use only some. Correct: cores are counted or the count is refused; where there are more
  than two cores the pool, with the thread that renders, leaves one free, and where there are not it has a single worker.
* *Thread policy*: five calls that fail independently and one that has to be undone. Correct: the
  report is true and the host's own settings stay.

## 2. Modules, configurations, composition

The modules were written in this order, the most concurrent first.

1. `ForkJoin` (abstract) and `ParallelExecutor`, which implements it; `ParallelExecutorProofs`.
2. `TaskRange` (the split) and `Schedule`, which uses it; `TaskRangeProofs`, `ScheduleProofs`.
3. `RenderFrame`, on the contracts of 1 and 2; `RenderFrameProofs`.
4. `ModelState`, on the contract of the schedule; `ModelStateProofs`.
5. `OpusStream`, `OpusSamples` (its files) and `OpusConsumer`, which extends it with its drivers; `RestoreGate`, the threads
   that restore, with `RestoreGateProofs`; `OpusDecoder`, the entries Java has, which composes the two.
6. `AudioNormalizer`.
7. `LegacyEnvelope`; `LegacyBodies` and `LegacyImages`, two modules of operators, and `LegacyImport`, which extends both;
   `LegacyFile`, which composes the envelope with the import as v3.cc does: the decoder pulls its plaintext through the reader.
8. `Archive` and its `ArchiveSamples`; `ModelFile`, which composes it with `LegacyFile`: whatever file Java meets.
9. `BakedModel`, which makes what `ModelState` traverses and `Schedule` splits; `BakedModelProofs`.
10. `ThreadPolicy`; `NativeRuntime`, which extends it with the other entries of the runtime and with the machine underneath;
    `NativeRuntimeProofs`, about both.

Every `MC<module>.tla` gives the constants their values; `ParallelExecutor` has numeric constants
only and is run directly. `map` in `PROJECT.json` names, for every definition, the lines it stands
for. Conventions: names are the source's; an operator marked `mutant` is a plausible mistake in the
definition below it, used by the mutation runs and by nothing else; properties close each module.

### ParallelExecutor
A step is one access to shared state: an atomic load or store, a notification, a read or write of
`currentTask`. `pc` and `v` are the program counter and the register of each thread, `caller` is the
owner of the pool. `spin` chooses between the two builds and is fixed initially: `std::atomic::wait`
with spinning workers, or the `YSM_EXECUTOR_NO_SPIN` build. Waits are modelled with the value waited on and
a notification that wakes who sleeps, so a notification before the sleep is lost, as in the code.
`ForkJoin` promises: a call publishes to everyone, everyone does its share once, then the call ends.

### Schedule, RenderFrame
`Schedule.Update` is one action per phase with the error path of each; the old contents of the object
stay where the code leaves them. In `RenderFrame` a worker's step is one bone updated, one flag
published, one wait polled or one task drawn; bone states and flags carry the frame that wrote them,
so that a stale read is visible; the translucent proxy is sorted by `Place`.

### ModelState
`Run` is the traversal bone by bone with every exit, then the schedule update; the publication to the
two Java arrays, either of which can fail, is part of the extraction; an invalidation or a render may
come between. A pose is represented by the bones it was composed of, which tells a leftover of the
pose stack from the right pose.

### BakedModel
`EnterRoot`, `EnterChild` and `LeaveBone` are the loop of `BuildBoneHierarchy` over its stack, `EndHierarchy` its last check. Roots and
children are taken in the order of the source, so a list of those still to visit is a set that is taken from by the least.
`AddBone` is `ModelBaker::AddBone` with everything below it: a cube's quads are parted by type (`CutoutPart`, `TranslucentPart`), and each part goes
to the last group of its kind if that is the bone's and has room, and else to a new one (`AddCube`). `Finish` lays out the caches and
sums kind by kind; `Serialize` writes the file bone by bone, and `ReadBakedModel` reads it with the reader's own loops and checks.
Files that no baker wrote are read as well.

### OpusStream, OpusConsumer
A page is two units of input, so that it can be cut; a packet may go on over pages; a sample is named
by the packets decoded so far and its place in the last. `Feed` and `Step` are the loop of `Feed` page by
page and packet by packet; every step that allocates may throw. Java calls anything between (`mode =
"free"`), or one of two loops drives the stream: `ValidateComplete`, or the documented one.

### RestoreGate, OpusDecoder
`RestoreGate` has one step per lock of the gate's mutex and per wait and notification of its condition variable, with wake-ups
that nobody sent; the count of restores and the requests to fail and to pause are the atomics beside it.
`OpusDecoder` is all entries together: one stream driven by Java or by a consumption loop, or threads that restore streams from a
checkpoint already taken and meet at the gate. The two share nothing but the immutable checkpoint, so the state spaces are explored
side by side and not multiplied.

### AudioNormalizer
A file is its packets, frames, granules, start and trim, its output gain and its comments. The comments are
kept, canonicalized or refused by `ParseOpusTags`, and R128 gains among them are folded into the gain as the code
does. Inspection, the creation of the codecs, repaging (`Segments`, page limits,
255-lacing), resampling with held-back frames, encoding, muxing and validation are steps, each of which can
fail or be cancelled; the JNI entry chooses between a result, a failure and an exception.

### LegacyEnvelope, LegacyBodies, LegacyImages, LegacyImport, LegacyFile
The envelope is salt, chunks and a zstd frame of blocks; `ReadExact` alternates between the caller's
destination and the plaintext buffer.

`LegacyImport` is the way from the plaintext to what Java holds, one action per section decoded, per target
projected, and for the result and its delivery. The shared entry budget, the duplicates and the version gates are those of
each section; an allocation may fail at any step (`OutOfMemory`), and `status` is the reason a refusal is delivered with
(`FailureCode`). `LegacyBodies` is what reading and projecting geometry, animations, controllers and settings charge, refuse
and produce: index maps for positions and texture coordinates, programs, key frames, the naming of wheel entries and
buttons. `LegacyImages` follows one image from the fields the section stores over the probe of its bytes to the format and size
of the target, for each role and for desktop and Android, which scale and encode differently.

The properties compare with statements that do not follow the code: `RightOutcome` says which documents can be represented
(`KnownVersion`, `WithinLimits`, `WellFormed`, `TargetHolds`) and which code each of the others deserves;
`ReferencesResolve` that each id in the result leads to the payload, image format and size it is meant for; `BodiesKept` that a
body read back from the target is the source's.

In `LegacyFile` a read of the decoder is a read of the envelope. A damaged envelope ends the decoding wherever it is noticed; after
the last section the reader's `Finish` decides whether the file was whole, and only then the conversion begins.

### Archive, ModelFile
An archive is the sequence of its entries as the library underneath visits them, a path is a sequence of names. `Emplace` is
`Tree::emplace` with its rule for conflicts, `Collapses` the single directory at the root that is skipped. A folder of a 7z is absent,
whole, undecoded or empty in the cache; a decoding or an allocation may fail at each request and leaves the cache as the code does.
The buffer of `nGetFile` keeps its size and bytes between requests, since `GrowOutput` starts from them. `ModelFile` lets Java try the
archive first and import what it refuses; the order is Java's own, which is not in this repository.

`ListsWhatIsKept` says of each path, by a definition over the whole list of entries, whether it is offered; `AnswersAreTrue` that an
answer is the file's bytes, unless the same folder failed before (that case is the run `archive_retry`).

### ThreadPolicy
A step is one call of the operating system, which fails, succeeds, or is accepted without effect. The
three platforms are one request with platform-specific tables (`Target`, `ToBeSet`, `SetTo`); Windows adds
background mode and its rollback. The priority of a thread in background mode is the system's choice.

### NativeRuntime
A machine is described twice: as it is (cores, classes of CPUs) and as the files of Linux tell of it. `DetectCpuTopology` and
`QueryPhysicalCores` are what the code makes of the latter, for the CPUs of the calling thread and for the device. `CreatePool` is the
first use of `ParallelExecutor::Get`: the size asked for is a number of threads that includes the caller's, `DetermineThreadCount` holds
it to 2 to 8, and one thread fewer is started (`Started`). A topology that asks for 0 threads still gets one worker, bound like any. Every query may fail, and a worker may fail to be bound. On the machines of `Familiar` the steps of
`ThreadPolicy` are interleaved with these entries.

## 3. The runs

| Run | Instance | Properties |
|---|---|---|
| `executor` | 3 requested threads (2 workers), 2 calls, both builds | `TypeOK`, `TaskPointerRaceFree`, `TaskObjectAlive`, `NoLostWakeup`, `IsForkJoin` (refinement), `ExecuteReturns`, `DestroyReturns`, `IdleWorkersSleep` |
| `schedule` | 3 models, 4 lists of bones (empty, full, partial, with a bone that does not exist), 1-4 workers, 2 updates | `TasksTileTheFrame`, `OwnersMatchUpdate`, `FailsOnlyAtLimits` |
| `render_frame` | 2 workers, 2 bones, groups crossed with tasks, endless frames | `DrawsFreshBones`, `SuccessIsComplete`, `OutcomeIsDeterministic`, `FarToNear`, `RenderReturns` |
| `model_state` | a body of 4 bones and a pair, 11 attribute arrays | `ScheduleIsFresh`, `ValidWhenPublished`, `DrawsTheModel` |
| `baked_model` | all hierarchies of 3 bones, larger trees, 2 widths, some 5,000 cache files | `HierarchyIsPreorder`, `EveryQuadOnce`, `CacheReadIsExact` |
| `opus_stream` | 2 good and 9 damaged files, all cuts, buffers of 0, 1 and 9 frames; 3 threads at the gate, 4 restores | `HeardIsTheSound`, `EofMeansComplete`, `GoodStreamsAccepted`, `Answered`, `PauseHolds`, `ResumeReleases` |
| `audio_normalizer` | 30 files, 8 page limits | `TimelineKept`, `PlainSourcesKept` |
| `model_file` | some 480 archives; some 5,000 documents of 11 versions and some of unknown ones; 3 of them in intact and damaged envelopes around 8 zstd frames, all cuts | `AcceptedIsWhole`, `RightOutcome`, `ReferencesResolve`, `BodiesKept`, `ListsWhatIsKept`, `AnswersAreTrue` |
| `native_runtime` | some 30,000 machines, of up to 22 CPUs; every thread on one machine of each of 5 platforms, all policies, all failures | `OutcomeIsTrue`, `HostPolicyKept`, `CoresAreCounted`, `PoolFits` |
| `opus_documented_loop` | violation | `GoodStreamsAccepted` |
| `audio_retained_doc` | violation | `SupportedOpusRetained` |
| `archive_retry` | violation | `GivesWhatIsStored` |

Each property is stated in words above its definition. The three runs that end in a violation show where a
document or an assertion and the code part; see section 7.

### Bounds, and why they are enough
* `executor`: two workers are the least for which one can be the last to finish while another is late; two
  calls are the least for a worker to be one call behind. The proofs carry the safety properties to every
  pool size and every number of calls.
* `schedule`: `MaxUint32` is 63, so that single tasks, kinds and totals reach the limit separately;
  `kMaxWorkerReadyWorkers` is 3 and four workers exceed it, `kBonesPerReadyWorker` is 1. Remainders, more
  workers than items and equal shares all occur. Two updates cover reuse.
* `render_frame`: with the groups crossed, each worker draws the bone the other updates, the only dependency
  there is between workers. Frames do not end, so anything left from a frame meets the next; frame numbers
  are compared for "this one or earlier" only, which keeps the space finite.
* `model_state`: 8 bone and 3 model attribute arrays are the code's; subtrees, whole models and an
  empty list occur; `MaxVertices` 11 lets a model be too large.
* `baked_model`: `MaxBones` is 4 instead of 65,536 so that the limit is exceeded; three bones contain every
  kind of cycle, forest and forward reference, and the widths are the two the code instantiates.
* `opus_stream`: a sound of three to four packets has a packet over two pages, a trimmed end, a skipped
  start; the damaged files lack, repeat, reorder or corrupt a page. Capacity 0, 1 and 9 are none, less and more
  than any packet. `PreSkip` 1 falls inside a packet. At the gate, three threads are one that pauses, one that
  takes a pause meanwhile, and one that passes; with four restores one of them comes back.
* `audio_normalizer`: page limits of 1, 4, 5, 7, 8, 9, 12 and 13 straddle every threshold of the files' packet
  sizes, the 255-lacing one (scaled) included.
* `model_file`: of an envelope, chunks, buffers and reads of at most 2 or 3 bytes: every boundary meets every other. Of archives, three
  entries with names out of seven, among them a name, the same name as a directory, a file below it, the root and an
  empty name: every kind of conflict in every order. The documents have every pair of entries of every section, in each version that reads it differently
  (1, 3, 5, 9, 11, 18, 19, 21, 26, 27, 32). `EntryLimit` 37, `PayloadLimit` 19, `BoneLimit` 3, `CubeFaceLimit` 2 and `EnumLimit` 3
  stand for the code's much larger limits and are met and exceeded by the documents made for it; the descriptor's limit
  is the code's own 16 MiB, which names of sounds (`NameSize`) fill to the byte, exceed by one, and exceed together; the fallback names of wheel
  entries are exercised up to ten. The limits of images are the code's own (4096 pixels a side, 66 MiB, boxes of 260×450, 320×320,
  192×192 and 156×270, lossless up to 96×96 pixels), with sizes below, at and above each.
* `native_runtime`: up to four fast cores of one or two CPUs, four slow and two slower ones, and five choices of the CPUs a thread may use: every
  kind of machine the code tells apart, from machines whose topology asks for no thread at all to those
  (of 8 to 15 fast cores, `Large`) where the count reaches the limit of 8 threads and is cut to it; three
  CPUs whose files say anything about themselves and a fourth that does not exist contain every contradiction between two or
  three files. Five Windows priorities (above normal, normal, below normal, lowest, idle), five nice values and
  four QoS classes lie below, at and above every target.

### Fairness
`executor` and `render_frame` assume weak fairness of each thread's steps: the operating system runs a
thread that can run, and `std::atomic::wait` returns after a notification. Beginning a call or destroying the pool
is the owner's decision and not fair. `opus_stream` assumes weak fairness of the loop that is consuming a stream: it is one
thread with nothing to wait for. Nothing makes Java call again, so `Answered` speaks of the loops only. `Schedule`, `ModelState`,
`OpusStream` and `LegacyEnvelope` state the weak fairness of an operation in progress, which no property of the runs needs. `OpusDecoder` adds
that of each thread that is restoring and of the notification a resume has begun: a restore waits for nothing but the gate, a thread
that waits there goes on only when it was notified (it may, but need not, wake up by itself), and Java's resume is not fair. No strong
fairness is used. Deadlock checking is off only where the system may stop: the bound on updates is reached, a file is
converted or imported, a loop has its answer.

## 4. What is proved

`ParallelExecutorProofs`, for every pool of two to eight threads (the code's limits), both builds and any
number of calls. An invariant such as "the pointer is not raced" is not inductive: it depends on how far behind a worker
can be. The invariant that is, `IInv`, adds
* `SeqInv`: how `task_seq_`, `next_seq_` and the caller's position relate;
* `PointerInv`: the pointer is set exactly between two positions of the caller;
* `WorkerInv`: where each worker may be given the sequence number it has seen - at most one call behind;
* `CountInv`: `running_workers_` is the number of workers that owe a share of the current call. This is what makes the
  single notification sound: the count reaches zero once per call, when nobody is left who could touch the task;
* `CallerInv` and `NoLostWakeup`.

`Invariance` proves `IInv`, one step per action. From it follow `TypeCorrect`, `PointerRaceFree`, `TaskAlive`,
`WakeupsKept`, and `ForkJoinRefined`: every step of the executor is a step of `ForkJoin` or a stutter, under the mapping of
`phase` and `done`.

`ModelStateProofs`, for every model, every list of bones and every limit, assumes of the baked model that its
hierarchy is a preorder with subtree ends (`BonesAssumption`, `PreorderAssumption`), which `ModelsAreTraversable` of `BakedModelProofs`
proves of everything the code bakes or reads. `IInv` is `ListOK` (the list is overwritten from the front and never ahead
of the traversal) ∧ `ScheduleOK` (a valid state's schedule is the one of its model and list) ∧ `ValidWhenPublished`.
Theorems: `FreshSchedule` (`ScheduleIsFresh`) and `ValidityPublished` (`ValidWhenPublished`).

The third theorem of the module is `ModelDrawn` (`DrawsTheModel`), from the same assumptions. The property says what an extraction yields
without mentioning its loop: a bone is reached if every ancestor within the extracted bones is shown and shows its children, and its
pose is composed of its ancestors and itself. `Traced` adds to `IInv`
* `SeenUpTo`: the bones before the next one, whether visited or jumped over, are listed, located and posed. That a jump misses nothing is
  `NextBone`: what it skips lies under a closed bone, and the bone it lands on is reached;
* `StackFits`: for each ancestor of the next bone the stack of poses holds the ancestor's pose at the ancestor's level. What lies above, from
  another branch, from a bone that was pruned half way or from a call that broke off, does not matter: a bone of a preorder has its
  parent exactly one level up (`Parent`, by the least distance to a shallower bone), so the cut to the bone's own level leaves its parent's pose on top;
* `FinishedOK`, `JavaOK`: what was found stays as it is until both arrays are filled, and Java's counts are those of the kept list.

The drawn count is the list's own because of `ScheduleIsFresh` and `ValidWhenPublished`, which come from `IInv`.

The last part of `NativeRuntimeProofs` is about `ThreadPolicy`, for every set of priorities the system may find a thread with or give it. `OutcomeIsTrue` and
`HostPolicyKept` speak of finished requests; `IInv` adds `PhaseOK`, which says for every call the code may be about to make how far the
thread has moved from where the first query found it: not at all (`Untouched`), into a background mode this very request began and can
undo (`Owned`), or by at most one move of the priority and one of the scheduler (`Moved`), and how many steps were reported. Theorems:
`OutcomeTrue`, `HostKept`. `PolicyAssumption` asks that the report holds six steps; the code's holds eight.

`NativeRuntimeProofs`, for every machine with finitely many CPUs and at most two threads a core, whatever its files say and whichever CPUs
the thread may use. Both properties follow from one answer or one pool at a time; the arguments are about the data:
* `CoresCounted` (`CoresAreCounted`): what the checks of `QueryPhysicalCores` amount to. No list is compared with another as such, only
  with the one entered under the same leader (`GroupIs`, `IdentityLeader`); the rest is counting. The members of all groups are mapped onto
  the CPUs, and as they are as many, no CPU is a member twice (`OneLeader`); the identities are mapped onto the leaders, and as they are as
  many, no leader has two (`OneIdentity`). So the lists are a partition whose parts the identities name (`CheckedTells`), and the
  number given is the number of its parts (`CheckedCount`).
* `WorkersFit` (`PoolFits`): the keys of the CPUs are no more than their cores (`KeysCount`), the CPUs no more than twice as many
  (`TwoThreads`), and every branch of `CalculateDesktopThreadCount` that asks for a thread asks for fewer than the cores the workers may run on
  (`ThreadsFit`). `PoolSized` carries this through the limits of 2 and 8: the number of threads is 2 on one or two cores, and from 2 to
  one less than the cores on more. On a single core, also of a machine with one fast core, the worker shares it with the renderer; the
  theorem says so for every topology.

`MachinesAssumption` speaks of the device and not of the code: at most two threads a core, as on the x86 and ARM machines the library is built for,
and Linux files that describe a partition do not give two CPUs of one physical core to different parts. Files that contradict each other
are among the machines: `CoresCounted` says that they are never counted from, `WorkersFit` does not speak of them.

`TaskRangeProofs`, for every number of items and of workers: `RangesCover` and `RangesAreDisjoint` (the ranges that
`DetermineTaskRange` hands out are a partition), from the lemmas that `Split` starts at 0, ends at n and never falls.

`ScheduleProofs`, for every set of models, lists of visible bones, numbers of workers and limits. The properties speak of an update
that has returned; while it runs, none of them is true. `IInv` says where each loop of `Update` is:
* `Counted`: the bones before `render_index` are there, and the counts are theirs;
* `Ready`, `Placed`: from `Prepare` on the counts are complete, there is a slot for every worker, and the loops are within the bones and groups;
* `Slots`: for each of the four kinds, how many groups its cursor has taken (`Reached`), that the cursor stands in the range
  this number falls into (`CursorFits`), that the slots behind it hold exactly their ranges and the vertices of these
  (`SlotsFilled`), or, once the kind is finished, that every slot is in its place in the buffer (`LaidOut`);
* `Offsets`, `Outcome`: the running totals, and what a returned update has decided;
* `Owners`: the bones placed so far are owned by the worker whose range they are in, and nobody owns the others.

`CursorFits` is why the guards of `Append` never trip: a cursor whose slot is full has a next slot whenever a group is left, since the
last range ends at the last group. Slots that an earlier update filled do not matter because a slot is emptied when the cursor
reaches it, and `Finish` empties those it did not reach. Theorems: `TasksTile`, `OwnersAgree`, `OnlyLimitsFail`, `TypeCorrect`.

`RenderFrameProofs`, for two to eight workers (the code's limits), any number of bones, groups and quads, every mode and any number of frames. `IInv` says what each worker
has done by the place it has reached (the bones of its share, its flag, its result, how far its partitions are
written) and what the caller may conclude once all are back. `FreshBonesDrawn` rests on flags that go up only after the
worker's whole share is computed, `OutcomeDecidedByInput` on each worker's result being the merge over the bones it has met,
`FramesComplete` on the ranges covering every quad, `DrawnFarToNear` on the keys being of this frame.

`BakedModelProofs`, for every set of geometry models (any number of bones, cubes and quads), every option and width, and every cache
file of whatever numbers. A file may hold anything that deserializes; nothing is assumed of it but its types (`FilesAssumption`).
* *The hierarchy.* `Preorder` speaks of ancestors, which neither the baker nor the reader computes. `PreorderIsNested` says that it is the same
  as a condition on each bone and those behind it (`Nested`). `WalkInv` is what the traversal keeps of it: bones that were left have their
  whole subtree behind them (`LeftIsWhole`), those still open hold everything behind them (`OpenIsLast`), what was taken from a list
  of children was visited (`TakenIsVisited`), and brothers were taken in order. Theorem: `HierarchyBuilt` (`HierarchyIsPreorder`); that a
  model is refused only for a cycle is `UnlistedHasCycle`: each bone that was not listed has a parent that was not, and a finite
  set in which everyone has a parent has one among its own ancestors. `HierarchyCheckIsExact` is the same for the reader, whose single pass
  keeps a path of open bones and sees no ancestors: `FitsUpTo` says what a path without objection tells of the bones so far.
* *The groups.* `Adds` is what adding a cube does in either of its cases, the last group filled or a new one opened. `KindFits` keeps the groups and index lists of
  a kind in step: every group has its bone, a legal number of cubes and its place in the bone's ascending list. `HoldsExactly` says of the
  quads added so far that each is in one cube of one group, of its bone and kind (`InPlace`), and that nothing else is anywhere; cubes of
  different bones are different (`CubesAreDisjoint`). Theorem: `QuadsBakedOnce` (`EveryQuadOnce`).
* *The caches.* `HeldOfModel`: a span finds its own piece of a flattened sequence, kind by kind or bone by bone, since both orders go
  through all pairs once (`KindMajorIsSlots`, `BoneMajorIsSlots`) and a piece starts where the lengths before it end (`PiecesOfFlat`).
* *The file.* `CacheIsExact` (`CacheReadIsExact`) combines the three: a file is accepted exactly when it is well formed, a bake is always well
  formed for its own width, and what is read from it is found through other offsets and is the same. `ModelsAreTraversable` follows for
  bakes and files alike.

`RestoreGateProofs`, for any number of threads and restores: `RestoresHeld` (`PauseHolds`). The invariant follows the request: from
`nPauseNextRestore` to the next `nResumeRestore` the gate is closed, whether the request still lies there or a thread has taken
it (`ClosedWhileAsked`), and who has taken it stands before the gate or in it (`OwedIsHeld`).

Sums and lists of groups are recursive functions, and what they compute is proved for every argument, without the library's induction
theorems (whose operator parameters the provers do not instantiate): the lemma `SetInduction` says that a set of numbers that has 0, and with n also
n + 1, has all of them - the least number it lacked would contradict it - and each such fact is an instance for the set of
the numbers it holds for.

Assumptions on constants are named (`...Assumption`), in the module that declares the constants, and TLC
evaluates each of them. Those of `Schedule` are what its caller gives it: the list of bones comes from `Extract`, which visits
each bone once (no duplicates); the number of workers is between 1 and 65,536, for anything else `Update` returns its error before
it touches the schedule; and the quads of one bone fit a 32-bit count of vertices. `GroupsAssumption` of `RenderFrame` types
the groups of a frame: each has its bone and its numbers of quads. `SourcesAssumption` of `BakedModel` types the geometry models; a cube that
`ValidateCube` lets pass has at most six faces, and `ProcessCube` looks for inside-out cubes only among those with six (baked_model.cc:554).

## 5. Only model-checked

* Liveness: `ExecuteReturns`, `DestroyReturns`, `IdleWorkersSleep`, `RenderReturns`, `Answered`, `ResumeReleases`. The proof system
  does not handle `ENABLED`, and so no fairness.
* `HeardIsTheSound`, `EofMeansComplete` and `GoodStreamsAccepted`: what a page or a packet means is given by the sample streams of
  `OpusSamples`, which have no description for all streams. So for `TimelineKept` and `PlainSourcesKept`, whose files are a list.
* `RightOutcome`, `ReferencesResolve`, `BodiesKept`: each compares the projection of a document, a composition of some fifty operators on
  nested lists, with a second reading of it, and has no invariant of its own that a proof could follow.
* `AcceptedIsWhole`, `ListsWhatIsKept`, `AnswersAreTrue`: not attempted yet; see the plan.

## 6. What the models leave out

* Memory orders weaker than sequential consistency. The executor uses acquire/release and relaxed operations; the models
  interleave. Race freedom of the one plain variable is checked as an invariant.
* The Android `ldaxr` branches of `parallel_executor.h` (126, 177): they sit where `YSM_EXECUTOR_NO_SPIN` is not defined, and Android
  defines it (13-14).
* A second `Execute` in one active scope: `Render` never does that.
* Floating point, texture coordinates, pixels, codec internals, hash functions and cipher streams.
* `VertexCount`'s 32-bit multiplication by 4: `BoneSizeAssumption` states the bound that bake guarantees.
* The JNI entry wrapper (a status that is not ok, or an exception, becomes the entry's fallback value) and the registry of entries, which is
  bound once when the library is loaded. Handles: each is its own `std::any` around a `shared_ptr`, and what Java does with a handle it
  destroyed, or with a buffer of an object it destroyed, is undefined in this code and has no step.
* The layout accessors of `lib-jni/src/bake` and `render` (offsets of fields), buffers, SIMD transforms, vertex formats and math, logging and files.
* In `BakedModel`: `ValidateCube`'s conditions and the quantization of texture coordinates by `QuadInspector`, whose verdicts a cube and a quad come with.
* In `Archive`: encodings of names, zip's and 7z's own formats. What a library that fails leaves in a buffer is garbage, and is followed.
* In `NativeRuntime`: how files, records and numbers are parsed; CPUs that come and go between two reads.
* In `LegacyImport`: scalars and texts of a body, the statements of a geometry's script and other lists without a place in the target (and
  what they charge), pixels (an encoder that was given a size it accepts succeeds), the decoding of sounds, the protobuf encoding. Of
  exceptions only a failed allocation is modelled. Of
  tables of source hashes and the variables of a script, which are decoded and never projected, and of an author's contacts and the
  model's links, the keys are kept: they count, and a duplicate refuses the file.
* Two checks of the renderer that no baked or read model can fail: `Update` compares the lengths of a bone's two lists of groups
  (schedule.cc:184-208), which `EveryQuadOnce` and `CacheReadIsExact` keep in step; `Wait` looks whether a bone and its owner are in range
  (render.cc:53-59), which `OwnersMatchUpdate` says of every bone that is drawn.

## 7. Findings

1. *`opus_documented_loop`*: the consumption loop in `docs/infrastructure/opus_cn.md` takes a feed that consumed nothing for data
   loss (opus_cn.md:60-63), but `Feed` consumes nothing while PCM waits (opus.cc:149-151). A chunk that goes on after the page that
   produced PCM makes that loop give up on a sound stream. `ValidateComplete` drains after each feed and does not.
2. *`audio_retained_doc`*: `audio-normalization_cn.md:11` says retained normalization keeps the exact timeline of any supported Opus. A
   file trimmed by more than its last packet, or one that starts late and is trimmed, is refused by the code's own validation
   (audio.cc:754-758).

3. *`archive_retry`*: `SevenZip::DecompressTo` engages the block of a folder before it decodes it (7z.cc:116) and leaves it engaged when
   `SzAr_DecodeFolder` fails, for which a failed allocation is enough (7z.cc:25-30). The first request is refused by the assertion
   `"Error extracting entry"` (7z.cc:122-123); the next one for any file of the folder finds the block and is answered with bytes that were
   never decoded, and a status of OK.

Met while modelling, not stated as a run of their own:
* `NativeArchive` lists nothing for `"/"`, and the root for the empty path. A bundle without files is refused as if it were damaged.
* The checksum a zip reports when an entry is closed is ignored, and the checksums of single files in a 7z are not looked at.
  `codec_cn.md` warns that a successful decompression does not say the content is whole.
* `GrowOutput` doubles from the size the reused buffer has, so that whether a large file exceeds `kMaxSize` depends on what was extracted before it.
* One pause request can hold two restores, and the first of them to leave clears `restore_paused` while the other is still held
  (opus_decoder.cc:34-40). `PauseHolds` is what remains true.
* The projector delivers cubes with more than 8 distinct positions when a legacy file has them; `ValidateCube` (baked_model.cc:335-339) refuses
  them later, when the model is baked.
* On Linux the topology files of a present CPU that is offline are gone, so that `QueryPhysicalCores` fails; the comment at
  device_quality.cc:162 speaks of offline present CPUs as reporting.
* A playable sound with an empty name passes decoder and projector and is refused by `ResultOwner::ValidatePayload`
  (result_owner.cc:137-145), and so are names of sounds that together exceed the descriptor's 16 MiB (result_owner.cc:243-252), so that
  Java sees an exception where every other refusal is a failure result. `RightOutcome` describes what the code does.
* `audio-normalization_cn.md:9` says a damaged source is reported as `SourceInvalid`. A file cut inside a page gives `OutOfRange`, which is
  classified as an environment failure (mini_ogg.cc:38-61, audio.cc:118 and 1389-1396).
* Desktop and Android part on very thin GUI, avatar, icon and thumbnail images. On a desktop the shorter side is rounded to 0 (avif.cc:98-112) and
  scaling to an empty side fails, so the import is refused; `FitWithin` of the Android build keeps at least one pixel
  (ztx.cc:28-38). `RightOutcome` says so per build.
* An animated WebP is probed as one frame (webp.cc:22-30) and accepted as a still image when the section says one frame; an AVIF sequence is refused.
* `gfx_cn.md:17` says `ReadBakedModel` validates that floats are finite. It does so for the pivots of bones
  (baked_serializer.cc:538-548) and no others.

## 8. Plan

To prove: `AcceptedIsWhole` of the envelope; from the rules of `Emplace`, that what `Archive` keeps never conflicts.

To extend, where a property is waiting: `ModelState` on the real `Schedule` instead of its contract; `QuadInspector` on texture
coordinates as fractions, since the type of a quad decides how it is drawn; the registry of entries.
