# Couchbase LMCache: TLA+ models, model checking and proofs

This directory specifies `couchbase_lm_cache`, the Couchbase storage backend of
LMCache: TLA+ modules translated from the Python source, TLC configurations that
check them on small instances, and theorems that TLAPS checks for every value of
the constants. `PROJECT.json` maps each definition to the source lines it
stands for. Paths below are relative to the repository (`src/` in
`PROJECT.json`).

* [The system](#the-system)
* [Modules and how they correspond to the code](#modules-and-how-they-correspond-to-the-code)
* [Runs](#runs)
* [Bounds](#bounds), [fairness](#fairness), [assumptions](#assumptions)
* [Findings](#findings), [known disagreements](#known-disagreements)
* [Proofs](#proofs)
* [Not modelled](#not-modelled)
* [Plan](#plan)

## The system

LLM servers cut the KV cache of a prompt into chunks, name each chunk by a hash of
the tokens and hand the bytes to LMCache. This package keeps the bytes in one
Couchbase collection that any number of servers share. Nothing locks: servers
and threads coordinate only through the documents.

| Component | State it keeps | Operations | Talks to |
|---|---|---|---|
| `CouchbaseKVStore` (`store.py`) | none but the SDK's collection; the documents are shared by all servers | `put_bytes`, `get_bytes`, `exists`, `remove_measured`, `put_many`, `ping`, `close` | Couchbase, one SDK call at a time |
| `CouchbaseL2Adapter` (`l2_adapter.py`), multiprocess mode | an asyncio loop and its thread, a thread pool and its queue, three dictionaries of completed results under a lock, three event fds | `submit_*_task`, `pop_completed_store_tasks`, `query_*_result`, `delete`, `close`, `report_status` | the store (from pool threads), LMCache (event fds, listeners) |
| `CouchbaseConnector` (`connector.py`), in-process mode | a thread pool and its queue; buffers of LMCache's allocator while they pass through | `put`, `get`, `exists`, `exists_sync`, `remove_sync`, `batched_put`, `batched_get`, `batched_async_contains`, `batched_contains`, `batched_get_non_blocking`, `close` | the store (from pool threads and LMCache's threads), LMCache's event loop and allocator |
| `CouchbaseLMCacheConfig` (`config.py`) | none | `from_env`, `from_lmcache_extra_config`, `from_dict` | both of the above |
| Couchbase server and SDK (external) | the documents | single-document `get`, `exists`, `upsert`, `remove`; expiry, eviction | |
| LMCache (external) | its own index of chunks on L2 | submits tasks, polls fds, evicts through `delete` | the adapter |
| demo backend (`demo/server.py`) | `Hub`: a list of queues under a lock; handler threads | `publish`, `subscribe`, `unsubscribe`; `/api/events`, `/api/complete`; the Couchbase poller and the log tail | browsers, vLLM, Couchbase's REST API |
| voice-over of the video (`video/scripts/tts.py`, `pick_voice.py`) | files only: clips, takes and their digests, `hashes.json`, `candidates.json`, `vo-durations.json` | `tts.py --engine chirp`, `--engine gemini`, `--takes`; `pick_voice.py` | speech services, Whisper, ffmpeg; the author, who edits the narration |
| recording, examples, benchmarks | none | sequential scripts | not part of the package |

**What is hard here.**

* A chunk larger than `shard_size_bytes` is several documents, but each SDK call
  touches one. Calls of several threads and servers on one chunk interleave
  shard by shard; a removal, an expiry or an eviction takes documents away one by
  one.
* A call that raises (timeouts above all) stops a method in the middle, and its
  last mutation may be applied by the server afterwards, when other calls have
  already ended.
* Checks go stale: `_store_one` checks, then writes; `remove_measured` measures,
  then removes; a lookup promises what a load fetches later.
* In the adapter three kinds of threads (the loop's, the pool's, LMCache's)
  meet in queues, dictionaries and fds. Wake-ups and results must not get lost
  between publishing, signalling, resetting and fetching.
* `close()` and the 60 s timeout of `delete()` cut into all of that.
* In the connector, buffers with a reference count pass from an allocator through
  gathers, some of which raise in the middle, to LMCache; the event loop itself
  is blocked by `close()`, which closes the store before it drains the pool.
* The demo's publishers, streams and pages meet in one lock and unbounded queues, and
  a browser that leaves is noticed only by a write that raises.
* The scripts are stopped and run again, between any two files and in the middle of
  one, on a narration that changes in between.

**What makes each component correct.**

* Store: a hit returns a payload that was offered under the key, whole and in
  order; a manifest implies its shards; what was stored can be read; what can be
  read is not missed. In one sentence: it behaves like a set of chunks, each whole
  or absent (`ChunkCache`).
* Adapter: every task's result is published once, complete, fetched once, and
  never slept on; what it reports present is loadable as long as nothing is
  lost; what it tells the listeners is true; the store is not used after it is
  closed; `delete` and `close` return.
* Connector: every buffer is in one place at a time and ends with the allocator;
  results match keys by position; a counted prefix can be fetched; a put that
  returns has stored; nobody deadlocks with `close()`.
* Configuration: a setting means the same however it is given; only what is left out
  falls back.
* Demo: a stream gets every event published while it is subscribed, once, and all
  streams get them in the same order; who has gone is forgotten.
* Voice-over: a run that ends leaves clips that say the text and lengths that are
  those of the clips, as far as the files it went by were up to date; what was
  synthesized and recorded as such is not synthesized again; cuts lie in pauses, one
  per line; a sentence comes from one take.

## Modules and how they correspond to the code

```
  MCShardedStore (TLC)                        MCL2Adapter (TLC)
        |                                            |
  ShardedStoreInvariant                              |
        ^                                            |      L2AdapterProofs
        |  ShardedStoreRefinement                    |             |
        |  ShardedStoreProofs                        v             v
  ShardedStore  --- implements --->  ChunkCache <-- L2Adapter -- implements --> TaskService
                                         ^          (INSTANCE Store)   (INSTANCE Service)
                                         +--------- Connector (INSTANCE Store)
                                                     ^        ^
  ConfigResolution <------------------- MCConnector -+        |
                                    (TLC)  ^           ConnectorStoreProofs
                                           |                  |
                                     ConnectorProofs <--------+

  DemoHub <-+- MCDemoHub (TLC)      Narration, TakeCuts, VoiceChoice <- MCNarration (TLC)
            +- DemoHubProofs            ^                                    ^
                                        +- NarrationProofs              TakeProofs
```

The components are composed through `ChunkCache`: `ShardedStore` is proved to
implement it, and the adapter and the connector are modelled on top of it. The adapter in
turn is proved to implement `TaskService`, which knows of no thread, queue or fd.

**`ShardedStore`** is `store.py`, with `_store_one`'s check in front of
`put_bytes`. A *client* is a worker thread of any server. `pc`, `call`, `frame`
and `answer` are where a thread is in a method, its arguments, its locals and
what it returned; `docs` is the collection; `late` holds mutations whose call gave
up and which the server may still apply. One action is one SDK call with the local
computation up to the next one:

| Code | Actions |
|---|---|
| `_store_one`: `exists`, then `put_bytes` | `BeginStore`, `StorePresent`, `StoreAbsent` |
| `put_bytes` | `BeginPut`, `PutShard`, `PutMain`; `ShardCount` is the division of line 141, `Shard` its slice |
| `exists` | `BeginExists`, `Exists` |
| `get_bytes` | `BeginGet`, `GetUnsharded`, `GetManifest`, `GetShard`, `GetLastShard`, `GetShardMissing` |
| `remove_measured` | `BeginRemove`, `RemoveGet`, `RemoveAbsent`, `RemoveUnsharded`, `RemoveManifest`, `RemoveShard` |
| an SDK call raises or its thread dies | `Fail` (with or without a mutation left behind), `ApplyLate` |
| expiry, eviction | `Lose` |

A binary document is a *slice* of a payload: equal slices are equal bytes, other
slices are taken to differ. That is exactly what "torn" needs, and no byte is
modelled. `shard_size_bytes` is a constant per thread, because every server
has its own configuration.

**`ChunkCache`** is what a user of the store may rely on: the set of cached
chunks, and requests that are answered from it. A fetch hits only what was cached
during the fetch; with nothing lost or removed (`Reliable`) a cached chunk is
never missed; a failed write may take effect once and later (`inDoubt`); a removal
measures, removes, and may have to sweep before it answers.
`ShardedStore!ImplementsChunkCache` is the refinement: a chunk is cached when
the document at its key exists. A torn hit maps to a reply `ChunkCache` does not
have.

**`L2Adapter`** is `l2_adapter.py` on top of `ChunkCache`: a pool job makes one
request, its reply is the job's result.

| Code | State and actions |
|---|---|
| `submit_*_task`, `delete` up to the loop | `Submit` |
| `_run_loop` | `loop`; `LoopRuns`, `LoopStops` |
| `_store`, `_lookup`, `_load`, `_map` of `delete` | `task[t].phase`; `Start` (hands the jobs to the pool), `Resume` (after `gather`, with the listeners' call), `Finish` (publishes under the lock, then signals) |
| `ThreadPoolExecutor` | `queue`, `running`; `TakeJob` |
| `_store_one`, `_exists_one`, `_load_one`, `_remove_one` | `Work`, `Result` |
| `_completed_*`, the fds | `completed`, `efd` |
| `pop_completed_store_tasks`, `query_*_result` and LMCache's pollers as the tests run them | `asking`, `fetched`; `Wake`, `PopStores`, `Query` |
| `.result(timeout=60)` | `DeleteReturns`, `DeleteTimesOut`, `gaveUp` |
| `close` | `closer`; `CloseStop`, `CloseShutdown`, `CloseStore` |
| LMCache's view of the listeners' calls | `listed` |

The loop runs one coroutine at a time: between `Resume` and the end of `Finish`
no other coroutine moves (`LoopFree`), while pool threads and LMCache's threads
do. A task of an empty key list publishes without a job. Loads whose buffer has
another size than the chunk (`Misfits`) count as misses.

**`TaskService`** is what LMCache may rely on when it hands the adapter tasks. A task is
*pending* until each of its keys has its reply from the chunk cache, then *ready*, and
*collected* once; no reply changes after it is ready. LMCache is told of stored chunks
before it can collect the result, and of removed ones when `delete` returns. The caller
of a delete may *give up* while it is pending; a pending task is *lost* only from
`close`'s shutdown on, and nobody is at the store when `close` is over.
`L2Adapter!ImplementsTaskService` is the refinement: `AbstractState` makes
`submitted` and `waiting` pending, `resumed` and `published` ready, what was fetched (or
is a delete that ended) collected. Most steps of the threads change none of this:
handing jobs to the pool, publishing, signalling, waking, resetting the fd.

**`Connector`** is `connector.py` on top of `ChunkCache`. `put`, `get` and
`exists` are batches of one key: they make the same job as the batched ones.

| Code | State and actions |
|---|---|
| a call of LMCache: a coroutine, or a function on one of its threads | `call`; `Submit` |
| `_run_blocking` and the executor | `queue`, `running`; `Start` (a `gather` hands over all jobs), `TakeJob`, `Work`; `Refuse` is the executor that was shut down, or the SDK on a closed store |
| `get` after its await, `_decode` | `got`, `free`, `content`; `GetResumes`, `Decode`: the header is bad (`Malformed`), there is no buffer, the payload is too large (`Oversized`), or it is copied |
| `gather` without `return_exceptions` | `GatherRaises`: at the first failure the call raises while its other jobs go on |
| `batched_put`, `batched_get`, `batched_async_contains` | `PutReturns`, `GetReturns`, `CountReturns` |
| `batched_get_non_blocking` | `PrefetchReturns`: up to the first miss or error, `Behind` it each buffer is released |
| `batched_contains`, `exists_sync`, `remove_sync` | `Probe`, `ProbeReturns` |
| `close` | `closer`; `Close` queues the store's close on the pool, `CloseStore`, `CloseShutdown` (the loop's thread blocks from here), `CloseReturns` |
| LMCache releases what it was handed | `GiveBack` |

A reference count is modelled by the place a buffer is in: the allocator, one get,
or one result. A key's decode always ends the same way unless buffers run out.

**`ConfigResolution`** is `config.py`: pure operators for one field at a time. A
value is None, an int, a float, a string that spells one of these (a numeral, a
decimal), or another string; `AsText`, `AsInt` and `AsFloat` are `str`, `_as_int` and
`_as_float` (`int()` drops the fraction of 1.5 and refuses "1.5"); `LookupExtra`, `LookupPlain` and `LookupNothing` are the three constructors' lookups,
`Resolve` is `_build`.

**`DemoHub`** is `demo/server.py`. Each handler is a thread of
`ThreadingHTTPServer`.

| Code | State and actions |
|---|---|
| `Hub._lock`, `_subscribers` and `publish` | `lock`, `subscribers`, `next`; `Acquire`, `Put` per queue, `Release` |
| `subscribe`, `unsubscribe` | `Subscribe`, `Unsubscribe` |
| the `/api/events` handler and its browser | `stream`, `queue`; `Open`, `Leaves`, `HeadersRaise`, `Write`, `WriteRaises`: the first write to a browser that has gone may succeed |
| `poll_couchbase`, `tail_lmcache_logs` | publishers `Poller` (for ever) and `LogTail` (`TailEnds`) |
| `_complete` and the page's `EventSource` | `visit`; `Ask`, `FirstText`, `WriteText`, `Done`, `Breaks` |

`owed[s]` counts the events published since `s` subscribed and not yet written; it
is what the property compares the queue with. A completion is where its handler is and
whether its first text has come; its response may end (`Done`) or raise (`Breaks`) at any
text, and it may be asked for any number of times.

**`Narration`** is the two scripts' files across runs. A clip is the text it says
and the recording it came from; a file is absent, torn or whole. A run starts with any
version of the narration (`Scripts`) and any engine (`StartChirp`, `StartGemini`,
`StartTakes`, `StartPick`), so the author may edit, go back to an old version and change
engines at will. Each step between two files written or deleted is an action:

| Code | Actions |
|---|---|
| `chirp`: the loop over lines, stale clips, `hashes.json` | `KeepLine`, `SpeakLine`, `SaveHash`; `Tidy`; `SaveHashes` |
| `gemini_take`: the take and its digest | `ReuseTake`, `RequestTake`, `RequestAgain`, `RecordTake`, `SaveDigest` |
| `gemini`: clips of one take, or of several with `candidates.json` | `UnlinkAll`, `CutLine`; `MakeClipDir`, `CutCandidate`, `SaveCandidates` |
| `pick_voice.py` | `StartPick`, `Choose`, `CopyLine` |
| the end of each `main` | `SaveDurations` |
| a run is stopped by `sys.exit`, an exception or from outside | `StopAtRest`; with the file torn that it was writing `TearClip`, `TearTake`, `TearJson`; with some clips deleted `StopUnlinking` |
| the author takes a torn `hashes.json` away | `DropTornHashes` |

The scripts trust descriptions: `hashes.json` for the clips in use, a digest for its take,
`candidates.json` for the candidates. `looseClips`, `looseTakes` and `looseCandidates` say
which files were written after the description of them, by another engine or by a run that
was stopped in between; `run.misled` is the lines for which a run has trusted such a
description. No guard reads them: they only say what the properties except.

`TakeCuts`
(`quietest`, `in_pause`, `cut_points`, `check`) and
`VoiceChoice` (`sentences`, the choice in `main`) are the pure functions in between;
Whisper's words, their alignment, the loudness and the likeness of voices are
arguments. The two `sorted` of `cut_points` are by rank (`Rank`, `InOrder`): an
element's place is the number of those before it.

**`ShardedStoreInvariant`** holds the store's inductive invariants, **`…Proofs`** and
**`ShardedStoreRefinement`** the theorems and the other components' invariants,
**`MC…`** the values TLC uses.

Operators marked *Mutant* in comments are plausible bugs (a loop that ends early,
the manifest before the shards, the fd before the result). Each is a replacement for
one definition under which one property of one run must fail: that is how we know
the property says something about the code.

## Runs

State counts are distinct states found by TLC.

| Run | Instance | Checks | Shows |
|---|---|---|---|
| `store_shared` | 3 threads store, put, read, probe and remove one chunk of 2 shards; losses, failures, 1 late mutation; 160,266 states | `Provenance`, `PartsOK`, `NoTornRead`, `ReadableIsHit`, `ImplementsChunkCache` | no torn read, no miss of what is whole at that moment; the store implements `ChunkCache` |
| `store_reliable` | 3 threads store, put, read and probe one chunk of 3 shards; failures, 2 late mutations; 21,749 states | `ShardsFirst`, `ManifestComplete`, `StoredIsReadable`, `ImplementsChunkCache` | manifests are complete, stored chunks stay readable, a reliable cache misses nothing it holds |
| `store_live` | 2 threads, 2 keys (sharded, one full shard), failures, fair; 11,213 states | `StoreLeadsToReadable` | what is offered becomes readable for good, or the call failed |
| `l2_promise` | 3 stores, lookups, loads of a chunk, 2 threads, overlapping, failures; nothing lost; 294,705 states | `TypeOK`, `NoLostWakeup`, `NoResultLost`, `AnsweredIsLoadable` | no wake-up or result is lost; what a result reports present loads |
| `l2_evict` | 3 stores and deletes of 1 or 2 chunks, 2 threads; failures, late removals, deletes that time out; 2,098,696 states | `ListedIsCached` | LMCache's list is true, but for what a failed delete left in doubt |
| `l2_close` | 2 stores, loads, deletes, also of no key, and a buffer of the wrong size; 1 thread, other servers, failures, `close` at any moment, fair; 74,092 states | `NoUseAfterClose`, `ImplementsTaskService`, `EveryTaskFetched`, `DeleteEnds`, `CloseEnds` | the adapter implements `TaskService`; close and delete end, whatever is under way; before a close every result is fetched |
| `connector` | 2 calls of any kind (put, get, prefetch of 2 keys in both orders, both counts), 2 threads, 2 buffers, one oversized chunk, failures, `close` at any moment; and all settings over 13 values; 1,280,559 states | `TypeOK`, `BuffersAccounted`, `OnlyRaisingGetsLeak`, `ResultsArePositional`, `ReturnedPutIsStored`, `NoUseAfterClose`, `NobodyStuck`, `CountedIsReadable`, `SettingsAreTheSame`, `SettingsFallBack` | buffers are accounted for, results match keys, `close` neither deadlocks nor hides a failure; settings come out the same by every route, or are refused by the environment |
| `demo_hub` | 3 publishers, 2 streams whose browsers leave, 1 completion that ends, breaks and is asked for again, queues of 2; fair; 104,811 states | `NothingSkipped`, `SameOrder`, `GoneIsForgotten`, `StaysInformed` | no event is skipped or overtaken, no dead stream stays, nobody deadlocks |
| `narration` | 2 lines, 2 takes, 3 versions of the narration, 4 runs, 2 recordings; runs of all engines in any order, stopped anywhere; and the functions over takes of up to 7 frames, 4 lines, 4 words; 1,578,614 states | `ClipsSayTheText`, `DurationsOfClips`, `UnchangedIsKept`, `CutsAreInPauses`, `LinesAreCut`, `SentencesFromOneTake` | a run that ends repairs what earlier runs left, but for what stale descriptions hide from it; cuts and takes are chosen as documented |
| `race_manifest` | 2 threads store and remove | `ManifestComplete` | **violated**, finding 1 |
| `evicted_shard` | 1 thread, losses | `SkipsOnlyReadable` | **violated**, finding 2 |
| `mixed_sizes` | 3 threads, shard sizes 1 and 2 | `NoTornRead` | **violated**, finding 3 |

`CHECK_DEADLOCK FALSE` appears only in the adapter's, the connector's and the
voice-over's runs: when the bounded tasks, calls or runs of the scripts are over, or all
is closed, the modelled system rightly stops. That the first two never stop before is `NobodyStuck` for the connector, and for the adapter
what `EveryTaskFetched`, `DeleteEnds` and `CloseEnds` say and the theorem `NoDeadlock`.

### Properties by question

*Can a read return wrong bytes?* `NoTornRead` says no, under any interleaving of
stores, reads and removals by several servers, losses, failures and late writes.
It needs two assumptions (below): without the one on shard sizes it fails
(`mixed_sizes`). `PartsOK` is why: what a read has joined so far are the first
shards of the only payload of its key; `Provenance` is why that is so: every
document stems from a put of a payload of its key.

*Can a read miss what is there?* `ReadableIsHit`: at the moment a read misses, the
chunk could not be read. It may have been when the read started: then documents of it were
removed or lost in between. Where nothing is, `ImplementsChunkCache` says more: a chunk
cached when a fetch starts is not missed.

*Does a store keep its promise?* `StoredIsReadable`, `ManifestComplete`,
`ShardsFirst` (nothing removed or lost, calls may fail and land late);
`StoreLeadsToReadable` adds that the promise is eventually kept and for good.

*Is the store the cache the others take it for?* `ImplementsChunkCache`: every
behaviour of the SDK calls is a behaviour of `ChunkCache`.

*Can LMCache rely on the adapter?* `ImplementsTaskService` in one sentence;
`NoLostWakeup`, `NoResultLost` (every job awaited is queued once, at the store or
answered; every published result is in its dictionary or fetched) and, with fairness,
`EveryTaskFetched` for the results; `AnsweredIsLoadable` and `ListedIsCached` for what they
say about the cache; `NoUseAfterClose`, `DeleteEnds`, `CloseEnds` for its end.

*Does LMCache's list of chunks stay true?* `ListedIsCached`: a listed chunk is in the
store, or being deleted, or `Doubtful`: a removal of it raised, or the caller of `delete`
gave up. Then LMCache goes on listing a chunk the server may have removed, or may yet
remove; a load of it is a miss.

*Are buffers safe?* `BuffersAccounted`: each is in one place, so none is released
twice or while it is in use. `OnlyRaisingGetsLeak`: the leak that exists
(a `batched_get` that raises) is the only one. `ResultsArePositional`: LMCache maps
results onto keys by position and finds the right bytes there.

*Is `close()` of the connector safe?* It blocks the loop while coroutines
need it, and closes the store under running jobs: `NobodyStuck`, `NoUseAfterClose`,
and `ReturnedPutIsStored` (no job that failed because of it goes unnoticed).

*Are settings what they look like?* `SettingsAreTheSame`: the same by every route, but
for a float given for a whole number, which the environment refuses; `SettingsFallBack`.

*Does the demo tell everybody everything?* `NothingSkipped` for what was
published, `SameOrder` for two pages that are compared, `StaysInformed` and
`GoneIsForgotten` for the threads and the lock.

*Can the author trust a finished run?* `ClipsSayTheText` and `DurationsOfClips`,
whatever earlier runs left, line by line except where a stale description misled the run;
`UnchangedIsKept` for what is not synthesized again; `CutsAreInPauses`,
`LinesAreCut`, `SentencesFromOneTake` for the algorithms, against definitions by
maximal stretches and by what is next to each cut. `LinesAreCut` also says that clips do
not end before they start, except where that happens (see
[known disagreements](#known-disagreements)).

## Bounds

* Payloads of 3 or 5 bytes with shards of 2: two shards or three, the last one
  short, so that an off-by-one at either end of a loop shows; a payload of exactly
  one shard size for the unsharded branch. Longer payloads repeat the middle shard.
* Two or three clients. Every disagreement found needs two writers, or a writer
  and a remover, and one more thread to observe it. Keys do not interact in the
  store (`Provenance` relates a document only to its own key), so one key
  suffices where three clients run.
* `MaxLate` 1 or 2 mutations that linger: enough for one to land after a later
  call has ended, and for two to land in the other order.
* `MaxTasks` 2 or 3 tasks: one to publish while another is popped, one to hold
  the loop; three for a chunk that is stored, deleted and stored again. `MaxKeys` 2:
  a task whose jobs end in either order, and two tasks with the keys in opposite
  order. `MaxWorkers` 1 (every job waits for the one before) or 2 (jobs overtake).
* `MaxCalls` 2 in the connector: one call to be cut off by failures or by close
  and one to count, to use the buffers it gives back, or to be queued behind it; two
  keys give a result a hole at either end, and two buffers are one too few for two
  fetches.
* `MaxShards` and `MaxKeys` only size the type of document keys and job ids; an
  assumption, evaluated by TLC, says no instance exceeds them.
* `DemoHub`: two streams, so that a publication can be between them. `MaxLag` 2: an order
  needs two events in a queue. A publisher waits while a queue is full, which the code's
  unbounded queues do not ask for; it only removes behaviours in which a stream lags
  further behind.
* `Narration`: three versions (all lines old; one line new and the other dropped), so that
  a text is edited, taken back, and a line goes and returns; four runs: one of a version,
  one of another, which may be stopped, the first version again, and one more by another
  engine; two recordings, so that a run can be stopped with its take recorded, and the next take is
  another one.
* `TakeCuts`: windows of up to 7 frames over three loudness levels with a clear
  pause of 3 frames; four lines whose words may be missed in the middle,
  one or two at a time. `VoiceChoice`: four lines in two scenes; two takes of one or
  two clips.

The theorems have none of these bounds: neither on keys, payloads, threads, tasks,
calls, streams, lines and takes nor on the frames, words and silences of a take.

## Fairness

* Store: `WF` of every step of a client. An SDK call returns or raises within
  `kv_timeout`, and a live thread goes on. Requests, losses and late
  mutations are not fair: they need not happen.
* Adapter: `WF` of the loop's steps per task, of every job, of handing jobs to
  free threads, of LMCache's pollers (they block in `poll` on the fd and then
  call), of `delete`'s wait (it is timed) and of `close`'s steps (its join is
  timed; the shutdown waits for jobs, which end). Submissions, other servers and
  the decision to close are not fair. Only weak fairness is used. A
  coroutine is held up while another has the loop, and a job while the pool is
  full, but each only for the finitely many steps of those before it.
* Demo: `WF` of a publisher that has the lock and of a stream's writes (a
  `sendall` to a browser that reads returns). `SF` of the poller's taking the lock and of
  `unsubscribe`: a `threading.Lock` is not first come, first served, but it is free
  again and again, and its holders never block (`put` on an unbounded queue). The log
  tail, completions and browsers are not fair: they need not do anything.
* `NobodyStuck` needs no fairness: `CanGoOn` is the guards of the steps that caller, loop
  and pool owe. The voice-over's properties are about what has happened.

## Assumptions

* *Chunk keys are content-addressed* (README.md, "Limitations"): two servers that use
  the same key offer the same bytes. In runs each key has one payload; the
  theorem `ReadsAreWhole` names the assumption `ContentAddressed`.
* *One shard size per key prefix* (`UniformShardSize`). The documentation does
  not ask for it; see the finding `mixed_sizes`.
* *Single-document operations are atomic and linearizable.* The SDK promises it
  for one key; replicas and failover are not modelled.
* *Payloads are not empty* (`NoEmptyPayload`, for the refinement theorem). The store
  would report size 0, which the adapter reads as "nothing written". The connector's
  payloads start with a metadata header, and LMCache never offers an empty chunk.
* *`Keys # {}`* for both users of the store: LMCache has a key to ask for.
* *`ListedIsCached`* assumes LMCache does not store one chunk by two tasks at a
  time (`Overlap`), has one eviction thread, and deletes chunks it was told of; that
  no other server writes them (`Shared`) and nothing expires; and that no list of
  keys has a key twice (`NoKeyTwice`, met in the proof: with a key twice in a delete
  TLC finds a trace in which the second job removes what was stored again after the
  first). Failures, late mutations, timeouts and `close` are allowed.
* *Listeners do not raise.*
* *Voice-over:* one run at a time, with one `--voice` and `--model` per engine; the author
  does not touch the scripts' files, but for a torn `hashes.json`.
* *A take:* the words Whisper heard follow each other, or are spelled out of one and have
  its start and end ("24", tts.py:207-209; `HeardWords`); difflib matches
  them in the order of the lines (`Matched`), a silence does not end before it starts,
  and `Slack`, the 0.05 s in `cut_points`, is at least one frame.

## Findings

Each is a run that must find a violation of what a text of the repository says.

1. `race_manifest`: "a reader never sees a manifest whose shards are missing"
   (README.md). `remove_measured` takes the manifest first. A store that runs
   between that and the removal of the shards finds no manifest, writes shards and
   manifest, and then loses its shards to the rest of the removal. The remnant
   manifest makes every later store skip the chunk.
2. `evicted_shard`: "missing chunks are recomputed and written again"
   (README.md). A chunk whose shard expired or was evicted is a miss for
   every load and "already present" for every store, as long as its manifest lives.
3. `mixed_sizes`: servers with equal bucket, scope, collection and prefix "share
   one cache" (README.md). With different `shard_size_bytes` their shards
   overwrite each other under the same keys, and the length check accepts some
   mixtures.

### Known disagreements

Met while modelling, and not among the runs: the model does what the code does.

* `remove_measured` (store.py:182) measures, then removes: a chunk stored in between
  is removed with size 0, is not reported to LMCache, and leaves its shards as orphans
  that no reader is misled by and only expiry takes away.
* "Existing objects are not rewritten on store" (docs/developer.md:82): two store jobs
  can both find a chunk absent; both write it and both report it as newly stored.
* With removals, `StoreLeadsToReadable` does not hold either (finding 1): a store that
  reported success may leave a chunk that no read ever hits.
* `batched_get` (connector.py:247) gathers without `return_exceptions`: buffers of the
  other gets are neither returned nor released when one raises.
* "Both plugins accept the same settings" (README.md:283): so they do, but the
  environment does not accept what they accept. `ttl_seconds: 1.5` as a value is `int(1.5)`,
  1 second; `LMCACHE_COUCHBASE_TTL_SECONDS=1.5` is `int("1.5")`, a `ValueError`
  (config.py:26). `SettingsAreTheSame` says both.
* A page whose `EventSource` asks again appends the new answer to the text of the broken
  one (demo/static/index.html:113-133). An error that vLLM sends as a frame of its stream
  has no `choices` and is passed over (demo/server.py:276): the page is told "done" after
  an answer that stops in the middle.
* "A preset voice sounds the same on every line" (tts.py:10-12): only `--engine chirp`
  keeps `hashes.json`. After chirp, Gemini and chirp again, the second chirp keeps
  Gemini's clips as its own unchanged ones (tts.py:438), even one that was left torn: one
  narration in two voices, by a run that ends without an error. Within chirp the same
  happens when a text is edited, a run is stopped after its clip was written, and the
  edit is taken back. `ClipsSayTheText` excepts these lines.
* "Unchanged lines are not re-synthesized" (tts.py:13): a line whose clip was written and
  whose hash was not, because the run was stopped in between, is synthesized again, and so
  are all lines after a torn `hashes.json`. `UnchangedIsKept` excepts these lines.
* A take is reused when `take<n>.sha256` fits the script (tts.py:487). A run that is
  stopped between the take and its digest leaves the digest of the script before; when
  the narration is then taken back to that script, the next run cuts the other script's
  take, or half a take, into its lines. `ClipsSayTheText` excepts such a run.
* Both cuts around a line reach into its words (tts.py:350-351). A line with one matched
  word, or whose first and last are too near each other, can be cut so that its clip
  ends before it starts. `LinesAreCut` exempts these lines and no others.
* A torn `hashes.json` makes every chirp run fail until it is deleted by hand.
* `pick_voice.py` after a `tts.py --takes` that was stopped copies clips that are newer
  than the lengths in `candidates.json` and may say another script. `ClipsSayTheText` and
  `DurationsOfClips` except these lines.

## Proofs

Checked by TLAPS with SMT, Zenon and the PTL decision procedure, no step left out.

| Theorem | Says | Assumes |
|---|---|---|
| `ShardedStoreProofs`: `SpecProvenance` | `Spec => []Provenance`: type correctness, and every document, pending mutation and local stems from a put of a payload of its key | the constants' types |
| `ReadsAreWhole`, `ReadsHoldFirstShards` | `Spec => []NoTornRead`, `Spec => []PartsOK` | `UniformShardSize`, `ContentAddressed` |
| `ManifestsAreComplete`, `ShardsAreFirst` | `Spec => []ManifestComplete`, `Spec => []ShardsFirst` | `Reliable` |
| `WhatIsStoredIsReadable` | `Spec => []StoredIsReadable` | `Reliable`, `UniformShardSize`, `ContentAddressed` |
| `WhatIsReadableIsHit` | `Spec => ReadableIsHit` | `UniformShardSize`, `ContentAddressed` |
| `ShardedStoreRefinement`: `StoreImplementsChunkCache` | `Spec => ImplementsChunkCache` | `UniformShardSize`, `ContentAddressed`, `NoEmptyPayload` |
| `L2AdapterProofs`: `WakeupsAreNotLost`, `ResultsAreNotLost` | `Spec => []NoLostWakeup`, `Spec => []NoResultLost` | the constants' types |
| `NoDeadlock` | `Spec => []SomeoneCanGoOn`: while LMCache waits for a result, a delete or `close`, a thread has what it needs to go on | the constants' types |
| `AdapterImplementsTaskService` | `Spec => ImplementsTaskService` | the constants' types |
| `TypeCorrect`, `StoreIsLeftAlone`, `ResultsAreFinal` | `Spec => []TypeOK`, `Spec => []NoUseAfterClose`, `Spec => PublishedIsFinal` | the constants' types |
| `WhatIsAnsweredLoads` | `Spec => AnsweredIsLoadable` | `Reliable` |
| `WhatIsListedIsCached` | `Spec => []ListedIsCached` | no `Shared`, no `Overlap`; `NoKeyTwice` |
| `ConnectorProofs`: `Inductive`, `TypeCorrect`, `EveryBufferIsAccounted`, `NothingElseLeaks`, `ResultsMatchKeys` | `Spec => []Inv` and, from it, `[]TypeOK`, `[]BuffersAccounted`, `[]OnlyRaisingGetsLeak`, `[]ResultsArePositional` | the constants' types |
| `RoutesAgree`, `OnlyTheLeftOutFallBack`, `ZeroIsDefault` | `SameByEveryRoute`, `OnlyLeftOutFallsBack`, `ZeroMeansDefault` | the constants' types |
| `ConnectorSettingsAgree`, `ConnectorSettingsFallBack` | `Spec => []SettingsAreTheSame`, `Spec => []SettingsFallBack` | the constants' types |
| `ConnectorStoreProofs`: `PutsAreStored`, `StoreIsLeftAlone`, `NobodyIsStuck` | `Spec => []ReturnedPutIsStored`, `Spec => []NoUseAfterClose`, `Spec => []NobodyStuck` | the constants' types |
| `CountedPrefixesAreReadable` | `Spec => CountedIsReadable` | `Reliable` |
| `DemoHubProofs`: `NothingIsSkipped`, `OrderIsTheSame` | `Spec => []NothingSkipped`, `Spec => []SameOrder` | the constants' types |
| `NarrationProofs`: `NarrationInvariant`, `ClipsFitTheText`, `LengthsFitTheClips`, `OnlyTheUnsavedIsSpokenAgain` | `Spec => []NarrationInv` and, from it, `[]ClipsSayTheText`, `[]DurationsOfClips`, `UnchangedIsKept` | the constants' types; every version has a line |
| `TakeProofs`: `EveryCutIsInAPause` | `CutsThePause`, for every take | the constants' types |
| `LinesAreAlwaysCut` | `OneCutPerLine`, for every take, script and alignment | words in order (several may be spelled out of one), matches in order, silences that do not end before they start |
| `SentencesAreAlwaysWhole`, `FaultsComeLast` | `SentencesAreWhole`, `FaultsAreLast`, for every script and all takes | one take at least |
| `TakesAreCutInPauses`, `TakesAreCutIntoLines`, `SentencesComeFromOneTake` | the bounded forms the run checks: `Spec => []CutsAreInPauses`, `[]LinesAreCut`, `[]SentencesFromOneTake` | the constants' types |

`UniformShardSize` and `ContentAddressed` are the assumptions above; without the first,
`mixed_sizes` refutes `NoTornRead`. The theorems that need it say so in their statement.

*The store's argument.* `NoTornRead` speaks of answers and is not inductive. A
read joins whatever documents it finds, at different times, so the invariant must
say of *every* document and pending mutation what it may be. That is `Provenance`:
what is at `<<k, i>>` is nothing, or what `put_bytes` of some server writes there
for some payload of `k`; the locals of each call are tied to its program counter.
It is inductive on its own. With one shard size and one payload per key there is then
only one possible slice at each index (`UniformWritten`), so whatever happened in
between, a read in progress holds the payload's first shards (`PartsOK`). The check of
every shard and of the total length does the rest: `ShardsReassemble`, from
`ShardCountBounds`, shows that this many shards of this total are the payload.
`ManifestsAreComplete` needs another invariant, `ShardsFirst`: a writer has
written the shards before the one it is at, a manifest pending on the server has its
shards, and nobody removes. The lemma `ManifestUpsert` is the heart: when the manifest
is due, all its shards are there, by the round-up division of line 141.

`StoredIsReadable` adds what a client that has returned relies on (`StoredStays`: its
documents are at its keys and nothing removes them). `ReadableIsHit` is an action
property: the shard a read is about to miss is among those of the manifest it holds. It
also needs `OpenCalls`: a call under way has not answered yet.

*The refinement.* A chunk is cached when the document at its key exists; a client's
request is a function of its program counter, its answer of what it returned. The proof
shows for each action that it maps to one action of `ChunkCache` or to none, by cases on
the visible write: the manifest's or the unsharded upsert is `Commit`, a removal's
remove at the chunk's own key `Remove`, the last of its shard removes `Swept`; the other
shard writes and removes change nothing. It needs `PartsOK` and `NoTornRead`, because a
torn hit maps to a reply `ChunkCache` does not have; `NoEmptyPayload`, because a removal
that removed something answers with a size above zero; and in the reliable case
`ShardsFirst`, because there a read that holds a manifest must hit.

*The adapter's argument.* `Inv` adds to the two properties the bookkeeping they
rest on (`Books`): a dictionary of kind *q* holds only published tasks of kind
*q*, only published tasks are fetched, and task ids are given out in order (so a
new task is in no dictionary). `WakeKeeps` shows why a wake-up resets the fd without
loss: every published result not yet fetched is among the tasks LMCache then asks
for. `FinishKeeps` is the other half: between publishing and signalling, the
coroutine itself is the witness. Everything that does not touch dictionaries or fds is
one lemma (`OffTheBooks`), so that part holds for any store, pool and close.
`PoolInv` is the pool's half: a queued job is that of a started task, unanswered,
and in the queue once; a job at the store is running and unanswered; so an answer is
never given twice, which makes `gather`'s results final. `NoUseAfterClose` is not
inductive by itself: it needs that the queue is empty from the shutdown on and that
`CloseStore` waits for `running` to be empty.

`PlacesOK` is the other direction of `PoolInv`: a job a coroutine waits for is queued, at
the store or answered, and whoever has a thread is at the store. `Start` queues a job for
every key, `TakeJob` and `Work` move one on, and the shutdown that empties the queue
loses the tasks it belonged to in the same step. With it
`ResultsAreNotLost` follows, and `NoDeadlock` by following what LMCache waits for: a
submitted task needs the loop, a waiting one a job (queued: a thread is free or
somebody is at the store) or all its answers, and a published one a poller, for which
`NoLostWakeup` is the fact. `LifeOK` says that only `close` ends the loop and
loses tasks. `CacheInv` is for `AnsweredIsLoadable`: in
the reliable case no job removes, so what a job found or was told of stays cached.

*The connector's argument.* `BuffersAccounted` is not inductive: a prefetch that returns
moves buffers from gets to results by position. `Inv` is `TypeOK`, `CallsOK` (calls
are numbered; only returned calls have results), `JobsOK` (what is queued or
answered is a job of a started call), `FetchesOK` (a get's outcome is passed
on when, and only when, its call returns), `BuffersAccounted` and `ContentsOK` (who has a
buffer finds there the chunk it asked for). The last is what makes results
positional: a buffer is only filled when it is free. `StoreInv` (a job at
the store asks about its own key; in the reliable case an answer "stored" means cached;
a returned put has all of its chunks), `CountedInv` (in the reliable case a "yes" and a
counted key are cached) and `PoolInv` (after close, the queue is empty and nothing runs)
are inductive on top of it. `NobodyIsStuck` needs that no job of a call that is
waited for gets lost between the queue, a thread and its answer, and that
`close`'s own job is queued as long as `close` waits for it (`PlacesOK`), and
that a fetch is answered with what its coroutine goes on with (`FetchJobsOK`). The cycle
that `close` could close (the loop waits for the pool to drain, coroutines wait for the
loop, the pool for nobody) is broken at the pool, whose threads never wait for the loop.

*The adapter's refinement.* `RefInv` is the conjunction of the invariants above and
`GivenUpOK` (who gave up is a delete). Each step of a thread is one step of the service or
none: `SubmitServed`, `StartServed`, … have one lemma each. The map is a CASE over phases,
so `StateIs` says what a task's state is and `SameState`, `OneState` that a step of one
task leaves the others' alone. The places where something could go wrong are where
the facts are needed. `Resume` is `Complete` because `gather` has all replies; `TakeJob`
is `Begin`, which looks after a key once, because a queued job has no reply and its task
is still waited for or given up; `Query` collects only ready tasks because the dictionary
holds published ones only; and `CloseStore` is `Closed` because nothing runs.
`TaskService` has no task in two places, so a result cannot be fetched twice.

*Deletes and stores of one chunk* (`WhatIsListedIsCached`). `ListedIsCached` exempts
chunks being deleted, and a delete is many steps: `EvictInv` says
what holds in between. A chunk that is in doubt stays so, and nothing is said of it. Any
other listed chunk is cached or has been taken out by a job of the
delete under way (`ListedThere`); a chunk of a delete is cached until its own job takes
it out (`Evicting`), which then answers that it removed it; and a chunk that is
being written, or has been and is not listed
yet, is of no delete that could still take it out (`Writing`). The last is what orders the
listeners' calls of the two threads: LMCache deletes only what is listed, so a chunk
deleted while it is written was listed before, its store found it absent, and therefore
the delete's job was already through with it. `Alone` (one delete, one store of a
chunk) and `OwnJob` (a job asks what its task is for) carry the cases.

*The demo's argument.* `HubInv`: a stream is in the list exactly from `subscribe` to
`unsubscribe`, and once (`ListedOnce`); a stream outside it is owed nothing
(`NothingEarly`); one inside it is owed what its queue holds, and one more while the
publisher with the lock has not come to it (`Accounted`). `publish` walks over positions
of the list, so removal, which moves the streams behind, preserves it only because it
needs the lock. `SameOrder` is inductive on top of it: an event is pending for all
subscribers from the moment its publisher takes the lock, so `Acquire` adds it at the end
of every `Pending(i)` and `Put` changes none; a stream that writes loses its first, which
no other stream's end depends on; and a new stream has nothing pending.

*The scripts' argument.* A run knows of runs before it only through files, so
`NarrationInv` says what each file that describes others can be trusted with after any
stop. `HashesFit`: a clip in use that is not loose is chirp's and says what `hashes.json`
has for it. `DigestsFit`: a take that is not loose is of the script of its digest.
`CandidatesFit`: the clips `candidates.json` speaks of are there, and those not loose are
the ones it measured and say its script. `RunFits` says the same of the run under way, line
by line (`LineFits`) and take by take (`TakeFits`, `CutsFit`): what it has done is right
unless it was misled. The properties speak of runs that have ended and follow.
`UnchangedIsKept` follows from `HashesFit`: a clip of chirp's that is not loose has the hash
of its text, so the run keeps it.

*Functions of data.* `quietest` is a loop, `sentences` and the choice of a take are
folds, `cut_points` walks from line to line. What they compute for every input is proved
without an induction rule, from least counterexamples: the lemma `Least` (a set of
numbers that is not empty has a least one, by `WFMin` on the intervals below them) gives
the first position at which a claim fails, and the step from the position before
contradicts it. The functions themselves exist by the same argument (`LoopExists`,
`SumExists`, `GroupingExists`, `FlatExists`, `CuttingExists`). Sorting is about ranks:
`PlacesAreTaken` and `FirstPlaces` show that ranks of a finite set are 0, 1, 2, …, so the
`k` longest silences are `k` and their middles come out in order.
The proof of `LinesAreAlwaysCut` corrected its property three times: a cut is in half frames
and may be one above the bound first stated; two cuts within one word may cross; and a cut
between two lines that share a long word spelled out may be as far as that word's end.

*Only model-checked:* the six properties that need fairness (`StoreLeadsToReadable`,
`EveryTaskFetched`, `DeleteEnds`, `CloseEnds`, `GoneIsForgotten`, `StaysInformed`), which
are out of the prover's reach; `NoDeadlock` is the safety half of three of them. Every
other property of the passing runs is a theorem. `ResultsAreFinal` (a published
result is complete and stays) is a theorem no run checks: it is part of what
`ImplementsTaskService` says.

## Not modelled

* `put_many` is a sequence of `put_bytes`; `ping`, `list`, the `support_…` methods,
  `report_status` and the redacted configuration change nothing.
* TTL as time: a document may vanish at any moment, which includes its expiry.
  Compression, durability, transcoding and logging.
* Couchbase failover, rollback and replica reads.
* Listeners that raise, and the loop thread that survives `close()` when the loop
  was not yet running and then may signal a closed fd. The second is visible in
  the model as `loop = "running"` with `closer = "closed"`.
* A browser that stays connected and stops reading: its handler would block in a write
  while its queue grows.
* `tts.py --resplit`; the reading of durations by ffprobe (a clip's length is the clip);
  what ffmpeg says to a clip that ends before it starts; how `int(cut * 100)` truncates a
  float.
* `demo/record.py`: one browser session driven step by step; it keeps no state.
  `examples/`, the end-to-end and TTFT benchmarks, containers, `docs/`, the demo's static
  page (but for its retry): sequential scripts, text, and no state of their own.

## Plan

Done: every component of the package and the two programs beside it that keep state, both
refinements, and a theorem for each property of a passing run that is not under fairness.
Left:

1. Listeners that raise as a failure of `Resume`; the fds' lifetime.
2. A specification of the connector in the manner of `TaskService`, which would have to
   say what a `batched_get` that raised leaves behind.
3. `tts.py --resplit`, which cuts whatever take is there, also one of another script.
