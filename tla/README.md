# Verification of vllm-qaic

vllm-qaic is a vLLM platform plugin that serves models on Qualcomm Cloud AI
cards.  Most of it prepares and compiles models; the part that is hard to get
right is what happens at run time between the vLLM scheduler, the worker
process, the execution objects ("exec objects", slots) of the device runtime
(LRT), and, in disaggregated serving, other processes that receive KV caches and
encoder embeddings through shared memory.  The modules here model that part.

## Inventory

Paths are relative to `src/`.

| Component | State | Operations | Interacts with |
|---|---|---|---|
| **Exec-object session** `vllm_qaic/model_loader/qaic_session_np.py` | `prefill_available_exec_objs` (a FIFO `Queue` of slots), the decode slot, buffers set per slot | `np_run`, `np_run_pipeline`, `complete_inf`, `set_data_for_kv_handoff` | device runtime below, model above |
| **Model** `vllm_qaic/model_loader/qaic.py` | `active_ccl` (bucket in flight per slot), decode input buffers, the last mode | `forward`, `_run_prefill`, `_run_pipeline_prefill`, `_run_decode`, `_kv_handoff`, `_run_encode`, `complete_inf` | session, runner |
| **Runner** `vllm_qaic/worker/model_runner.py` | `execute_model_state`, `_pending_output`, `kv_caches` per block, input batch, encoder cache, `active_k` | `execute_model`, `sample_tokens`, `get_output` of the output objects, `_update_states`, batch reordering | model, connectors, vLLM engine |
| **KV connector** `vllm_qaic/distributed/kv_transfer/kv_connector/v1/qaic_connector.py` | `_request_tracker` (scheduler), `MemBank`, `shm_tracker`, `kv_caches` (worker) | `update_state_after_alloc`, `build_connector_meta`, `start_load_kv`, `save_kv_layer`, `cleanup_callback`, `get_kvcache_from_store`, `send_kv_cache_to_store` | hand-off server (external), shared memory, the other node |
| **EC connector** `vllm_qaic/distributed/ec_transfer/ec_connector/` | `_mm_datas_need_loads`, `_loaded`, `mem_bank`, pins in the store | `has_cache_item`, `start_load_caches`, `free_caches`, `save_caches` | EC store (external), encoder cache of the runner |
| **Speculative decoding** `vllm_qaic/spec_decode/` | draft KV positions, pending prefills, per-request position counters | `propose`, `build_prefill_pending`, garbage collection of finished requests | runner |
| **Samplers** `vllm_qaic/v1/sample/` | none | rejection sampling kernels | runner |
| **Worker** `vllm_qaic/worker/worker.py` | life cycle of one worker process | device and distributed initialisation, loading, cache size, warm-up | engine, runner |
| **Compilation and loading** `load_qaic_model`, `_get_qaic_compile_config`, `get_hf_model` in `qaic.py` | the override dictionary, the QPC and its specialisations | download with retries, export, compile, open | hub, compiler, session |
| **Configuration** `vllm_qaic/platform_base.py` | vLLM's scheduler and cache configuration | `check_and_update_config`, once for the target and once for a draft model | runner, loader |
| **Multimodal** `vllm_qaic/model_loader/qaic_multimodal.py` | encoder outputs | `parse_and_validate_multimodal_raw_input`, `embed_multimodal`, `_process_vision_embeds`; `_gather_mm_embeddings` of the runner | vision QPC, encoder cache |
| **Expert router** `csrc/grouped_topk_router/` | none | top-k of experts per token on the vector unit | torch op |
| **CI job scheduler** `ci_scripts/scheduler.py` | device pool, quarantined devices, gates, jobs | `try_acquire`, `release`, `_claim_gates`, `_execute_job` | its job threads |
| LMCache connector, other `csrc` kernels, attention back ends, patches, eager mode | none at run time | tensor computations, monkey patches | torch, vLLM |

What makes the behaviour hard:

* The worker submits prefill chunks asynchronously: a batch's chunks are pending
  on *its* queue while the pool of slots is shared with the batches before and
  after it, and a batch may be completed by the engine's `get_output()` or early
  by the worker itself when the pool runs dry.
* vLLM runs `get_output()` on a thread of its own, so both may complete the same
  batch at once.
* Errors of the runtime are raised in the middle of a submission.
* In disaggregated serving a KV buffer is a shared-memory segment that one
  process creates, another attaches and unlinks, and a third (the hand-off
  server) names; the buffers must outlive the device's use of them.
* Requests are aborted, encoder entries are evicted, blocks are reused.
* Rows of different kinds and widths share one batch, one set of decode buffers
  per width and, with asynchronous scheduling, an input the host never sees.
* A proposer keeps a KV cache of its own that must follow what the target
  accepts, through steps in which nothing is drafted.
* At start-up the configuration is rewritten twice over shared objects, and
  ports, hub, compiler and device may refuse.

What makes each component correct:

* *Session and model*: a slot is never lost or leased twice, never reused while
  the device runs it; a chunk's bucket covers its prompt and is not below one in
  flight; every submitted batch completes; nobody blocks on an empty queue.
* *Runner*: a batch's KV cache is saved once; results are delivered in order;
  no state of the next batch is used for the previous one.
* *KV connector*: a buffer is not released while a device uses it; a request
  loads the KV cache computed for its own prompt; every segment is unlinked
  once; the number of attached segments is bounded.
* *EC connector*: a loaded embedding stays pinned while it is used and is
  unpinned once; every segment and pin a failure leaves behind is accounted for.
* *Mixed serving*: no token of one request reaches the cache or the result of
  another; every position stays in the context; results are collected before the
  batch they belong to changes.
* *Speculative decoding*: the proposer's cache and its counter follow the tokens
  the target has accepted, and no draft leaves the drafter's context.
* *Kernels*: sampler and router return what their definitions say for every
  layout of the arrays; each scheduled image position gets its own embedding.
* *Start-up*: the process that serves agrees with itself (widths, chunk, budget,
  cores, cache) across configuration, runner, QPC and draft model, and every
  start-up ends.
* *CI scheduler*: a device runs one job at a time, released devices come back,
  a job whose needs can be met is started.

## Modules

| Module | Models |
|---|---|
| `PrefillPipeline` | the session's pool, the model's buckets, the runner's asynchronous batches of a prefill node |
| `ExecLease` | what the pool promises: a slot is leased to one batch, runs only when leased, is returned only when it has finished |
| `MCPrefillPipeline` | constants for TLC |
| `PrefillPipeline_proofs` | types, life of a batch, conservation of slots, the refinement of `ExecLease`, buckets, saves, and that nobody stalls while the engine collects between two calls of the worker, for every instance of `PrefillPipeline` |
| `KVTransfer` | the KV connector on a prefill and a decode node, with the calls of the runner around a forward pass, shared memory, and the external store, devices and schedulers |
| `KVHandoff` | what the hand-off promises: a buffer is created, computed, stored, loaded by one request for the same prompt and released, in this order, and exists while a device uses it |
| `MCKVTransfer` | constants for TLC |
| `KVTransfer_proofs` | its invariants, its action property and the refinement of `KVHandoff`, for every instance |
| `MixedServing` | the runner and the model of a decode or mixed node: reordering, padding to a width, prefill, decode and encode passes, execute/sample hand-shake, asynchronous outputs |
| `SpecDecode` | the KV caches of the draft model and of DFlash across steps |
| `ECTransfer` | the EC connector on an encoder and a language node, with the external store and encoder cache managers |
| `Startup` | one process from its configuration to serving: configuration, distributed initialisation, download, compilation, opening, cache, warm-up |
| `RejectionSampler`, `GroupedTopk`, `MultiModal` | pure algorithms: the host rejection kernels, the expert router, the path of vision embeddings |
| `MCMixedServing`, `MCSpecDecode`, `MCECTransfer`, `MCStartup` | constants for TLC |
| `Kernels` | one task at a time for the three algorithm modules, and the definitions their results are compared with |
| `MCKernels` | their inputs for TLC |
| `CIScheduler` | the CI job scheduler: main scan, job threads, gates, device pool and quarantine |
| `MCCIScheduler` | lists of jobs for TLC |
| `CIScheduler_proofs` | the order the gates enforce and the exclusive use of devices, for all lists of jobs |
| `MixedServing_proofs`, `SpecDecode_proofs`, `ECTransfer_proofs`, `Startup_proofs`, `Kernels_proofs` | theorems about the module of the same name |

### PrefillPipeline

One action per step of the code that another thread can see.  Two threads have
a program counter (`pc`), a batch (`cur`) and a slot at hand (`idx`): the
**worker** in `execute_model()` / `sample_tokens()` and the **engine** in
`get_output()`.  Both run the same completion code (`GetOutput`, `DrainTest`,
`PopPending`, `WaitCompletion`, `ClearCcl`, `FinishOutput`), the worker also the
submission code (`StartExecute`, `ChooseBucket`, `NextChunk`, `TakeSlot`,
`RecordChunk`, `SampleTokens`).  The device finishes its slots in any order.

Correspondence of the state:

| Variable | Code |
|---|---|
| `pool` | `QAICInferenceSession.prefill_available_exec_objs` |
| `running`, `bound` | the device: enqueued exec objects and the `comp_ctx_lengths` set for each |
| `active_ccl`, `chosen_ccl` | `QaicCausalLM.active_ccl`, local `chosen_ccl` |
| `pendq[b]` | `pending_exec_queue` of batch `b` |
| `out[b]` | life of its output object; `"done"` is `_output is not None` |
| `saves[b]` | calls of `_save_kv_and_finalize_connector_output` for `b` (history) |
| `need[b]` | `batch_max_position` of `b` (history) |
| `pending_out` | `QaicModelRunnerAoT._pending_output` |
| `outq` | the engine's batch queue |

`Threaded` says whether the engine calls `get_output()` on a thread of its own.
The pinned vLLM (v0.23.0, `pyproject.toml:171`) does; the code reads as if it did
not.  The safety properties are checked with the thread and say what is true with
it, too: `complete_inf()` returns a slot before it clears the slot's record
(`qaic.py:1076`), so the record of a chunk in flight may be *missing*
(`Erased(s)`), but is never that of another chunk (`BucketsMirrorFlight`), and a
chunk starts only below one whose record is missing (`NeverBelowInFlight`).  A
second save of a batch needs two calls of `get_output()` that overlap, and a call
that begins after a save finds it (`SavedOnce`).  Without the thread `Erased` is
false and one save is all there is.  Only `NoStall` needs the engine without a
thread.

A handle in `Batches` is reused for a new output object once the engine has
collected the old one; `Batches` has as many handles as the engine's queue
(`max_concurrent_batches`) has places.  The prompt data, logits, and the
contents of KV buffers are not modelled.  The synchronous mode gives the KV
cache to the connector when it leaves `execute_model()`; the model does so in
`SampleTokensSync`, before which nothing reads it.

### KVTransfer

Two workers with one thread each (`p_pc`, `c_pc`), their devices, and the store.
A step of the worker is one action per part another process can see:
`PExecute` (the connector's scheduler side and `start_load_kv()`), `PForward`
(submission and the cleanup callback), `PCollect` (a completed batch is to be
saved: the engine collects the oldest, the worker drains the latest; a last chunk
whose block has no registered segment fails the assertion of the session, and the
node raises), `PPut`
(one request of `save_kv_layer()`, again while the store is full), `PSaved` and
`PDeliver` on the prefill node; `CSchedule`, `CLoad`/`CMiss`, `CForward`,
`CStartSave` (with the forced cleanup), `CSave`, `CSaved` on the decode node.

| Variable | Code |
|---|---|
| `tracker` | `QaicConnector._request_tracker` |
| `p_bank`, `c_bank` | open segments of the `QaicKVCacheBank` |
| `p_kv`, `c_kv` | `kv_caches` (per block) |
| `p_shm`, `c_shm` | `shm_tracker` |
| `linked` | names in `/dev/shm` |
| `content` | whose KV cache the device computed into a segment (history) |
| `store` | the hand-off server |
| `batches` | output objects the engine holds; `saved` is `_output is not None` |
| `got`, `c_use` | segments loaded, and given to the device with the decode |

A request that reaches its last chunk gets one segment, which has the name of
the request.  The connector's scheduler side and the worker's
`start_load_kv()` run in one action: the engine waits for the worker between
them.  External, modelled from how `src/` uses it: the store keeps entries in
the order of the PUTs and a GET removes one entry with the key; vLLM gives each
request one block and frees that of an aborted request at once; the router sends
a request to the decode node when its prefill output was delivered; the device
binds a segment at the submission and finishes in any order.  A restart of the
decode node is not modelled.  The output thread is the subject of
`PrefillPipeline`.

### MixedServing

One engine step is `Execute*` (update of the batch, reordering, drafts, input
preparation, forward pass), `SampleTokens*`, and `Collect` (the engine takes the
oldest output).  `mode` chooses one of five configurations of the runner: n-gram
drafts (widths 0 and K), a draft model (width K), a `kv_consumer`, asynchronous
scheduling without speculation, and a pooling model.

| Variable | Code |
|---|---|
| `rows`, `table`, `prev` | `InputBatch.req_ids`, `token_ids_cpu`, `prev_sampled_token_ids` |
| `kv`, `slot` | the device's cache per block; block of a request |
| `buf[k]` | `decode_batch_inputs_by_k[k]` |
| `encoded` | `_encode_merged_inputs`, `_encode_prefill_cum_sum` |
| `state` | `execute_model_state` |
| `pending` | `_pending_output` is set |
| `outs` | output objects the engine holds, with `_output` once computed |

A token is the request it belongs to (or padding, or junk), so "a wrong token in a
cache or a result" is a visible state.  External: the scheduler (which requests,
how many tokens, how many drafts), how many drafts the target accepts, and the
compiled model, whose logits at a position are right when all entries it attends
to are.  The draft token ids are read back from the padded inputs of the decode
pass (`DraftIds`, at the offsets of `CuPadded`), as `execute_model()` does for the
sampler; `OutputTrue` says that the sampler is given the scheduled drafts, and the
logits of the row.  With 4 positions two drafts are never both accepted in one step; that
case is `SpecDecode`'s.  The asynchronous output is collected in one action; the
races of an output thread are `PrefillPipeline`'s.

### SpecDecode

A step is what happens between two schedules: the target runs chunks and
verifies drafts, `sample_tokens()` commits, the proposer moves its cache.
`kv[r]` is the set of positions whose entry in the proposer's cache was computed
for the token (or target state) the sequence of `r` has there; `counter` is
`position_counter` of DFlash.  `Loses` names the three ways in which the code
is known to lose track (see "What does not hold"); `DraftContext` and
`CounterTracks` are about everything else.  `GateOpen` is the batch-wide gate of
`sample_tokens()`.

### ECTransfer

Two nodes with one thread each.  `EAdmit`, `EExecute`, `ESave`, `EPut`, `EGather`:
the encoder node's scheduler, `_update_states`, the encoding and `save_caches()`
of each hash, the PUT retried while the store is full, the check of the
gathering.  `CAdmit`, `CExecute`, `CFree`, `CFreed`, `CLoad`/`CMiss`, `CGather`,
`CFinish`: the same on the language node, with PEEK at schedule time, GET (which
pins) before the forward pass and UNPIN when the scheduler evicts the hash.
`CRestart` stops and restarts the language node.  `stored` and `pins` are the
store, which may evict entries nobody has pinned.

The store may answer any call `RESP_ERROR` (`Denied`, at most `StoreErrors`
times): a PUT so answered ends the loop, and the node closes its handle of a
segment that nobody names (`refused`); a PEEK makes the language node encode the
image itself; a GET raises without another try; the answer to an UNPIN is not
looked at, and the pin stays.  History: `errors` counts the refusals, `stale` has
the hashes evicted or denied after a PEEK found them.

### Startup

One sequential process; `phase` is where it is, and each phase has an action for
success and one per way to fail.  `launch` is what the user asked for; `config`
the scheduler, cache and override objects the target shares with the draft
model; `runner.ks`, `models.target.ks`, `.buffers`, `.lens` the decode widths as
the runner, the model and the QPC know them.  The device is assumed to reject an
execution whose length is not in the QPC.  Not in the launches: Whisper,
`skip_vision`, dynamic image resolution, `kv_both` (a "decode" cluster that the
connector refuses), device groups and QPC paths from environment variables.

### RejectionSampler, GroupedTopk, MultiModal

Operators without state, translated loop by loop: flat arrays with cumulative
ends and one output row per request; a vector register as a function over its
lanes, with the block-and-tail loops and the bitonic network; patches and tokens
as pairs, so that a misplaced one is seen.  A prompt comes with the batch its images
are encoded in, in any order and every image once; an image occurs in a prompt as
often as it likes.  Floating-point rounding is left out:
scores are small integers and the ratio test is exact.  In the router, scores at
or below -65504 would tie with the padding; the inputs stay above.

### CIScheduler

The main thread scans the pending jobs under the condition `cond` (`MainWakes`,
`Dispatch`, `PassOver`, `MainWaits`); a job's thread ends its process
(`ProcessEnds`), takes `cond`, opens its gates and checks its devices and those
in quarantine (`StartRelease`, `CheckReady`, `CheckFails`, `FinishRelease`).  A
check may also run into its timeout (`CheckTimesOut`): `release()` then knows that
the device is not ready, but leaving the context of the `ThreadPoolExecutor` waits
for the check's thread, so the release, which holds `cond`, goes on only when the
check returns (`CheckReturns`), which may be never.

| Variable | Code |
|---|---|
| `status`, `device_ids` | `Job.status` (with the phases of `_execute_job()`), `Job.device_ids` while the job has them |
| `export_gate`, `compile_gate` | gates that are set |
| `cond`, `scan` | holder of the condition, position of the scan |
| `free`, `quarantine`, `cooling` | `DevicePool._free`, `_pending`, devices with `_cooldown_until` in the future |
| `candidates`, `ready` | locals of `release()` |
| `wedged` | the device whose check has timed out and has not returned |

The process, its log and the order in which Python iterates a set are
nondeterministic.  An exception out of `_print_job_log()` is not modelled
(PROJECT.json lists it as a hazard, at line 333).

## Runs

| Run | Instance | Shows |
|---|---|---|
| `pipeline_async` | 3 slots, 2 handles, batches of 0 to 3 chunks, 2 buckets, no threads, fair | every batch that is submitted completes |
| `pipeline_threads` | 2 slots, 2 handles, output thread, failing device | slots are conserved and leased to one batch (`ExecLease`); buckets cover prompts; a record is missing at worst, and a chunk starts below no other; KV caches are saved once unless two calls overlap, and never by a later call; also when calls raise |
| `pipeline_sync` | 2 slots, synchronous | a batch larger than the pool never blocks |
| `kv_async` | 3 requests, two with one prompt, 2 prefill blocks, 1 decode block, asynchronous nodes, aborts | segments outlive devices, loads are computed and match, nobody raises (no last chunk is submitted without a buffer, no lookup, attach or unlink fails), the hand-off refines `KVHandoff` |
| `kv_faults` | 3 requests, 1 prefill block, 2 decode blocks, a store of one entry, synchronous nodes, failures, kills, restarts, refused PUTs, fair | segments are loaded once, the forced cleanup bounds the open ones, every prefilled request is decoded unless a node raised or an orphan fills the store |
| `ec_transfer` | 4 requests, 3 images, store of 2, caches of 2 and 1, one restart, one call answered `RESP_ERROR`, fair | views stay pinned, nothing scheduled is lost, every segment and pin left behind is accounted for, every request is served unless a load failed or a pin was lost |
| `ci_mixed` | 5 jobs, four of one model and one of none, 3 configurations, 3 devices, 2 checks that fail or hang, fair | devices are exclusive and never lost, cold jobs first, every job ends unless a check fails or hangs |
| `spec_decode` | 2 rows, prompts of 2, 5, 8, chunks of 3 and 4, K = 2, drafter one position shorter than the target | the proposer's cache holds what it drafts from, its counter follows, drafts stay in the context |
| `dflash_tracks` | as `spec_decode`, DFlash | **violated**: a closed gate at the last chunk leaves the counter one ahead |
| `serving` | 3 requests, 2 cache slots, K = 2, 4 positions, 5 configurations | caches and results hold the right tokens, the sampler gets the scheduled drafts and the row's own logits, hand-shake and context are respected |
| `kernels` | 2 requests with 0 to 2 drafts, vocabularies of 3 and 5, vectors of 2 lanes; routers of 3 to 12 experts, 0 to 7 tokens on 1 to 5 threads; 2 images in up to 3 places, every window of a prompt, also one with more embeddings than compiled rows | each algorithm equals its definition |
| `startup` | about 7,000 launches in families, each with every answer of the outside | what serves is coherent, every start-up ends |

Why these bounds are enough: a batch can have more chunks than there are slots
(it recycles its own), fewer (the next batch shares the pool), and none; two
buckets and two prompt lengths give a batch that needs less, and one that needs
more, than what is in flight, and a prompt no bucket covers.  Two handles are
the batch queue of asynchronous scheduling: one batch being collected, one
being submitted.

In the KV runs three requests are enough for two that share a prompt and
exchange their segments and one that reuses a block; `kv_async` has batches of
two last chunks, `kv_faults` steps that load two segments and a store that is
full after one PUT.  `force_clean_up_threshold = 0` makes the cleanup run as
often as it can, and two lookups (`KV_LOOKUP_RETRIES`) show a retry.  Names of
segments never repeat in the model; in the code they do after a million.  A
failing asynchronous prefill node is in no run (`PDeviceFails` then raises
without saving).

In `ec_transfer` three images compete for two entries of the store and one of
the language node's cache, and a fourth request has the first one's image: every
hash is evicted and wanted again; the one refused call may be any PUT, PEEK, GET
or UNPIN of the run.  In `spec_decode` chunks are and are not
multiples of the block of three, prompts are shorter and longer than a chunk,
and the gate closes when one row comes near the end while the other is anywhere.
In `serving` two requests may start on one slot one after the other, prompts take
one step or several, and rows with and without drafts meet in a batch.  In
`ci_mixed` two jobs share a configuration, two another one of the same model,
and one has no model; two checks that fail or hang put two of three devices in quarantine.
The sampler's lanes are two (32 in the code) so that blocks, tails and ties
across blocks occur with five elements.  The launch families of `MCStartup` each
vary what interacts (widths against roles and given QPCs, draft models against
contexts and device groups, exclusive features, pipelines and compile-only) and
hold the rest.

`CHECK_DEADLOCK FALSE` is used where the system may stop: a raised error stops a
thread, and the KV, EC, CI and speculative runs end when all requests or jobs
have been served.

### What does not hold

Statements of the source, and natural expectations, that TLC refutes.  One has a
run (`dflash_tracks`, listed as a finding); the others are reproduced with the
constants given here and the property as the only one checked.

| Claim | Definition and constants | What happens |
|---|---|---|
| "keeps tracking the TLM instead of freezing" (`dflash_draft_model.py:381`) | `SpecDecode!KeepsTracking`, run `dflash_tracks` | the last chunk sets the counter to the last prompt position; with a closed gate the same step adds one more |
| "all simultaneously-in-flight chunks share one CCL" (`qaic.py:622`) | `PrefillPipeline!InFlightShareOneCcl`, `PipelineAsync.cfg` | only the new batch is raised, chunks already in flight keep their smaller bucket |
| a queue seen not empty has something to pop (`model_runner.py:1004`) | `PrefillPipeline!NoStall`, `PipelineThreads.cfg` with `DeviceFails = FALSE` | the worker and the output thread drain the same batch: both see a queue that is not empty, one takes the last chunk, the other waits for its timeout (`model_runner.py:1005`) |
| "Decode will load populated KV buffers" (KV `qaic_connector.py:15`) | `KVTransfer!LoadsPopulated`, `KVFaults.cfg` | a synchronous prefill that raises still stores its segments (`finally`, `model_runner.py:2090`) |
| "run all checks outside the lock" (`ci_scripts/scheduler.py:133`) | `CIScheduler!ChecksOutsideLock`, `CIMixed.cfg` | `release()` is called inside `with self.cond` (line 337) |
| the store owns the segments (`release_Storage()`, KV `qaic_connector.py:318`) | `ECTransfer!StoreOwnsSegments`, `ECTransfer.cfg` | `close()` releases with the default `unlink=True`; the store still names them |

The output thread is real: the pinned vLLM (v0.23.0) completes asynchronous
outputs on one.  What else it does is allowed for in the properties, which would
be stronger without it:

* the slot is back in the pool before its record is cleared (`qaic.py:1076`): the
  late clear erases the record of the slot's next chunk, and a batch may then be
  submitted with a bucket below it (`Erased`);
* two threads pass the test of `_output` (`model_runner.py:195`) and both save the
  KV cache: `SavesBounded` allows two.

Seen while modelling, without a definition:

* a PUT answered `RESP_ERROR` is taken for stored (`qaic_connector.py:433`), and
  the decode node's lookup then gives up and raises;
* the request that next uses the block of a request aborted in flight
  overwrites the registration `start_load_kv()` warns about
  (`qaic_connector.py:568`);
* with a store smaller than a batch the prefill node waits in PUT for ever, and
  so it does when entries of dead or aborted requests fill the store; the same
  with pinned entries of the encoder-cache store;
* a kill of the prefill node makes the decode node raise when it attaches or
  unlinks a segment the resource tracker has removed;
* a PEEK of the EC connector pins nothing: the entry may be gone at the GET;
* a PUT of the EC connector that is answered `RESP_ERROR` is taken for stored (EC
  `qaic_connector.py:388`): the node closes its handle without unlinking, and the
  segment stays for ever; an UNPIN so answered leaves the pin;
* a readiness check that times out keeps `release()` inside its executor, with the
  scheduler's condition held, until the check returns
  (`ci_scripts/scheduler.py:55`);
* a device that fails its check at the last running release stays in quarantine
  and jobs that need it never start (`ci_scripts/scheduler.py:148`); a job that
  needs more devices than there are keeps `run()` waiting;
* a draft model is not run while the gate is closed and never catches up, and a
  ragged DFlash chunk overwrites the entry of position K (`dflash_draft_model.py`,
  padding of -1 plus the block size); the draft loop decodes rows that are still
  in prefill from the end of their prompt, which the gate does not look at;
* `np_run()` logs a failed enqueue and returns index 0
  (`qaic_session_np.py:586`);
* building the drafter's configuration runs `check_and_update_config()` over the
  shared cache configuration and, for a draft model, the scheduler's: a draft
  with a shorter context shrinks the cache's block size and, without chunked
  prefill, the budget below `max_model_len` ("budget must fit
  max_model_len", `platform_base.py:358`);
* the cores of a device are divided for a draft model only when the device
  groups are equal, and not for DFlash: overlapping groups oversubscribe;
* `_decode_ks_from_session()` cannot see a decode width whose length equals the
  prefill chunk's;
* `compile_only` with DFlash leaves before the draft model is compiled, and
  `compile_only` in the target's override alone fails in the warm-up;
* a `kv_producer` without `stages` fails in `int(None)` instead of a message;
* the token budget does not count the padding of n-gram and suffix rows to
  K + 1 tokens (`platform_base.py:347`);
* a pooling model for which a `speculative_config` is given is not refused: the
  runner plans decode widths that the QPC, compiled for prefill only, does not
  have;
* `_pad_or_crop()` crops an image of more patches than the encoder was compiled
  for.

### Fairness

`FairSpec` assumes that the device finishes every slot it runs (weak fairness
of each `DeviceFinish`), and that a thread inside a call keeps executing (weak
fairness of `Worker` and `Engine`).  `EngineCollect` is strongly fair: without an
output thread it competes with the worker for the same loop, which collects the
oldest batch whenever its queue is full or nothing new was submitted.  Nothing
obliges the scheduler to send a batch.

For `KVTransfer`: workers go on (`PBack`, `CStep`) and devices finish (weak); the
decode node's scheduler admits a waiting request that can be admitted again and
again, and decoding requests finish (strong: both compete with steps that only
go on decoding).  No refusal of a PUT is ever obliged to happen.  `Decoded`
needs a store with an entry per prefill block.

For `ECTransfer` each engine is a busy loop in a process of its own (weak
fairness per node, of its steps that are not refused: nothing obliges the store to
answer `RESP_ERROR`); `Served` needs a store with an entry more than the language
node can have pinned, and excepts a load that failed and a pin that a stop of the
node or a refused UNPIN has left (`PinLost`): it takes an entry for good.  `Startup` is one process that takes its next step (weak).

For `CIScheduler`: the operating system runs the main thread and each job's
thread although they compete for the condition (strong), processes end because
they have a timeout, and time passes (weak).  A check that hangs is not obliged to
return; `AllJobsEnd` excepts runs in which a check fails or hangs.

## Proofs

Every theorem holds for all values of the constants the modules' `ASSUME`s allow,
and for every behaviour of the specification without its fairness.  Where a
property needs a condition, the theorem states it.

| Theorem | States | Condition |
|---|---|---|
| `TypeCorrect`, `LifecycleCorrect`, `SlotsConserved`, `PoolIsIdle` | `TypeOK`, `BatchLifecycle`, `SlotConservation`, `PooledAreIdle` of the pipeline | |
| `PipelineImplementsLease` | `RefinesLease` | |
| `BucketSuffices` | `BucketCoversPrompt` | |
| `BucketsMirrored`, `BucketsGrowInFlight`, `SavedOncePerCall` | `BucketsMirrorFlight`, `NeverBelowInFlight`, `SavedOnce` | |
| `NeverStalls` | `NoStall` | no output thread |
| `KVTypes`, `LoadedAtMostOnce`, `BuffersStayOpen`, `SegmentsNotOverwritten`, `TrackerStaysBounded` | `TypeOK`, `LoadedOnce`, `BuffersOutliveDevice`, `NeverOverwritten`, `TrackerBounded` of the KV connector | |
| `LoadsArePopulated` | `LoadsPopulated` | asynchronous prefill node, or no failing forward pass |
| `NobodyEverRaises` | `NobodyRaises` | no failing forward pass, no refused PUT |
| `NodesImplementHandoff` | `RefinesHandoff` | no failing forward pass |
| `ViewsStayPinned`, `EmbeddingsFound`, `LeaksAccounted` | `ViewsPinned`, `EncoderHit`, `NothingLeaks` of the EC connector | |
| `CacheStaysTrue`, `OutputsTrue`, `HandshakeKept`, `PositionsInContext`, `MixedTypes` | `CacheTrue`, `OutputTrue`, `HandshakeHolds`, `InContext`, `TypeOK` of mixed serving | |
| `DraftsHaveContext`, `CounterFollowsTarget`, `DraftsStayInContext` | `DraftContext`, `CounterTracks`, `DraftRowsInContext` | |
| `ServingIsReady` | `ServiceReady` of the start-up | `Generates`: no launch of a pooling model speculates |
| `StartupTypes` | `TypeOK` of the start-up | |
| `RejectionIsRight` (`RecoveredIsResampled`, `SamplerAgrees`) | `RejectionAgrees` of the host sampler | |
| `EmbeddingsAreRight` (`WindowIsPlaced`) | `EmbeddingsPlaced` of the multimodal path | |
| `LaunchesAreShared` | the launch half of `RouterAgrees` (`LaunchesAgree`) | |
| `GatesKeepOrder`, `SchedulerTypes`, `OneOwnerPerDevice` | `ColdJobsFirst`, `TypeOK`, `DevicesExclusive` of the CI scheduler | |

The conditions are those under which the code keeps the promise, and none can be
dropped: TLC refutes `NoStall` on `PipelineThreads.cfg` with `DeviceFails = FALSE`
(an output thread is enough), `LoadsPopulated` and
`NobodyRaises` on `KVFaults.cfg`, the latter also with only one of the two kinds of
failure, and `RefinesHandoff` on `KVFaults.cfg`.  `DeviceFails` includes the restart
of the prefill node.  `Generates` is not checked by the code, which skips the warm-up
of a pooling model; no launch of `MCStartup` is of this kind, because a pooling model
has no tokens to draft.

`TypeOK` of `MixedServing` and of `Startup` is stated by a theorem and listed in no
configuration file; it holds in the instances of `serving` and `startup`, too.

Requests, batches and images may be
infinitely many; finite are, as in the code, exec objects, buckets, the blocks of
a decode node (`BlocksAssumption`: the bound of `TrackerBounded` counts the rows of
a step), the requests of `MixedServing`, and the jobs and devices of the CI
scheduler.

**Prefill pipeline.**  The inductive invariant is
`IInv == TypeOK /\ BatchLifecycle /\ SlotConservation`.  `SlotConservation` is not
inductive alone: that a new batch starts with an empty queue (so no pending slot
is dropped) is `BatchLifecycle`, which says that a handle the engine is not
holding has nothing pending.  One lemma per movement of a slot (pool to hand,
hand to queue, queue to hand, hand to pool) and one for the steps that move none.

For the refinement, `IInv` determines the lessee of every slot
(`HolderDetermined`), so that a step maps to `ExecLease` by who has the slot
before and after: taking it acquires, the return to the pool releases, an
enqueue runs it, everything else stutters.

The buckets: what is chosen covers the prompt (`BucketInv`), and every chunk in
flight is recorded with its own bucket or not at all (`FlightInv`).  A chunk in
flight is pending on a batch or in the hands of a thread that waits for it or has
just started it (`HandRecorded`, `RaisedIsIdle`), so the maximum the worker takes over the
records bounds all of them but the erased ones (`FlightBelow`).  The heart is
`ClearStep`: a late clear sets a record to 0, and only of a slot that was retaken
meanwhile, which needs a second thread.

The saves: those of a batch and the calls that are past its test of `_output` add
up to at most one per thread that can be in a call (`SavesInv`); a call begins only
while the batch is not done, hence not saved.

`NoStall` is proved for the engine without a thread, with `SeqInv`: one thread is
in a call at a time (`OneAtATime`), a slot whose record is about to be cleared is
still in the pool (`ClearedIsPooled`, which `FlightInv` uses in this case, too), and
an empty pool leaves something to drain: by `SlotConservation` every slot is then
pending on a batch, which is the one being submitted or the latest output
(`SomethingToDrain`).

**KV connector.**  `KVInv` collects, per node, what a handler relies on when it
runs later than the one that set it up.  On the prefill node: no request is in two
unsaved batches (`BatchOrder`), what `kv_caches` has registered belongs to requests
still to be stored (`Registered`), a segment to be stored is not in the store, not
loaded and not tracked (`StoredOnce`), and the device writes open segments of
batches nobody has saved (`Flights`).  On the decode node: what is loaded by the
step (`Held`) is registered, open and not yet in `shm_tracker` (`StepHolds`), a
running decode reads nothing the cleanup of its step can reach (`DecodeReads`).
`Pending`, the requests some batch has still to store, is the notion that ties
these together, and most lemmas say how a step moves it.  `AlwaysBuffered` follows
from `Registered`: the assertion on the buffer of a last chunk never fails.  On top of `KVInv`:
`TrackerInv` (what the forced cleanup leaves), `FillInv` and `KeysMatch` (what is
stored was computed and is loaded under its own key), `ServeInv` (everything a
handler attaches or unlinks is linked, and everybody who has loaded has put).
`LookupHits` is the heart of `NobodyEverRaises`: a GET removes *some* entry of the
key, yet a request that was handed over always finds one, because the requests
that share its prompt have put at least one entry more than they took; the proof
compares the two sets by an injection.

The refinement of `KVHandoff` gives each segment a phase from where it is
(`PhaseOf`), its reader (`ReaderOf`, unique by `LoadedOnce`) and its use by a
device; one lemma per action of the nodes names the step of `KVHandoff`.

**EC connector.**  `ECInv`: every hash a node has scheduled is in its cache or will
be loaded by the step (`EncoderHolds`, `LanguageHolds`), a loaded view is pinned
and named by the store (`LoadedPinned`), the store answers for what was peeked
unless it was evicted or denied since (`StoreAnswers`), a segment being saved is not
stored yet (`SegmentsFresh`).  For `NothingLeaks`: what is loaded is in use until it
is freed (`ViewsKept`), so that no load takes a second pin for a hash
(`PinsStep`), and each way a PUT may end leaves the segment named, unlinked or
among the refused (`SegmentsStep`).

**Mixed serving.**  A state outlives `sample_tokens()` only with asynchronous
sampling and until the newest output is collected (`Unsampled`); older outputs
may be collected meanwhile.  For the positions, a padded row is safe because its
extra tokens lie beyond the table, hence are padding and get position -1; this
needs that no token comes from `prev` without asynchronous sampling (`SyncInv`).

`CacheTrue` and `OutputTrue` are proved together, by `ServeInv`: a wrong token in a
cache makes wrong logits, and a wrong result makes a wrong input of a later step.
Its parts are where requests are (`PlaceInv`: a live request has a slot of its own
and at most one row), that computed results are right (`OutInv`), and one invariant
for each way the host learns tokens: without asynchronous sampling the table has
every token up to `total`, and a step that was executed but not yet told is
described by its record (`HostInv`, `Stepped`, `Told`); with it, the table has the
prompt only, a decoding row finds its last token in `prev`, and the newest output is
the one whose record the runner still holds (`DeviceInv`, `InFlight`); with a
pooling model the encode buffer is the batch (`PoolInv`).  `CacheTrue` alone is not
inductive: a row's next input is right because the last step's *result* was.

The step is then followed as the code runs it.  `Reordered` is a composition of
swaps along the chains of a permutation; that it is a permutation which puts all
decodes first (`Split`) is shown by a rank on the rows a chain has not reached yet
(`Chain`, `Numbered`, `Swapped`).  A row of the batch has its drafts and its padding
in one width, whichever row of the shared decode buffer it is written to
(`RowWidth`), rows of the buffer that no request uses write nothing (`Cleared`), and
so every position the device writes is one the row's own request was asked for
(`CellsPerformed`).  The logits of prefills and decodes are concatenated and read at
`CuSampled`, the sum of the widths of the rows before: `RowsPerformed` says that what
the sampler finds there was computed from that row.  The drafts are read from the
padded inputs at `CuPadded`, whose rows are all of one width; `StepDrafts` says that
they are the scheduled ones.  That a sum or a concatenation
over the rows is what it should be is proved by induction on the row, through the
least number that has a property (`WFMin` of the library).

`Spec` leaves the scheduler's choices open, as the code does; `Ready` is all it
relies on (a scheduled row is in its prompt or one token short of what the
scheduler believes).

**Speculative decoding.**  `SpecInv` describes a row in each stage, in the middle of
its prompt too: what the proposer's cache holds follows the chunks while the
row prefills and the accepted tokens while it decodes.  The gate is a quantifier
over the batch, as the code's maximum is compared.

**Start-up.**  `TypeOK` with the launch fixed (`Typed`) bounds the retry loops.
`ReadyInv` says, for each phase, what is already settled: which configuration the
second pass of `check_and_update_config()` may have left behind (`Sized`), who
drafts (`DrafterInv`), and what the target and the draft model are once they are
loaded, compiled and opened (`TargetInv`, `DraftInv`).  Most steps change none of
it (`Waits`, `Stops`, `GoesOn`), the others have a lemma per part.  The heart is
`WidthsKnown`: the widths read back from a QPC's lengths (`ReadBack`) are among 0 and
`K`, every one of them is a length of the QPC, and a QPC without any makes the
process a prefill node, or fails the warm-up.  A draft's context is taken to be no
longer than its target's (`LaunchesAssumption`; vLLM takes the shorter of both).

**CI scheduler.**  `GateInv`: an open gate means that its owner has ended
(`GatesEarned`), and a started job found its gates open (`StartedReady`).  That a
gate has one owner (`OneOwner`) is where "first job seen wins" is used.  `DeviceInv`
adds to `DevicesExclusive` the types, that one thread at a time is inside the
condition (`OneInside`) and that a release checks only devices of its own job and of
the quarantine (`ChecksOwn`).

**Rejection sampler.**  The theorem is about `Spec` of `Kernels`, whose inputs are
any workloads: a batch of well-formed arrays (`WellFormed`: rows follow one another,
no row longer than `max_spec_len`, optional arrays given where the mode needs them;
`InputsFormed` is the invariant that says so).  A loop of the kernels is a recursive
function over its rounds, and `LoopExists` and `UpTo` are the induction every one of
them needs.  `RunningMax` and `BlockOf` make the block-wise maximum a maximum
(`MaxScoreIs`) and the block-wise search the first index that holds it
(`FindScoreIs`), for every number of lanes.  `TokenOwner`: a flat position between
two cumulative ends belongs to one request.  `EmitRowIs` says what the row loop
leaves in each slot (`Slot`, by the length `Kept` of the accepted prefix) and that
it touches no other request's slots; `EmitRowsIs` that the rows of a batch
therefore do not disturb one another, `SampledRows` that the greedy and the random
kernel together write every request's row once, and `RowDecides` that acceptance and
correction are those of the reference.

**Embeddings.**  The prompts are any that are well formed (`PromptFormed`): the
placeholders are in order and apart, one has as many positions for embeddings as the
encoder makes of its image, images with one hash are one image, and the batch encodes
each image once; InternVL images have no more patches than the encoder is compiled
for, the images of a tensor are of one size.  `PieceIs` cuts the flat array at the
running sums of the sizes, `RowIs` and `FeaturesAre` are the encoder's rows after
padding and trimming, `CacheIs` says that the cache has under a hash what the image's
own patches give, wherever it was in the batch.  `RunCount` counts the embeddings of a
part of a placeholder, so `ItemIs` is the step of the gathering loop: it appends one
row for each position of the window in this placeholder, in their order.  The
invariant of the loop (`Placed`, in `GatherIs`) ranks the positions of the
placeholders so far; after the loop has broken off, the later placeholders have none.
`ColumnsAre` takes embedding and deepstack layers apart again.  What exceeds the
compiled rows is cropped, as the code does.

**Launches.**  Any number of tokens on at least one thread (`LaunchesAreSized`).
`SlicesApart`: `w * p .. w * p + p - 1` holds a token exactly for its quotient by the
slice length `p`; `TokenHasWorker` that rounding `p` up leaves this quotient among the
threads, so one thread owns each token even when the last slices are cut short or
empty.  `RoutedIs` follows the threads one after the other; once the owner has
written its row no other thread touches it.

### Only model-checked

* Liveness (`BatchesComplete`, `Decoded`, `Served`, `AllJobsEnd`, `StartupEnds`): the
  prover does not reason about `ENABLED`, and fairness is stated with it.
* The selection half of `RouterAgrees`: scans and a bitonic network of any width,
  written with folds, and powers of two the prover has no theory of.

## Not modelled

* The LMCache connector (forwards to an external library), the eager back end,
  attention, normalisation and cache kernels, quantisation, the processors of
  the single multimodal models: tensor computations without protocol.
* Profiling, sleep mode and LoRA calls of the worker; the monkey patches.
* `np_run()` failing; the CPU mock of the session; errors of `torch.from_numpy`.
* A restart of the decode node; an output thread outside `PrefillPipeline`.
* The hand-off and encoder-cache stores, vLLM's scheduler, block allocator,
  encoder cache manager and engine, the device runtime and the compiler are
  external: modelled from how this code uses them.
* Examples, tools, docker files, scripts: not part of the running system.

## What is left

All parts that have a protocol are modelled, and of the safety properties all are
proved but the selection half of `RouterAgrees`.
