------------------------------- MODULE Startup -------------------------------
(***************************************************************************)
(* How one engine process of the AOT back end comes up: the configuration *)
(* is checked and rewritten, torch.distributed is initialised, the runner  *)
(* and its drafter are built, the target and then the draft model are      *)
(* downloaded, compiled and opened on the device, the cache is sized and   *)
(* the warm-up runs.  One process, no concurrency: what is hard is that     *)
(* every step reads what earlier ones wrote into objects they share (the    *)
(* scheduler and cache configuration, the override dictionary, the decode   *)
(* widths), that the configuration is rewritten once more for the draft     *)
(* model, and that the outside (ports, the model hub, the compiler, the     *)
(* device) may fail at each step.  Source: vllm_qaic/platform_base.py,      *)
(* worker/worker.py, worker/model_runner.py, model_loader/qaic.py,          *)
(* spec_decode/*.py.                                                        *)
(***************************************************************************)
EXTENDS Integers, FiniteSets

CONSTANTS Launches,      \* the launch configurations to start from
          DefaultSeqLen, \* 128: the prefill chunk when none is configured
          MaxInits,      \* 5: attempts at torch.distributed
          MaxDownloads,  \* 8: attempts at the model hub
          HwCores        \* 16: cores of a device

ASSUME StartupAssumption ==
  /\ {DefaultSeqLen, MaxInits, MaxDownloads} \subseteq Nat \ {0}
  /\ HwCores \in Nat \ {0, 1}

\* What a launch says, as far as the arithmetic depends on it.  A draft's context
\* is never longer than its target's: vLLM takes the shorter of both (external).
ASSUME LaunchesAssumption ==
  \A l \in Launches :
    /\ {l.K, l.seqs, l.maxLen} \subseteq Nat \ {0}
    /\ {l.psl, l.budget, l.stages, l.draft.psl} \subseteq Nat
    /\ l.draft.len \in 1..l.maxLen
    /\ {l.chunked, l.async, l.pooling} \subseteq BOOLEAN
    /\ l.role \in {"none", "kv_producer", "kv_consumer"}

VARIABLES launch,  \* what the user asked for; never changes
          phase,   \* where the start-up is
          which,   \* the model being loaded: "target" or "draft"
          tries,   \* failed attempts of the retry loop the process is in
          config,  \* the scheduler, cache and override configuration objects
          draft,   \* the draft model's copy: its prefill_seq_len, its budget
          runner,  \* QaicModelRunnerAoT: its drafter and decode_ks
          models   \* the loaded models

vars == <<launch, phase, which, tries, config, draft, runner, models>>

Phases == {"configure", "distribute", "build", "load", "download", "compile",
           "open", "cache", "warm", "serving", "compiled", "eager", "failed"}
\* The process serves, has compiled and left, handed over to the eager worker, or died.
Ended == {"serving", "compiled", "eager", "failed"}

Least(a, b) == IF a < b THEN a ELSE b
Most(a, b) == IF a < b THEN b ELSE a

(***************************************************************************)
(* The configuration: QaicPlatform.check_and_update_config                 *)
(***************************************************************************)
Speculates(l) == l.method # "none"
\* A vision encoder is a multimodal pooling model.
Encoder(l) == l.mm /\ l.pooling
Disagg(l) == l.role # "none"
Drafting(l) == l.method \in {"draft_model", "dflash"}

\* What check_and_update_config() raises on: features that exclude each other,
\* and what the eager mode lacks.
FeaturesClash(l) ==
  \/ l.lora /\ (Speculates(l) \/ l.mm)
  \/ Speculates(l) /\ (l.mm \/ l.sampler)
  \/ l.aot /\ l.mm /\ ~l.chunked /\ ~l.pooling
EagerRefused(l) == ~l.aot /\ (Disagg(l) \/ Speculates(l))
\* On a prefill or decode node; a producer without "stages" dies in int(None).
TransferRefused(l) ==
  \/ Disagg(l) /\ (l.lora \/ l.method \notin {"none", "ngram", "draft_model", "suffix"})
  \/ l.role = "kv_producer" /\ (l.stages = 0 \/ (l.async /\ l.stages > 1 /\ l.seqs > l.stages))
Refused(l) == FeaturesClash(l) \/ EagerRefused(l) \/ TransferRefused(l)

\* The chunk length of a model of context len whose override says psl (0: nothing).
SeqLen(l, psl, len) ==
  IF l.pooling THEN len ELSE IF psl = 0 THEN Least(DefaultSeqLen, len) ELSE psl

\* The scheduler's token budget after a pass over budget b.
Budget(l, b, psl, len, chunked) ==
  IF Encoder(l) THEN l.seqs * len
  ELSE LET capped == Least(l.seqs * psl, b)
       IN  IF chunked THEN capped ELSE Most(capped, len)

\* One pass over the configuration objects c, for a model of context len.
CheckAndUpdate(l, c, len) ==
  LET psl     == SeqLen(l, c.psl, len)
      chunked == c.chunked /\ ~l.pooling
  IN  [c EXCEPT !.psl = psl, !.chunked = chunked, !.async = @ /\ ~Encoder(l),
                !.budget = Budget(l, @, psl, len, chunked), !.block = len]

(***************************************************************************)
(* Widths: which decode lengths are configured, compiled and found         *)
(***************************************************************************)
K(l) == IF Speculates(l) THEN l.K ELSE 0
UsesVariableK(l) ==
  \/ l.method \in {"ngram", "suffix"}
  \/ l.method = "draft_model" /\ l.role = "kv_consumer"
\* decode_ks of the runner and of the target; the draft's model is not speculative.
ConfiguredKs(l, w) ==
  IF w = "draft" THEN {0} ELSE IF UsesVariableK(l) THEN {0, K(l)} ELSE {K(l)}
MaxK(ks) == CHOOSE k \in ks : \A j \in ks : j <= k

\* prefill_only of the compilation: the role, unless the override names one;
\* the draft's is restored, since it runs both its prefill and its decode.
RolePrefillOnly(l, w) ==
  CASE w = "draft" \/ l.role = "none" -> "none"
    [] l.role = "kv_producer" -> "true"
    [] OTHER -> "false"
InheritedPrefillOnly(l, w) == IF l.only = "none" THEN RolePrefillOnly(l, w) ELSE l.only
PrefillOnly(l, w) ==
  IF w = "draft" \/ l.only = "none" THEN RolePrefillOnly(l, w) ELSE l.only
\* ... which a disaggregated target must not contradict.
RoleContradicted(l, w) == w = "target" /\ Disagg(l) /\ PrefillOnly(l, w) # RolePrefillOnly(l, w)

\* The sequence lengths a compilation specialises the model for.
Compiled(l, w, psl) ==
  LET decode == {k + 1 : k \in ConfiguredKs(l, w)}
  IN  CASE w = "draft" /\ l.method = "dflash" -> {l.K + 1}
        [] l.pooling -> {psl}
        [] PrefillOnly(l, w) = "true" -> {psl}
        [] PrefillOnly(l, w) = "false" -> decode
        [] OTHER -> {psl} \cup decode

\* The lengths of a QPC the user hands in instead, compiled for the same role.
Given(l, psl) ==
  (IF l.role = "kv_consumer" THEN {} ELSE {psl}) \cup
  (CASE l.pooling \/ l.role = "kv_producer" -> {}
     [] l.qpc = "one" -> {1}
     [] l.qpc = "max" -> {K(l) + 1}
     [] OTHER -> {1, K(l) + 1})

\* What _decode_ks_from_session() reads back from the specialisations of the
\* opened QPC: every length but the prefill's, or the configured widths.
SessionKs(ks, lens, psl) ==
  LET found == {s - 1 : s \in lens \ {psl}} IN IF found = {} THEN ks ELSE found

\* Cores of a device: shared with the other model when both name one group,
\* the target taking the larger half.
Cores(l, w) ==
  LET half == (HwCores + 1) \div 2
      same == w = "draft" \/ ~l.draft.own \/ l.draft.group = l.group
  IN  IF l.method = "draft_model" /\ same
      THEN (IF w = "target" THEN half ELSE HwCores - half)
      ELSE HwCores
Group(l, w) == IF w = "draft" /\ l.draft.own THEN l.draft.group ELSE l.group

\* DFlash: the draft's block is K + 1, and must divide the chunk.
DFlashRefused(l, psl) == l.method = "dflash" /\ (l.block # l.K + 1 \/ psl % l.block # 0)

(***************************************************************************)
(* The start                                                               *)
(***************************************************************************)
Unloaded == [open |-> FALSE, lens |-> {}, ks |-> {}, buffers |-> {}, cluster |-> "none",
             stages |-> 1, cores |-> 0]

Init ==
  /\ launch \in Launches
  /\ phase = "configure" /\ which = "target" /\ tries = 0
  /\ config = [psl |-> launch.psl, chunked |-> launch.chunked, async |-> launch.async,
               budget |-> launch.budget, block |-> 0, blocks |-> 0]
  /\ draft = [psl |-> 0, budget |-> 0]
  /\ runner = [drafter |-> "none", ks |-> {}]
  /\ models = [w \in {"target", "draft"} |-> Unloaded]

Goto(p) == phase' = p /\ UNCHANGED launch
Fail == Goto("failed") /\ UNCHANGED <<which, tries, config, draft, runner, models>>

Refuse == phase = "configure" /\ Refused(launch) /\ Fail

Configure ==
  /\ phase = "configure" /\ ~Refused(launch)
  /\ IF launch.aot
     THEN Goto("distribute") /\ config' = CheckAndUpdate(launch, config, launch.maxLen)
     ELSE Goto("eager") /\ config' = [config EXCEPT !.async = FALSE, !.block = 16]
  /\ UNCHANGED <<which, tries, draft, runner, models>>

(***************************************************************************)
(* The worker: torch.distributed, with a new port after EADDRINUSE         *)
(***************************************************************************)
Distributed ==
  /\ phase = "distribute"
  /\ Goto("build") /\ tries' = 0
  /\ UNCHANGED <<which, config, draft, runner, models>>

AddressInUse ==
  /\ phase = "distribute" /\ tries < MaxInits - 1
  /\ tries' = tries + 1
  /\ UNCHANGED <<launch, phase, which, config, draft, runner, models>>

\* Any other error, or the last attempt.
NotDistributed == phase = "distribute" /\ Fail

(***************************************************************************)
(* The runner and its drafter                                              *)
(***************************************************************************)
\* A producer never drafts; only these methods are known; a draft model's
\* proposer is synchronous.
OwnDrafter(l) == Drafting(l) /\ l.role # "kv_producer"
RunnerRefused(l) ==
  \/ Speculates(l) /\ l.method \notin {"ngram", "suffix", "draft_model", "dflash"}
  \/ OwnDrafter(l) /\ config.async

\* The draft's VllmConfig is built with replace(), which passes over the
\* configuration again with the draft's context length: over the cache
\* configuration both share, over the scheduler configuration unless it was
\* copied (DFlash), and once more with the draft's own override if it has one.
DraftConfig(l) ==
  LET first  == CheckAndUpdate(l, config, l.draft.len)
      second == CheckAndUpdate(l, [first EXCEPT !.psl = l.draft.psl], l.draft.len)
  IN  IF l.draft.own THEN second ELSE first
SharedBudget(l) == IF l.method = "dflash" THEN config.budget ELSE DraftConfig(l).budget

BuildRunner ==
  /\ phase = "build" /\ ~RunnerRefused(launch)
  /\ Goto("load")
  /\ runner' = [drafter |-> CASE launch.role = "kv_producer" \/ ~Speculates(launch) -> "none"
                              [] OwnDrafter(launch) -> "model"
                              [] OTHER -> "host",
                ks |-> ConfiguredKs(launch, "target")]
  /\ IF OwnDrafter(launch)
     THEN /\ draft' = [psl |-> DraftConfig(launch).psl, budget |-> DraftConfig(launch).budget]
          /\ config' = [config EXCEPT !.budget = SharedBudget(launch),
                                      !.block = DraftConfig(launch).block]
     ELSE UNCHANGED <<draft, config>>
  /\ UNCHANGED <<which, tries, models>>

RunnerFails == phase = "build" /\ RunnerRefused(launch) /\ Fail

(***************************************************************************)
(* load_qaic_model(), once for the target and once for the draft           *)
(***************************************************************************)
OverrideSeqLen(w) == IF w = "target" THEN config.psl ELSE draft.psl

LoadRefused(l, w) ==
  \/ DFlashRefused(l, OverrideSeqLen(w))
  \/ RoleContradicted(l, w)
  \/ l.pooling /\ ~l.mm /\ ~l.pooler
  \/ w = "target" /\ l.qpc = "missing"

\* The model object is built and its compilation configured; a QPC given by
\* the user is opened as it is.
LoadModel ==
  /\ phase = "load" /\ ~LoadRefused(launch, which)
  /\ Goto(IF which = "target" /\ launch.qpc # "none" THEN "open" ELSE "download")
  /\ tries' = 0
  /\ models' = [models EXCEPT
       ![which].ks = ConfiguredKs(launch, which),
       ![which].buffers = ConfiguredKs(launch, which),
       ![which].cores = Cores(launch, which),
       ![which].lens = IF which = "target" /\ launch.qpc # "none"
                       THEN Given(launch, config.psl) ELSE {}]
  /\ UNCHANGED <<which, config, draft, runner>>

\* A refused configuration; a device that does not answer (asked unless the user
\* names the cores); adapters that do not fit the given QPC or the limit.
LoadFails == phase = "load" /\ (LoadRefused(launch, which) \/ launch.lora \/ launch.lost) /\ Fail

\* get_hf_model(): the loop of at most MaxDownloads attempts.
Downloading == phase = "download" /\ tries < MaxDownloads

Downloaded ==
  /\ Downloading
  /\ Goto("compile") /\ UNCHANGED <<which, tries, config, draft, runner, models>>

\* A read timeout, or any exception that is not an HTTP error.
HubUnreachable ==
  /\ Downloading
  /\ tries' = tries + 1
  /\ UNCHANGED <<launch, phase, which, config, draft, runner, models>>

HubRefusesAfresh ==
  /\ Downloading
  /\ tries' = 0
  /\ UNCHANGED <<launch, phase, which, config, draft, runner, models>>
\* HTTP 401: no token.
HubRefuses ==
  /\ Downloading
  /\ tries' = MaxDownloads
  /\ UNCHANGED <<launch, phase, which, config, draft, runner, models>>

\* Any other HTTP error is raised at once; after the loop the load gives up.
DownloadFails == phase = "download" /\ Fail

Compile ==
  /\ phase = "compile"
  /\ Goto("open")
  /\ models' = [models EXCEPT ![which].lens = Compiled(launch, which, OverrideSeqLen(which))]
  /\ UNCHANGED <<which, tries, config, draft, runner>>

CompileFails == phase = "compile" /\ Fail

CompileOnly(l, w) == w \in l.compileOnly

\* What follows a model: the draft after the target, the cache after both.
Proceed ==
  IF which = "target" /\ runner.drafter = "model"
  THEN Goto("load") /\ which' = "draft"
  ELSE Goto("cache") /\ UNCHANGED which

\* compile_only: the process leaves by an exception, but a target with a draft
\* model returns unloaded so that the draft can be compiled too.
LeaveCompiled ==
  /\ phase = "open" /\ CompileOnly(launch, which)
  /\ ~(which = "target" /\ launch.method = "draft_model" /\ runner.drafter = "model")
  /\ Goto("compiled") /\ UNCHANGED <<which, tries, config, draft, runner, models>>

LeaveTarget ==
  /\ phase = "open" /\ CompileOnly(launch, which)
  /\ which = "target" /\ launch.method = "draft_model" /\ runner.drafter = "model"
  /\ Proceed
  /\ runner' = [runner EXCEPT !.ks = models.target.ks]
  /\ UNCHANGED <<tries, config, draft, models>>

\* QaicCausalLM.load_model(): the session, and for a speculative target the
\* widths and buffers of the specialisations it finds; then the runner's copy.
Role(l, w) == IF w = "draft" THEN "none" ELSE l.role
Cluster(role) == CASE role = "none" -> "none" [] role = "kv_producer" -> "prefill" [] OTHER -> "decode"
LoadedKs(w) ==
  IF w = "target" /\ Speculates(launch)
  THEN SessionKs(models[w].ks, models[w].lens, OverrideSeqLen(w)) ELSE models[w].ks
RunnerKs(w) == IF w = "target" THEN LoadedKs(w) ELSE runner.ks

OpenSession ==
  /\ phase = "open" /\ ~CompileOnly(launch, which)
  /\ Proceed
  /\ models' = [models EXCEPT ![which] =
       [@ EXCEPT !.open = TRUE, !.ks = LoadedKs(which),
                 !.buffers = models[which].buffers \cup LoadedKs(which),
                 !.cluster = Cluster(Role(launch, which)),
                 !.stages = IF Role(launch, which) = "none" THEN 1 ELSE Most(launch.stages, 1)]]
  /\ runner' = [runner EXCEPT !.ks = RunnerKs(which)]
  /\ UNCHANGED <<tries, config, draft>>

OpenFails == phase = "open" /\ ~CompileOnly(launch, which) /\ Fail

(***************************************************************************)
(* The cache and the warm-up                                               *)
(***************************************************************************)
\* The engine divides the memory the worker reports, or takes the override.
NumBlocks(l) == IF l.blocks # 0 THEN l.blocks ELSE l.seqs + 1

InitializeCache ==
  /\ phase = "cache" /\ NumBlocks(launch) = launch.seqs + 1
  /\ Goto("warm") /\ config' = [config EXCEPT !.blocks = NumBlocks(launch)]
  /\ UNCHANGED <<which, tries, draft, runner, models>>

CacheRefused == phase = "cache" /\ NumBlocks(launch) # launch.seqs + 1 /\ Fail

\* The device takes an execution whose length the QPC has; the decode is run
\* at the widest width the model found, with the tokens of K + 1.
Accepts(m, s) == m.open /\ s \in m.lens
DecodeRuns(l) == Accepts(models.target, MaxK(runner.ks) + 1) /\ MaxK(runner.ks) = K(l)
PrefillRuns == Accepts(models.target, config.psl)
\* A pooling model is not warmed up; a node runs only its own side.
WarmUpPasses(l) ==
  CASE l.pooling -> TRUE
    [] models.target.cluster = "prefill" -> PrefillRuns
    [] models.target.cluster = "decode" -> DecodeRuns(l)
    [] OTHER -> DecodeRuns(l) /\ PrefillRuns

WarmUp ==
  /\ phase = "warm" /\ WarmUpPasses(launch)
  /\ Goto("serving") /\ UNCHANGED <<which, tries, config, draft, runner, models>>

WarmUpFails == phase = "warm" /\ ~WarmUpPasses(launch) /\ Fail

Next ==
  \/ Refuse \/ Configure
  \/ Distributed \/ AddressInUse \/ NotDistributed
  \/ BuildRunner \/ RunnerFails
  \/ LoadModel \/ LoadFails
  \/ Downloaded \/ HubUnreachable \/ HubRefuses \/ DownloadFails
  \/ Compile \/ CompileFails
  \/ LeaveCompiled \/ LeaveTarget \/ OpenSession \/ OpenFails
  \/ InitializeCache \/ CacheRefused
  \/ WarmUp \/ WarmUpFails

\* One sequential process: it takes its next step, and every call it makes to
\* the outside returns or raises.
Spec == Init /\ [][Next]_vars /\ WF_vars(Next)

(***************************************************************************)
(* Properties                                                              *)
(***************************************************************************)
\* The types of what the retry loops, the passes over the configuration and the
\* reading back of the widths write: a loop never runs beyond its limit.
TypeOK ==
  /\ phase \in Phases /\ which \in {"target", "draft"}
  /\ tries \in 0..Most(MaxInits, MaxDownloads)
  /\ config \in [psl : Nat, chunked : BOOLEAN, async : BOOLEAN, budget : Nat, block : Nat, blocks : Int]
  /\ draft \in [psl : Nat, budget : Nat]
  /\ runner \in [drafter : {"none", "host", "model"}, ks : SUBSET Int]
  /\ models \in [{"target", "draft"} ->
       [open : BOOLEAN, lens : SUBSET Int, ks : SUBSET Int, buffers : SUBSET Int,
        cluster : {"none", "prefill", "decode"}, stages : Nat, cores : 0..HwCores]]

\* Every width the scheduler and the runner can ask for is compiled, has its
\* input buffers, and is known to the model: the runner's decode_ks are the
\* model's, cover the K drafts of a full step, and their lengths are in the
\* QPC; so is the prefill chunk.  A decode length equal to the chunk's cannot
\* be told from it in the session and is left out.
WidthsServed ==
  LET l == launch  t == models.target
  IN  (~l.pooling /\ config.psl # K(l) + 1) =>
        /\ runner.ks = t.ks /\ t.ks \subseteq t.buffers
        /\ l.role # "kv_producer" => K(l) \in t.ks /\ \A k \in t.ks : k + 1 \in t.lens
        /\ l.role # "kv_consumer" => config.psl \in t.lens

\* The draft model of a target, on whichever side, is a whole model of its
\* own: it can prefill and decode (DFlash: run its block), outside any cluster,
\* under a synchronous scheduler, and a DFlash block divides the target's chunk.
DraftServed ==
  runner.drafter = "model" =>
    LET d == models.draft
    IN  /\ d.open /\ d.cluster = "none" /\ d.ks = {0} /\ ~config.async
        /\ IF launch.method = "dflash"
           THEN launch.K + 1 \in d.lens /\ config.psl % (launch.K + 1) = 0
           ELSE {1, draft.psl} \subseteq d.lens

\* Target and draft on one group of devices share its cores.
CoresFit ==
  (launch.method = "draft_model" /\ models.draft.open /\ Group(launch, "draft") = Group(launch, "target"))
    => models.target.cores + models.draft.cores <= HwCores

\* The scheduler's view fits the device's: one cache block per request and one
\* to spare, each as long as the context; a budget that never asks for more
\* than a chunk per request and, without chunked prefill, admits the longest
\* prompt; and a DFlash draft's small blocks do not reach the target's budget.
\* The blocks and the unchunked budget are claimed only for a draft model
\* whose context is as long as the target's.
SchedulerFits ==
  LET l == launch  whole == runner.drafter = "model" => l.draft.len >= l.maxLen
  IN  /\ config.blocks = l.seqs + 1
      /\ whole => config.block = l.maxLen
      /\ config.chunked => config.budget <= l.seqs * config.psl
      /\ (~config.chunked /\ whole) => config.budget >= l.maxLen
      /\ (l.method = "dflash" /\ config.chunked)
           => config.budget = Least(l.seqs * config.psl, l.budget)

\* What a process that serves has put together, across two configurations, two
\* models and the files they came from (load_qaic_model, _get_qaic_compile_config,
\* _decode_ks_from_session, the drafter's configuration).
ServiceReady ==
  phase = "serving" =>
    /\ models.target.open
    /\ WidthsServed /\ DraftServed /\ CoresFit /\ SchedulerFits

\* Whatever the hub, the ports, the compiler and the device answer, the
\* start-up ends: no retry loop (get_hf_model, the distributed environment)
\* goes on for ever, and the process serves, leaves or dies.
StartupEnds == <>(phase \in Ended)
===============================================================================
