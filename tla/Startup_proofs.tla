---------------------------- MODULE Startup_proofs ----------------------------
(***************************************************************************)
(* What a process that serves has put together, for every launch: types,  *)
(* retry bounds and the coherence of configuration, runner, target and     *)
(* draft.                                                                  *)
(***************************************************************************)
EXTENDS Startup, TLAPS

Configs == [psl : Nat, chunked : BOOLEAN, async : BOOLEAN, budget : Nat, block : Nat, blocks : Int]
Loaded == [open : BOOLEAN, lens : SUBSET Int, ks : SUBSET Int, buffers : SUBSET Int,
           cluster : {"none", "prefill", "decode"}, stages : Nat, cores : 0..HwCores]

-----------------------------------------------------------------------------
(***************************************************************************)
(* The smaller and the larger of two numbers.                              *)
(***************************************************************************)
LEMMA Compare ==
  ASSUME NEW a \in Int, NEW b \in Int
  PROVE  /\ Least(a, b) \in {a, b} /\ Least(a, b) <= a /\ Least(a, b) <= b
         /\ Most(a, b) \in {a, b} /\ Most(a, b) >= a /\ Most(a, b) >= b
BY DEF Least, Most

(***************************************************************************)
(* A product of numbers is a number, and not below its second factor       *)
(* unless the first is 0.                                                  *)
(***************************************************************************)
LEMMA Times ==
  ASSUME NEW a \in Nat, NEW b \in Nat
  PROVE  a * b \in Nat /\ (a # 0 => a * b >= b)
<1>1. a * b \in Nat
  OBVIOUS
<1>2. ASSUME a # 0 PROVE a * b >= b
  <2>1. PICK c \in Nat : a = c + 1
    <3>1. a - 1 \in Nat /\ a = (a - 1) + 1
      BY <1>2
    <3> QED  BY <3>1
  <2>2. (c + 1) * b = c * b + b /\ c * b \in Nat
    OBVIOUS
  <2> QED  BY <2>1, <2>2
<1> QED  BY <1>1, <1>2

(***************************************************************************)
(* A pass over the configuration keeps its shape.  It leaves what belongs  *)
(* to the cache as long as the context, and a budget that suits the chunk, *)
(* or the context when prompts are not cut into chunks.                    *)
(***************************************************************************)
Suits(l, c, len) ==
  /\ c.block = len
  /\ c.chunked => c.budget <= l.seqs * c.psl
  /\ ~c.chunked => c.budget >= len

LEMMA Pass ==
  ASSUME NEW l \in Launches, NEW c \in Configs, NEW len \in Nat
  PROVE  /\ CheckAndUpdate(l, c, len) \in Configs
         /\ Suits(l, CheckAndUpdate(l, c, len), len)
         /\ (CheckAndUpdate(l, c, len).chunked <=> (c.chunked /\ ~l.pooling))
         /\ (CheckAndUpdate(l, c, len).async => c.async)
         /\ CheckAndUpdate(l, c, len).blocks = c.blocks
         /\ CheckAndUpdate(l, c, len).chunked =>
              /\ CheckAndUpdate(l, c, len).budget
                   = Least(l.seqs * CheckAndUpdate(l, c, len).psl, c.budget)
              /\ CheckAndUpdate(l, c, len).budget <= c.budget
<1> DEFINE psl == SeqLen(l, c.psl, len)
           chunked == c.chunked /\ ~l.pooling
           budget == Budget(l, c.budget, psl, len, chunked)
           d == CheckAndUpdate(l, c, len)
<1>1. /\ l.seqs \in Nat \ {0} /\ l.pooling \in BOOLEAN /\ DefaultSeqLen \in Nat
      /\ c.psl \in Nat /\ c.budget \in Nat /\ c.chunked \in BOOLEAN /\ c.async \in BOOLEAN
  BY StartupAssumption, LaunchesAssumption DEF Configs
<1>2. psl \in Nat
  BY <1>1, Compare DEF SeqLen
<1>3. d = [c EXCEPT !.psl = psl, !.chunked = chunked, !.async = c.async /\ ~Encoder(l),
                    !.budget = budget, !.block = len]
  BY DEF CheckAndUpdate
<1> HIDE DEF psl, d
<1>4. l.seqs * psl \in Nat /\ l.seqs * len \in Nat /\ l.seqs * len >= len
  BY <1>1, <1>2, Times
<1>5. /\ budget \in Nat
      /\ chunked => budget = Least(l.seqs * psl, c.budget)
      /\ ~chunked => budget >= len
  <2>1. CASE Encoder(l)
    BY <2>1, <1>1, <1>4 DEF Budget, Encoder
  <2>2. CASE ~Encoder(l)
    <3>1. PICK x \in Nat : x = Least(l.seqs * psl, c.budget)
      BY <1>1, <1>4, Compare
    <3>2. budget = IF chunked THEN x ELSE Most(x, len)
      BY <2>2, <3>1 DEF Budget
    <3> QED  BY <3>1, <3>2, Compare
  <2> QED  BY <2>1, <2>2
<1>6. chunked => budget <= l.seqs * psl /\ budget <= c.budget
  BY <1>1, <1>4, <1>5, Compare
<1> HIDE DEF budget, chunked
<1>7. chunked \in BOOLEAN
  BY <1>1 DEF chunked
<1>8. (c.async /\ ~Encoder(l)) \in BOOLEAN
  BY <1>1
<1>9. /\ d.psl = psl /\ d.chunked = chunked /\ d.budget = budget /\ d.block = len
      /\ d.blocks = c.blocks /\ d \in Configs /\ (d.async => c.async)
  BY <1>1, <1>2, <1>3, <1>5, <1>7, <1>8 DEF Configs
<1>10. Suits(l, d, len)
  BY <1>5, <1>6, <1>9 DEF Suits
<1>11. d.chunked <=> c.chunked /\ ~l.pooling
  BY <1>9 DEF chunked
<1> QED  BY <1>5, <1>6, <1>9, <1>10, <1>11 DEF d

-----------------------------------------------------------------------------
(***************************************************************************)
(* Widths.  K is a number, 0 without speculation.                          *)
(***************************************************************************)
LEMMA Drafted ==
  ASSUME NEW l \in Launches
  PROVE  K(l) \in Nat /\ l.K \in Nat \ {0} /\ (Speculates(l) => K(l) = l.K) /\ (~Speculates(l) => K(l) = 0)
BY LaunchesAssumption DEF K

(***************************************************************************)
(* The configured widths of the target are K, or 0 and K.                  *)
(***************************************************************************)
LEMMA Configured ==
  ASSUME NEW l \in Launches
  PROVE  /\ ConfiguredKs(l, "draft") = {0}
         /\ ConfiguredKs(l, "target") \in {{K(l)}, {0, K(l)}}
         /\ ~Speculates(l) => ConfiguredKs(l, "target") = {0}
  BY Drafted DEF ConfiguredKs, UsesVariableK, Speculates

(***************************************************************************)
(* A target's QPC, compiled or given, has lengths of the chunk and of the  *)
(* widths 0 and K only.                                                    *)
(***************************************************************************)
LEMMA TargetLengths ==
  ASSUME NEW l \in Launches, NEW psl \in Nat
  PROVE  /\ Compiled(l, "target", psl) \subseteq {psl, 1, K(l) + 1}
         /\ Given(l, psl) \subseteq {psl, 1, K(l) + 1}
<1>1. {k + 1 : k \in ConfiguredKs(l, "target")} \subseteq {1, K(l) + 1}
  BY Configured, Drafted
<1>2. Compiled(l, "target", psl) \subseteq {psl} \cup {k + 1 : k \in ConfiguredKs(l, "target")}
  BY DEF Compiled
<1>3. Given(l, psl) \subseteq {psl, 1, K(l) + 1}
  BY DEF Given
<1> QED  BY <1>1, <1>2, <1>3

(***************************************************************************)
(* A draft model's QPC has the lengths of its prefill and of one token, or *)
(* of a DFlash block.                                                      *)
(***************************************************************************)
LEMMA DraftLengths ==
  ASSUME NEW l \in Launches, NEW psl \in Nat
  PROVE  /\ Compiled(l, "draft", psl) \subseteq {psl, 1, l.K + 1}
         /\ ~l.pooling /\ l.role # "kv_producer" =>
              Compiled(l, "draft", psl) = IF l.method = "dflash" THEN {l.K + 1} ELSE {psl, 1}
<1>1. {k + 1 : k \in ConfiguredKs(l, "draft")} = {1}
  BY Configured
<1>2. Compiled(l, "draft", psl) \subseteq {psl, 1, l.K + 1}
  BY <1>1 DEF Compiled
<1>3. ASSUME ~l.pooling, l.role # "kv_producer"
      PROVE  Compiled(l, "draft", psl) = IF l.method = "dflash" THEN {l.K + 1} ELSE {psl, 1}
  <2>1. PrefillOnly(l, "draft") = "none"
    BY <1>3 DEF PrefillOnly, RolePrefillOnly
  <2>2. CASE l.method = "dflash"
    BY <1>3, <2>1, <2>2 DEF Compiled
  <2>3. CASE l.method # "dflash"
    <3>1. Compiled(l, "draft", psl) = {psl} \cup {k + 1 : k \in ConfiguredKs(l, "draft")}
      BY <1>3, <2>1, <2>3 DEF Compiled
    <3> QED  BY <1>1, <2>3, <3>1
  <2> QED  BY <2>2, <2>3
<1> QED  BY <1>2, <1>3

(***************************************************************************)
(* The widths read back from the lengths of a session: those other than    *)
(* the chunk's, and if there are none, the configured ones.                *)
(***************************************************************************)
LEMMA ReadBack ==
  ASSUME NEW l \in Launches, NEW psl \in Nat, NEW lens \in SUBSET {psl, 1, K(l) + 1},
         NEW ks, ks \in {{K(l)}, {0, K(l)}}
  PROVE  /\ SessionKs(ks, lens, psl) \subseteq {0, K(l)} /\ SessionKs(ks, lens, psl) # {}
         /\ \/ lens \subseteq {psl} /\ SessionKs(ks, lens, psl) = ks
            \/ \A k \in SessionKs(ks, lens, psl) : k + 1 \in lens
<1> DEFINE found == {s - 1 : s \in lens \ {psl}}
<1>1. K(l) \in Nat
  BY Drafted
<1>2. SessionKs(ks, lens, psl) = IF found = {} THEN ks ELSE found
  BY DEF SessionKs
<1>3. found \subseteq {0, K(l)} /\ \A k \in found : k + 1 \in lens
  BY <1>1
<1>4. found = {} => lens \subseteq {psl}
  OBVIOUS
<1>5. ks \subseteq {0, K(l)} /\ ks # {}
  OBVIOUS
<1> HIDE DEF found
<1> QED  BY <1>2, <1>3, <1>4, <1>5

(***************************************************************************)
(* The widest of some of the widths 0 and K is one of them.                *)
(***************************************************************************)
LEMMA Widest ==
  ASSUME NEW k \in Nat, NEW ks \in SUBSET {0, k}, ks # {}
  PROVE  MaxK(ks) \in ks
<1>1. \E m \in ks : \A j \in ks : j <= m
  <2>1. CASE k \in ks
    BY <2>1
  <2>2. CASE k \notin ks
    <3>1. ks = {0}
      BY <2>2
    <3> QED  BY <3>1
  <2> QED  BY <2>1, <2>2
<1> QED  BY <1>1 DEF MaxK

(***************************************************************************)
(* The cores of the models fit their devices.                              *)
(***************************************************************************)
LEMMA CoresOf ==
  ASSUME NEW l \in Launches
  PROVE  /\ \A w : Cores(l, w) \in 0..HwCores
         /\ l.method = "draft_model" /\ Group(l, "draft") = Group(l, "target")
              => Cores(l, "target") + Cores(l, "draft") <= HwCores
<1> DEFINE half == (HwCores + 1) \div 2
<1>1. HwCores \in Nat \ {0, 1}
  BY StartupAssumption
<1>2. half \in 0..HwCores
  BY <1>1
<1>3. ASSUME NEW w PROVE Cores(l, w) \in 0..HwCores
  <2>1. Cores(l, w) \in {half, HwCores - half, HwCores}
    BY DEF Cores
  <2> HIDE DEF half
  <2> QED  BY <1>1, <1>2, <2>1
<1>4. ASSUME l.method = "draft_model", Group(l, "draft") = Group(l, "target")
      PROVE  Cores(l, "target") + Cores(l, "draft") <= HwCores
  <2>1. ~l.draft.own \/ l.draft.group = l.group
    BY <1>4 DEF Group
  <2>2. Cores(l, "target") = half /\ Cores(l, "draft") = HwCores - half
    BY <1>4, <2>1 DEF Cores
  <2> HIDE DEF half
  <2> QED  BY <1>1, <1>2, <2>2
<1> QED  BY <1>3, <1>4

-----------------------------------------------------------------------------
(***************************************************************************)
(* Types.                                                                  *)
(***************************************************************************)
Typed == TypeOK /\ launch \in Launches

(***************************************************************************)
(* What a model keeps is typed when its fields are written.                *)
(***************************************************************************)
LEMMA ModelStep ==
  ASSUME Typed, [Next]_vars
  PROVE  models' \in [{"target", "draft"} -> Loaded]
<1>1. models \in [{"target", "draft"} -> Loaded] /\ which \in {"target", "draft"} /\ launch \in Launches
      /\ config.psl \in Nat /\ draft.psl \in Nat
  BY DEF Typed, TypeOK, Loaded
<1>2. PICK w \in {"target", "draft"} : w = which
  BY <1>1
<1>3. K(launch) \in Nat /\ launch.K \in Nat /\ launch.stages \in Nat
  BY <1>1, Drafted, LaunchesAssumption
<1>4. ConfiguredKs(launch, w) \in SUBSET Int
  BY <1>1, <1>3, Configured
<1>5. /\ Compiled(launch, w, OverrideSeqLen(w)) \in SUBSET Int
      /\ Given(launch, config.psl) \in SUBSET Int
  <2>1. OverrideSeqLen(w) \in Nat
    BY <1>1 DEF OverrideSeqLen
  <2>2. CASE w = "target"
    BY <1>1, <1>3, <2>1, <2>2, TargetLengths
  <2>3. CASE w = "draft"
    BY <1>1, <1>3, <2>1, <2>3, TargetLengths, DraftLengths
  <2> QED  BY <2>2, <2>3
<1>6. ASSUME LoadModel PROVE models' \in [{"target", "draft"} -> Loaded]
  <2>1. models' = [models EXCEPT ![w] = [@ EXCEPT
          !.ks = ConfiguredKs(launch, w), !.buffers = ConfiguredKs(launch, w),
          !.cores = Cores(launch, w),
          !.lens = IF w = "target" /\ launch.qpc # "none" THEN Given(launch, config.psl) ELSE {}]]
    BY <1>1, <1>2, <1>6 DEF LoadModel, Loaded
  <2>2. (IF w = "target" /\ launch.qpc # "none" THEN Given(launch, config.psl) ELSE {}) \in SUBSET Int
    BY <1>5
  <2>3. Cores(launch, w) \in 0..HwCores
    BY <1>1, CoresOf
  <2> QED  BY <1>1, <1>4, <2>1, <2>2, <2>3 DEF Loaded
<1>7. ASSUME Compile PROVE models' \in [{"target", "draft"} -> Loaded]
  BY <1>1, <1>2, <1>5, <1>7 DEF Compile, Loaded
<1>8. ASSUME OpenSession PROVE models' \in [{"target", "draft"} -> Loaded]
  <2>1. models[w].lens \in SUBSET Int /\ models[w].ks \in SUBSET Int /\ models[w].buffers \in SUBSET Int
    BY <1>1 DEF Loaded
  <2>2. LoadedKs(w) \in SUBSET Int
    BY <2>1 DEF LoadedKs, SessionKs
  <2>3. Cluster(Role(launch, w)) \in {"none", "prefill", "decode"}
    BY DEF Cluster
  <2>4. (IF Role(launch, w) = "none" THEN 1 ELSE Most(launch.stages, 1)) \in Nat
    BY <1>3, Compare
  <2>5. PICK m : m = [models[w] EXCEPT !.open = TRUE, !.ks = LoadedKs(w), !.buffers = models[w].buffers \cup LoadedKs(w),
                 !.cluster = Cluster(Role(launch, w)),
                 !.stages = IF Role(launch, w) = "none" THEN 1 ELSE Most(launch.stages, 1)]
    OBVIOUS
  <2>6. m \in Loaded
    BY <1>1, <2>1, <2>2, <2>3, <2>4, <2>5 DEF Loaded
  <2>7. models' = [models EXCEPT ![which] =
          [models[which] EXCEPT !.open = TRUE, !.ks = LoadedKs(which), !.buffers = models[which].buffers \cup LoadedKs(which),
             !.cluster = Cluster(Role(launch, which)),
             !.stages = IF Role(launch, which) = "none" THEN 1 ELSE Most(launch.stages, 1)]]
    BY <1>1, <1>8 DEF OpenSession
  <2>8. models' = [models EXCEPT ![w] = m]
    BY <1>2, <2>5, <2>7, Zenon
  <2> QED  BY <1>1, <2>6, <2>8
<1>9. ~(LoadModel \/ Compile \/ OpenSession) => models' = models
  BY DEF Next, vars, Refuse, Configure, Distributed, AddressInUse, NotDistributed, BuildRunner, RunnerFails,
         LoadFails, Downloaded, HubUnreachable, HubRefuses, DownloadFails, CompileFails, LeaveCompiled,
         LeaveTarget, OpenFails, InitializeCache, CacheRefused, WarmUp, WarmUpFails, Fail, Goto, Proceed
<1> QED  BY <1>1, <1>6, <1>7, <1>8, <1>9

(***************************************************************************)
(* The draft model's passes: the cache gets the draft's context, and the   *)
(* budget does not grow while prompts are cut into chunks.                 *)
(***************************************************************************)
LEMMA DraftPass ==
  ASSUME Typed
  PROVE  /\ DraftConfig(launch) \in Configs
         /\ DraftConfig(launch).block = launch.draft.len
         /\ config.chunked /\ ~launch.pooling => DraftConfig(launch).budget <= config.budget
         /\ ~config.chunked => DraftConfig(launch).budget >= launch.draft.len
<1> DEFINE len == launch.draft.len
           first == CheckAndUpdate(launch, config, len)
           again == [first EXCEPT !.psl = launch.draft.psl]
           second == CheckAndUpdate(launch, again, len)
<1>1. config \in Configs /\ launch \in Launches /\ len \in Nat /\ launch.draft.psl \in Nat
  BY LaunchesAssumption DEF Typed, TypeOK, Configs
<1>2. /\ first \in Configs /\ first.block = len
      /\ (first.chunked <=> config.chunked /\ ~launch.pooling)
      /\ first.chunked => first.budget <= config.budget
      /\ ~first.chunked => first.budget >= len
  BY <1>1, Pass DEF Suits
<1> HIDE DEF first
<1>3. again \in Configs /\ again.chunked = first.chunked /\ again.budget = first.budget
  BY <1>1, <1>2 DEF Configs
<1> HIDE DEF again
<1>4. /\ second \in Configs /\ second.block = len
      /\ (second.chunked <=> again.chunked /\ ~launch.pooling)
      /\ second.chunked => second.budget <= again.budget
      /\ ~second.chunked => second.budget >= len
  BY <1>1, <1>3, Pass DEF Suits
<1> HIDE DEF second
<1>5. DraftConfig(launch) = IF launch.draft.own THEN second ELSE first
  BY DEF DraftConfig, first, again, second
<1>6. config.budget \in Nat /\ first.budget \in Nat /\ second.budget \in Nat
  BY <1>1, <1>2, <1>4 DEF Configs
<1>7. CASE config.chunked /\ ~launch.pooling
  <2>1. first.chunked /\ second.chunked
    BY <1>2, <1>3, <1>4, <1>7
  <2>2. second.budget <= config.budget /\ first.budget <= config.budget
    BY <1>2, <1>3, <1>4, <1>6, <2>1
  <2> QED  BY <1>2, <1>4, <1>5, <1>7, <2>2
<1>8. CASE ~(config.chunked /\ ~launch.pooling)
  <2>1. ~first.chunked /\ ~second.chunked
    BY <1>2, <1>3, <1>4, <1>8
  <2> QED  BY <1>2, <1>4, <1>5, <1>8, <2>1
<1> QED  BY <1>7, <1>8

(***************************************************************************)
(* Every step keeps the types.                                             *)
(***************************************************************************)
LEMMA TypeStep ==
  ASSUME Typed, [Next]_vars
  PROVE  Typed'
<1>1. models' \in [{"target", "draft"} -> Loaded]
  BY ModelStep
<1>2. launch' = launch /\ launch \in Launches
  BY DEF Typed, Next, vars, Refuse, Configure, Distributed, AddressInUse, NotDistributed, BuildRunner,
         RunnerFails, LoadModel, LoadFails, Downloaded, HubUnreachable, HubRefuses, DownloadFails, Compile,
         CompileFails, LeaveCompiled, LeaveTarget, OpenSession, OpenFails, InitializeCache, CacheRefused,
         WarmUp, WarmUpFails, Fail, Goto, Proceed
<1>3. phase' \in Phases /\ which' \in {"target", "draft"}
  BY DEF Typed, TypeOK, Phases, Next, vars, Refuse, Configure, Distributed, AddressInUse, NotDistributed,
         BuildRunner, RunnerFails, LoadModel, LoadFails, Downloaded, HubUnreachable, HubRefuses,
         DownloadFails, Compile, CompileFails, LeaveCompiled, LeaveTarget, OpenSession, OpenFails,
         InitializeCache, CacheRefused, WarmUp, WarmUpFails, Fail, Goto, Proceed
<1>4. tries' \in 0..Most(MaxInits, MaxDownloads)
  <2>1. /\ MaxInits \in Nat \ {0} /\ MaxDownloads \in Nat \ {0}
        /\ tries \in 0..Most(MaxInits, MaxDownloads)
    BY StartupAssumption DEF Typed, TypeOK
  <2>2. MaxInits <= Most(MaxInits, MaxDownloads) /\ MaxDownloads <= Most(MaxInits, MaxDownloads)
        /\ Most(MaxInits, MaxDownloads) \in Nat
    BY <2>1, Compare
  <2>3. \/ tries' = tries \/ tries' = 0 \/ tries' = MaxDownloads
        \/ tries' = tries + 1 /\ (tries < MaxInits - 1 \/ tries < MaxDownloads)
    BY DEF Next, vars, Refuse, Configure, Distributed, AddressInUse, NotDistributed,
         BuildRunner, RunnerFails, LoadModel, LoadFails, Downloading, Downloaded, HubUnreachable, HubRefuses,
         DownloadFails, Compile, CompileFails, LeaveCompiled, LeaveTarget, OpenSession, OpenFails,
         InitializeCache, CacheRefused, WarmUp, WarmUpFails, Fail, Goto, Proceed
  <2> QED  BY <2>1, <2>2, <2>3
<1>5. config' \in Configs /\ draft' \in [psl : Nat, budget : Nat]
  <2>1. config \in Configs /\ draft \in [psl : Nat, budget : Nat] /\ launch.maxLen \in Nat
    BY <1>2, LaunchesAssumption DEF Typed, TypeOK, Configs
  <2>2. ASSUME Configure PROVE config' \in Configs /\ draft' = draft
    <3>1. CheckAndUpdate(launch, config, launch.maxLen) \in Configs
      BY <1>2, <2>1, Pass
    <3>2. [config EXCEPT !.async = FALSE, !.block = 16] \in Configs
      BY <2>1 DEF Configs
    <3> QED  BY <2>2, <3>1, <3>2 DEF Configure
  <2>3. ASSUME BuildRunner PROVE config' \in Configs /\ draft' \in [psl : Nat, budget : Nat]
    <3>1. PICK d \in Configs : d = DraftConfig(launch)
      BY DraftPass
    <3>2. SharedBudget(launch) \in Nat
      BY <2>1, <3>1 DEF SharedBudget, Configs
    <3>3. [config EXCEPT !.budget = SharedBudget(launch), !.block = d.block] \in Configs
      BY <2>1, <3>1, <3>2 DEF Configs
    <3>4. [psl |-> d.psl, budget |-> d.budget] \in [psl : Nat, budget : Nat]
      BY <3>1 DEF Configs
    <3> QED  BY <2>1, <2>3, <3>1, <3>3, <3>4 DEF BuildRunner
  <2>4. ASSUME InitializeCache PROVE config' \in Configs /\ draft' = draft
    <3>1. config' = [config EXCEPT !.blocks = launch.seqs + 1] /\ draft' = draft
      BY <2>4 DEF InitializeCache
    <3>2. launch.seqs + 1 \in Int
      BY <1>2, LaunchesAssumption
    <3> QED  BY <2>1, <3>1, <3>2 DEF Configs
  <2>5. ~(Configure \/ BuildRunner \/ InitializeCache) => config' = config /\ draft' = draft
    BY DEF Next, vars, Refuse, Distributed, AddressInUse, NotDistributed,
         RunnerFails, LoadModel, LoadFails, Downloaded, HubUnreachable, HubRefuses,
         DownloadFails, Compile, CompileFails, LeaveCompiled, LeaveTarget, OpenSession, OpenFails,
         CacheRefused, WarmUp, WarmUpFails, Fail, Goto, Proceed
  <2> QED  BY <2>1, <2>2, <2>3, <2>4, <2>5
<1>6. runner' \in [drafter : {"none", "host", "model"}, ks : SUBSET Int]
  <2>1. /\ runner \in [drafter : {"none", "host", "model"}, ks : SUBSET Int]
        /\ models \in [{"target", "draft"} -> Loaded] /\ which \in {"target", "draft"}
    BY DEF Typed, TypeOK, Loaded
  <2>2. \A w \in {"target", "draft"} : models[w].ks \in SUBSET Int /\ models[w].lens \in SUBSET Int
    BY <2>1 DEF Loaded
  <2>3. ASSUME BuildRunner PROVE runner' \in [drafter : {"none", "host", "model"}, ks : SUBSET Int]
    <3>1. ConfiguredKs(launch, "target") \in SUBSET Int
      BY <1>2, Configured, Drafted
    <3>2. (CASE launch.role = "kv_producer" \/ ~Speculates(launch) -> "none"
             [] OwnDrafter(launch) -> "model"
             [] OTHER -> "host") \in {"none", "host", "model"}
      OBVIOUS
    <3> QED  BY <2>3, <3>1, <3>2 DEF BuildRunner
  <2>4. ASSUME LeaveTarget PROVE runner' \in [drafter : {"none", "host", "model"}, ks : SUBSET Int]
    <3>1. runner' = [runner EXCEPT !.ks = models["target"].ks]
      BY <2>4 DEF LeaveTarget
    <3> QED  BY <2>1, <2>2, <3>1
  <2>5. ASSUME OpenSession PROVE runner' \in [drafter : {"none", "host", "model"}, ks : SUBSET Int]
    <3>1. LoadedKs(which) \in SUBSET Int
      BY <2>1, <2>2 DEF LoadedKs, SessionKs
    <3>2. RunnerKs(which) \in SUBSET Int
      BY <2>1, <3>1 DEF RunnerKs
    <3>3. runner' = [runner EXCEPT !.ks = RunnerKs(which)]
      BY <2>5 DEF OpenSession
    <3> QED  BY <2>1, <3>2, <3>3
  <2>6. ~(BuildRunner \/ LeaveTarget \/ OpenSession) => runner' = runner
    BY DEF Next, vars, Refuse, Configure, Distributed, AddressInUse, NotDistributed,
         RunnerFails, LoadModel, LoadFails, Downloaded, HubUnreachable, HubRefuses,
         DownloadFails, Compile, CompileFails, LeaveCompiled, OpenFails,
         InitializeCache, CacheRefused, WarmUp, WarmUpFails, Fail, Goto
  <2> QED  BY <2>1, <2>3, <2>4, <2>5, <2>6
<1> QED  BY <1>1, <1>2, <1>3, <1>4, <1>5, <1>6 DEF Typed, TypeOK, Loaded, Configs

(***************************************************************************)
(* The initial state is typed.                                             *)
(***************************************************************************)
LEMMA TypeInit == Init => Typed
<1> SUFFICES ASSUME Init PROVE Typed
  OBVIOUS
<1>1. launch \in Launches /\ Most(MaxInits, MaxDownloads) \in Nat
  BY StartupAssumption, Compare DEF Init
<1>2. launch.psl \in Nat /\ launch.budget \in Nat /\ launch.chunked \in BOOLEAN /\ launch.async \in BOOLEAN
  BY <1>1, LaunchesAssumption
<1>3. Unloaded \in Loaded
  BY StartupAssumption DEF Unloaded, Loaded
<1> QED  BY <1>1, <1>2, <1>3 DEF Init, Typed, TypeOK, Phases, Loaded

(***************************************************************************)
(* TypeOK: the retry loops stop at their limits, and whatever is rewritten *)
(* or read back keeps its type.                                            *)
(***************************************************************************)
THEOREM StartupTypes == Spec => []TypeOK
<1>1. Typed /\ [Next]_vars => Typed'
  BY TypeStep
<1>2. Typed => TypeOK
  BY DEF Typed
<1> QED  BY <1>1, <1>2, TypeInit, PTL DEF Spec

-----------------------------------------------------------------------------
(***************************************************************************)
(* The way to serving.  The code does not refuse a pooling model that      *)
(* speculates, but such a model has no tokens to draft: launches with both *)
(* are left out.                                                           *)
(***************************************************************************)
Generates == \A l \in Launches : l.pooling => ~Speculates(l)

Built == {"load", "download", "compile", "open", "cache", "warm", "serving"}
Final == {"cache", "warm", "serving"}
Going == {"distribute", "build"} \cup Built

\* Model w is being loaded; it has been opened, or left after its compilation.
Chosen(w) == which = w /\ phase \in {"download", "compile", "open"}
Passed(w) == IF w = "target" THEN phase \in Built /\ (which = "draft" \/ phase \in Final)
             ELSE phase \in Final /\ which = "draft"

\* The scheduler's view, but for the number of blocks.
Sized ==
  LET l == launch  whole == runner.drafter = "model" => l.draft.len >= l.maxLen
  IN  /\ whole => config.block = l.maxLen
      /\ config.chunked => config.budget <= l.seqs * config.psl
      /\ (~config.chunked /\ whole) => config.budget >= l.maxLen
      /\ (l.method = "dflash" /\ config.chunked)
           => config.budget = Least(l.seqs * config.psl, l.budget)

ConfigInv ==
  /\ phase = "configure" => config.budget = launch.budget
  /\ phase \in Going => Sized /\ (config.chunked => ~launch.pooling)
  /\ phase \in {"warm", "serving"} => config.blocks = launch.seqs + 1

DrafterInv ==
  /\ phase \in {"configure", "distribute", "build"} => runner.drafter = "none" /\ which = "target"
  /\ phase \in Built => (runner.drafter = "model" <=> OwnDrafter(launch))
  /\ runner.drafter = "model" => ~config.async
  /\ which = "draft" => runner.drafter = "model"
  /\ phase \in Final /\ runner.drafter = "model" => which = "draft"

\* The target as it was opened, or left unopened for its draft's compilation.
Lengths == {Compiled(launch, "target", config.psl), Given(launch, config.psl)}
Opened ==
  LET t == models["target"]
  IN  /\ t.open /\ t.lens \in Lengths /\ t.cluster = Cluster(launch.role)
      /\ t.ks = IF Speculates(launch)
                THEN SessionKs(ConfiguredKs(launch, "target"), t.lens, config.psl)
                ELSE ConfiguredKs(launch, "target")
      /\ runner.ks = t.ks /\ t.ks \subseteq t.buffers
Unopened == ~models["target"].open /\ Speculates(launch)

TargetInv ==
  /\ (Chosen("target") \/ Passed("target")) =>
       models["target"].cores = Cores(launch, "target") /\ ~DFlashRefused(launch, config.psl)
  /\ Chosen("target") => models["target"].ks = ConfiguredKs(launch, "target")
  /\ Chosen("target") /\ phase = "open" => models["target"].lens \in Lengths
  /\ phase \notin Ended /\ ~Passed("target") => ~models["target"].open
  /\ Passed("target") => Opened \/ Unopened

DraftInv ==
  LET d == models["draft"]
  IN  /\ (d.open \/ Chosen("draft")) => d.cores = Cores(launch, "draft")
      /\ Chosen("draft") => d.ks = {0}
      /\ (Chosen("draft") /\ phase = "open") \/ Passed("draft")
           => d.lens = Compiled(launch, "draft", draft.psl)
      /\ Passed("draft") => d.open /\ d.cluster = "none" /\ d.ks = {0}

ReadyInv == Typed /\ ConfigInv /\ DrafterInv /\ TargetInv /\ DraftInv
            /\ (phase = "serving" => WarmUpPasses(launch))

(***************************************************************************)
(* The steps, by what they write: nothing but a counter; the end of the    *)
(* process; the next phase only; and those that write configuration,       *)
(* runner or models.                                                       *)
(***************************************************************************)
Waits == UNCHANGED <<launch, phase, which, config, draft, runner, models>>
Stops == /\ phase' \in {"failed", "compiled", "eager"}
         /\ UNCHANGED <<launch, which, draft, runner, models>>
         /\ config'.async => config.async
GoesOn == /\ <<phase, phase'>> \in {<<"distribute", "build">>, <<"download", "compile">>}
          /\ UNCHANGED <<launch, which, config, draft, runner, models>>
Starts == Configure /\ launch.aot

LEMMA Steps ==
  ASSUME Typed, [Next]_vars
  PROVE  \/ Waits \/ Stops \/ GoesOn \/ Starts
         \/ BuildRunner \/ LoadModel \/ Compile \/ LeaveTarget \/ OpenSession \/ InitializeCache \/ WarmUp
<1>1. config \in Configs
  BY DEF Typed, TypeOK, Configs
<1>2. Distributed \/ Downloaded => GoesOn
  BY DEF Distributed, Downloaded, Downloading, GoesOn, Goto
<1>3. AddressInUse \/ HubUnreachable \/ HubRefuses \/ UNCHANGED vars => Waits
  BY DEF AddressInUse, HubUnreachable, HubRefuses, Waits, vars
<1>4. Refuse \/ NotDistributed \/ RunnerFails \/ LoadFails \/ DownloadFails \/ CompileFails \/ OpenFails
        \/ CacheRefused \/ WarmUpFails => Stops
  BY DEF Refuse, NotDistributed, RunnerFails, LoadFails, DownloadFails, CompileFails, OpenFails,
         CacheRefused, WarmUpFails, Stops, Fail, Goto
<1>5. LeaveCompiled => Stops
  BY DEF LeaveCompiled, Stops, Goto
<1>6. ASSUME Configure, ~launch.aot PROVE Stops
  <2>1. config' = [config EXCEPT !.async = FALSE, !.block = 16]
    BY <1>6 DEF Configure
  <2>2. config'.async = FALSE
    BY <1>1, <2>1 DEF Configs
  <2> QED  BY <1>6, <2>2 DEF Configure, Stops, Goto
<1> QED  BY <1>2, <1>3, <1>4, <1>5, <1>6 DEF Next, Starts

(***************************************************************************)
(* The draft model does not change the chunk, nor the budget beyond what   *)
(* suits the target, when its context is as long.                          *)
(***************************************************************************)
LEMMA ConfigStep ==
  ASSUME Typed, ConfigInv, DrafterInv, [Next]_vars
  PROVE  ConfigInv'
<1>1. /\ config \in Configs /\ launch \in Launches
      /\ launch.maxLen \in Nat \ {0} /\ launch.draft.len \in Nat /\ launch.draft.len <= launch.maxLen
      /\ launch.seqs \in Nat /\ launch.pooling \in BOOLEAN
  BY LaunchesAssumption DEF Typed, TypeOK, Configs
<1>2. CASE Waits
  BY <1>2 DEF Waits, ConfigInv, Sized
<1>3. CASE Stops
  BY <1>3 DEF Stops, ConfigInv, Going, Built
<1>4. CASE GoesOn
  BY <1>4 DEF GoesOn, ConfigInv, Sized, Going, Built
<1>5. CASE Starts
  <2>1. /\ phase = "configure" /\ phase' = "distribute" /\ launch' = launch /\ runner' = runner
        /\ config' = CheckAndUpdate(launch, config, launch.maxLen)
    BY <1>5 DEF Starts, Configure, Goto
  <2>2. PICK c \in Configs : c = config'
    BY <1>1, <2>1, Pass
  <2>3. /\ c.block = launch.maxLen
        /\ c.chunked => c.budget <= launch.seqs * c.psl
        /\ ~c.chunked => c.budget >= launch.maxLen
        /\ c.chunked => ~launch.pooling
        /\ c.chunked => c.budget = Least(launch.seqs * c.psl, launch.budget)
    <3>1. Suits(launch, c, launch.maxLen) /\ (c.chunked <=> config.chunked /\ ~launch.pooling)
          /\ (c.chunked => c.budget = Least(launch.seqs * c.psl, config.budget))
      <4>1. c = CheckAndUpdate(launch, config, launch.maxLen) /\ launch.maxLen \in Nat
        BY <1>1, <2>1, <2>2
      <4>2. Suits(launch, CheckAndUpdate(launch, config, launch.maxLen), launch.maxLen)
        BY <1>1, <4>1, Pass, Zenon
      <4>3. CheckAndUpdate(launch, config, launch.maxLen).chunked <=> config.chunked /\ ~launch.pooling
        BY <1>1, <4>1, Pass, Zenon
      <4>4. CheckAndUpdate(launch, config, launch.maxLen).chunked =>
              CheckAndUpdate(launch, config, launch.maxLen).budget
                = Least(launch.seqs * CheckAndUpdate(launch, config, launch.maxLen).psl, config.budget)
        BY <1>1, <4>1, Pass, Zenon
      <4> QED  BY <4>1, <4>2, <4>3, <4>4
    <3>2. config.budget = launch.budget
      BY <2>1 DEF ConfigInv
    <3>3. CASE config.chunked /\ ~launch.pooling
      BY <3>1, <3>2, <3>3 DEF Suits
    <3>4. CASE ~(config.chunked /\ ~launch.pooling)
      BY <3>1, <3>4 DEF Suits
    <3> QED  BY <3>3, <3>4
  <2>4. runner.drafter = "none"
    BY <2>1 DEF DrafterInv
  <2> QED  BY <2>1, <2>2, <2>3, <2>4 DEF ConfigInv, Sized
<1>6. CASE BuildRunner
  <2>1. phase = "build" /\ phase' = "load" /\ launch' = launch /\ runner.drafter = "none"
    BY <1>6 DEF BuildRunner, Goto, DrafterInv
  <2>2. Sized /\ (config.chunked => ~launch.pooling)
    BY <2>1 DEF ConfigInv, Going
  <2>3. /\ config.block = launch.maxLen
        /\ config.chunked => config.budget <= launch.seqs * config.psl
        /\ ~config.chunked => config.budget >= launch.maxLen
        /\ launch.method = "dflash" /\ config.chunked
             => config.budget = Least(launch.seqs * config.psl, launch.budget)
    BY <2>1, <2>2 DEF Sized
  <2>4. CASE OwnDrafter(launch)
    <3>1. PICK d \in Configs : d = DraftConfig(launch)
      BY DraftPass
    <3>2. /\ d.block = launch.draft.len
          /\ config.chunked => d.budget <= config.budget
          /\ ~config.chunked => d.budget >= launch.draft.len
      BY <2>2, <3>1, DraftPass
    <3>3. PICK b : b = SharedBudget(launch)
      OBVIOUS
    <3>4. /\ b = IF launch.method = "dflash" THEN config.budget ELSE d.budget
          /\ config' = [config EXCEPT !.budget = b, !.block = d.block]
      BY <1>6, <2>4, <3>1, <3>3 DEF BuildRunner, SharedBudget
    <3>5. /\ config'.psl = config.psl /\ config'.chunked = config.chunked
          /\ config'.budget = b /\ config'.block = launch.draft.len
      BY <1>1, <3>2, <3>4 DEF Configs
    <3>6. launch.seqs * config.psl \in Nat /\ config.budget \in Nat /\ d.budget \in Nat /\ config.psl \in Nat
      BY <1>1, <3>1, Times DEF Configs
    <3>7. /\ launch.draft.len >= launch.maxLen => launch.draft.len = launch.maxLen
          /\ config.chunked => b <= launch.seqs * config.psl
          /\ ~config.chunked /\ launch.draft.len >= launch.maxLen => b >= launch.maxLen
      BY <1>1, <2>3, <3>2, <3>4, <3>6
    <3>8. runner'.drafter = "model"
      BY <1>6, <2>4 DEF BuildRunner, OwnDrafter, Drafting, Speculates
    <3>9. Sized'
      BY <2>1, <2>3, <3>4, <3>5, <3>7, <3>8 DEF Sized
    <3> QED  BY <2>1, <2>2, <3>5, <3>9 DEF ConfigInv
  <2>5. CASE ~OwnDrafter(launch)
    <3>1. config' = config /\ runner'.drafter # "model"
      BY <1>6, <2>5 DEF BuildRunner
    <3> QED  BY <2>1, <2>2, <2>3, <3>1 DEF ConfigInv, Sized
  <2> QED  BY <2>4, <2>5
<1>7. CASE LoadModel \/ Compile
  <2>1. UNCHANGED <<launch, config, runner>> /\ phase \in Built /\ phase' \in {"open", "download"}
    BY <1>7 DEF LoadModel, Compile, Goto, Built
  <2> QED  BY <2>1 DEF ConfigInv, Sized, Going, Built
<1>8. CASE LeaveTarget \/ OpenSession
  <2>1. UNCHANGED <<launch, config>> /\ phase \in Built /\ phase' \in {"load", "cache"}
    BY <1>8 DEF LeaveTarget, OpenSession, Proceed, Goto, Built
  <2>2. runner'.drafter = runner.drafter
    BY <1>8 DEF LeaveTarget, OpenSession, Typed, TypeOK
  <2> QED  BY <2>1, <2>2 DEF ConfigInv, Sized, Going, Built
<1>9. CASE InitializeCache
  <2>1. /\ UNCHANGED <<launch, runner>> /\ phase = "cache" /\ phase' = "warm"
        /\ config' = [config EXCEPT !.blocks = launch.seqs + 1]
    BY <1>9 DEF InitializeCache, Goto
  <2>2. /\ config'.psl = config.psl /\ config'.chunked = config.chunked
        /\ config'.budget = config.budget /\ config'.block = config.block /\ config'.blocks = launch.seqs + 1
    BY <1>1, <2>1 DEF Configs
  <2> QED  BY <2>1, <2>2 DEF ConfigInv, Sized, Going, Built
<1>10. CASE WarmUp
  <2>1. UNCHANGED <<launch, config, runner>> /\ phase = "warm" /\ phase' = "serving"
    BY <1>10 DEF WarmUp, Goto
  <2> QED  BY <2>1 DEF ConfigInv, Sized, Going, Built
<1> QED  BY <1>2, <1>3, <1>4, <1>5, <1>6, <1>7, <1>8, <1>9, <1>10, Steps

(***************************************************************************)
(* The drafter follows from the launch, and is synchronous.                *)
(***************************************************************************)
LEMMA DrafterStep ==
  ASSUME Typed, DrafterInv, [Next]_vars
  PROVE  DrafterInv'
<1>1. runner.drafter \in {"none", "host", "model"} /\ config \in Configs
  BY DEF Typed, TypeOK, Configs
<1>2. CASE Waits
  BY <1>2 DEF Waits, DrafterInv
<1>3. CASE Stops
  BY <1>3 DEF Stops, DrafterInv, Built, Final
<1>4. CASE GoesOn
  BY <1>4 DEF GoesOn, DrafterInv, Built, Final
<1>5. CASE Starts
  <2>1. phase = "configure" /\ phase' = "distribute" /\ UNCHANGED <<launch, runner, which>>
    BY <1>5 DEF Starts, Configure, Goto
  <2> QED  BY <2>1 DEF DrafterInv, Built, Final
<1>6. CASE BuildRunner
  <2>1. /\ phase = "build" /\ phase' = "load" /\ which' = which /\ which = "target" /\ launch' = launch
        /\ runner'.drafter = "model" <=> OwnDrafter(launch)
    BY <1>6 DEF BuildRunner, Goto, DrafterInv, OwnDrafter, Drafting, Speculates
  <2>2. OwnDrafter(launch) => ~config.async
    BY <1>6 DEF BuildRunner, RunnerRefused
  <2>3. config'.async = config.async
    BY <1>1, <1>6 DEF BuildRunner, Configs
  <2> QED  BY <2>1, <2>2, <2>3 DEF DrafterInv, Built, Final
<1>7. CASE LoadModel \/ Compile \/ WarmUp
  <2>1. UNCHANGED <<launch, config, runner, which>> /\ phase \in Built /\ phase' \in {"open", "download", "serving"}
        /\ (phase' = "serving" => phase \in Final)
    BY <1>7 DEF LoadModel, Compile, WarmUp, Goto, Built, Final
  <2> QED  BY <2>1 DEF DrafterInv, Built, Final
<1>8. CASE LeaveTarget \/ OpenSession
  <2>1. /\ UNCHANGED <<launch, config>> /\ phase \in Built
        /\ IF which = "target" /\ runner.drafter = "model" THEN phase' = "load" /\ which' = "draft"
           ELSE phase' = "cache" /\ which' = which
    BY <1>8 DEF LeaveTarget, OpenSession, Proceed, Goto, Built
  <2>2. runner'.drafter = runner.drafter /\ which \in {"target", "draft"}
    BY <1>8 DEF LeaveTarget, OpenSession, Typed, TypeOK
  <2> QED  BY <2>1, <2>2 DEF DrafterInv, Built, Final
<1>9. CASE InitializeCache
  <2>1. UNCHANGED <<launch, runner, which>> /\ phase = "cache" /\ phase' = "warm" /\ config'.async = config.async
    BY <1>1, <1>9 DEF InitializeCache, Goto, Configs
  <2> QED  BY <2>1 DEF DrafterInv, Built, Final
<1> QED  BY <1>2, <1>3, <1>4, <1>5, <1>6, <1>7, <1>8, <1>9, Steps

(***************************************************************************)
(* The target keeps what its loading and its opening wrote.                *)
(***************************************************************************)
LEMMA TargetStep ==
  ASSUME Typed, DrafterInv, TargetInv, [Next]_vars
  PROVE  TargetInv'
<1>1. /\ which \in {"target", "draft"} /\ runner.drafter \in {"none", "host", "model"}
      /\ models \in [{"target", "draft"} -> Loaded] /\ config \in Configs
      /\ runner \in [drafter : {"none", "host", "model"}, ks : SUBSET Int]
  BY DEF Typed, TypeOK, Loaded, Configs
<1>2. CASE Waits
  BY <1>2 DEF Waits, TargetInv, Chosen, Passed, Opened, Unopened, Lengths
<1>3. CASE Stops
  BY <1>3 DEF Stops, TargetInv, Chosen, Passed, Built, Final, Ended
<1>4. CASE GoesOn
  BY <1>4 DEF GoesOn, TargetInv, Chosen, Passed, Opened, Unopened, Lengths, Built, Final, Ended
<1>5. CASE Starts
  <2>1. phase = "configure" /\ phase' = "distribute" /\ UNCHANGED <<launch, runner, which, models>>
    BY <1>5 DEF Starts, Configure, Goto
  <2> QED  BY <2>1 DEF TargetInv, Chosen, Passed, Built, Final, Ended
<1>6. CASE BuildRunner
  <2>1. phase = "build" /\ phase' = "load" /\ which' = "target" /\ UNCHANGED <<launch, models>>
    BY <1>6 DEF BuildRunner, Goto, DrafterInv
  <2> QED  BY <2>1 DEF TargetInv, Chosen, Passed, Built, Final, Ended
<1>7. CASE LoadModel
  <2>1. /\ phase = "load" /\ phase' \in {"open", "download"} /\ UNCHANGED <<launch, config, runner, which>>
        /\ ~LoadRefused(launch, which)
        /\ phase' = "open" <=> which = "target" /\ launch.qpc # "none"
    BY <1>7 DEF LoadModel, Goto
  <2>2. CASE which = "target"
    <3>1. PICK m : m = models'["target"]
      OBVIOUS
    <3>2. models' = [models EXCEPT
            !["target"].ks = ConfiguredKs(launch, "target"),
            !["target"].buffers = ConfiguredKs(launch, "target"),
            !["target"].cores = Cores(launch, "target"),
            !["target"].lens = IF launch.qpc # "none" THEN Given(launch, config.psl) ELSE {}]
      BY <1>7, <2>2 DEF LoadModel
    <3>3. /\ m.ks = ConfiguredKs(launch, "target") /\ m.cores = Cores(launch, "target")
          /\ m.open = models["target"].open
          /\ launch.qpc # "none" => m.lens = Given(launch, config.psl)
      BY <1>1, <3>1, <3>2 DEF Loaded
    <3>4. ~DFlashRefused(launch, config.psl)
      BY <2>1, <2>2 DEF LoadRefused, OverrideSeqLen
    <3>5. ~m.open
      BY <2>1, <2>2, <3>3 DEF TargetInv, Passed, Built, Final, Ended
    <3> QED  BY <2>1, <2>2, <3>1, <3>3, <3>4, <3>5 DEF TargetInv, Chosen, Passed, Built, Final, Ended, Lengths
  <2>3. CASE which = "draft"
    <3>1. models'["target"] = models["target"]
      BY <1>1, <1>7, <2>3 DEF LoadModel
    <3> QED  BY <2>1, <2>3, <3>1 DEF TargetInv, Chosen, Passed, Opened, Unopened, Lengths, Built, Final, Ended
  <2> QED  BY <1>1, <2>2, <2>3
<1>8. CASE Compile
  <2>1. phase = "compile" /\ phase' = "open" /\ UNCHANGED <<launch, config, runner, which>>
    BY <1>8 DEF Compile, Goto
  <2>2. CASE which = "target"
    <3>1. PICK m : m = models'["target"]
      OBVIOUS
    <3>2. models' = [models EXCEPT !["target"].lens = Compiled(launch, "target", config.psl)]
      BY <1>8, <2>2 DEF Compile, OverrideSeqLen
    <3>3. /\ m.ks = models["target"].ks /\ m.cores = models["target"].cores
          /\ m.open = models["target"].open /\ m.lens = Compiled(launch, "target", config.psl)
      BY <1>1, <3>1, <3>2 DEF Loaded
    <3> QED  BY <2>1, <2>2, <3>1, <3>3 DEF TargetInv, Chosen, Passed, Built, Final, Ended, Lengths
  <2>3. CASE which = "draft"
    <3>1. models'["target"] = models["target"]
      BY <1>1, <1>8, <2>3 DEF Compile
    <3> QED  BY <2>1, <2>3, <3>1 DEF TargetInv, Chosen, Passed, Opened, Unopened, Lengths, Built, Final, Ended
  <2> QED  BY <1>1, <2>2, <2>3
<1>9. CASE LeaveTarget
  <2>1. /\ phase = "open" /\ phase' = "load" /\ which = "target" /\ which' = "draft"
        /\ UNCHANGED <<launch, config, models>> /\ launch.method = "draft_model"
    BY <1>9 DEF LeaveTarget, Proceed, Goto
  <2>2. ~models["target"].open /\ Speculates(launch)
    BY <2>1 DEF TargetInv, Passed, Built, Final, Ended, Speculates
  <2> QED  BY <2>1, <2>2 DEF TargetInv, Chosen, Passed, Unopened, Built, Final, Ended
<1>10. CASE OpenSession
  <2>1. /\ phase = "open" /\ UNCHANGED <<launch, config>>
        /\ runner' = [runner EXCEPT !.ks = RunnerKs(which)]
        /\ IF which = "target" /\ runner.drafter = "model" THEN phase' = "load" /\ which' = "draft"
           ELSE phase' = "cache" /\ which' = which
    BY <1>10 DEF OpenSession, Proceed, Goto
  <2>2. CASE which = "target"
    <3>1. PICK m : m = models'["target"]
      OBVIOUS
    <3>2. PICK t : t = models["target"]
      OBVIOUS
    <3>3. m = [t EXCEPT !.open = TRUE, !.ks = LoadedKs("target"),
                 !.buffers = t.buffers \cup LoadedKs("target"),
                 !.cluster = Cluster(Role(launch, "target")),
                 !.stages = IF Role(launch, "target") = "none" THEN 1 ELSE Most(launch.stages, 1)]
      BY <1>1, <1>10, <2>2, <3>1, <3>2 DEF OpenSession
    <3>4. /\ m.open /\ m.lens = t.lens /\ m.cores = t.cores /\ m.cluster = Cluster(launch.role)
          /\ m.ks = LoadedKs("target") /\ m.ks \subseteq m.buffers
      BY <1>1, <3>2, <3>3 DEF Loaded, Role
    <3>5. t.ks = ConfiguredKs(launch, "target") /\ t.lens \in Lengths
          /\ t.cores = Cores(launch, "target") /\ ~DFlashRefused(launch, config.psl)
      BY <2>1, <2>2, <3>2 DEF TargetInv, Chosen
    <3>6. LoadedKs("target") = IF Speculates(launch)
                               THEN SessionKs(ConfiguredKs(launch, "target"), t.lens, config.psl)
                               ELSE ConfiguredKs(launch, "target")
      BY <3>2, <3>5 DEF LoadedKs, OverrideSeqLen
    <3>7. runner'.ks = LoadedKs("target")
      BY <1>1, <2>1, <2>2 DEF RunnerKs
    <3>8. Lengths' = Lengths
      BY <2>1 DEF Lengths
    <3>9. Opened'
      BY <2>1, <3>1, <3>4, <3>5, <3>6, <3>7, <3>8 DEF Opened
    <3> QED  BY <1>1, <2>1, <2>2, <3>1, <3>4, <3>5, <3>9 DEF TargetInv, Chosen, Passed, Built, Final, Ended
  <2>3. CASE which = "draft"
    <3>1. models'["target"] = models["target"]
      BY <1>1, <1>10, <2>3 DEF OpenSession
    <3>2. runner'.ks = runner.ks
      BY <1>1, <2>1, <2>3 DEF RunnerKs
    <3> QED  BY <2>1, <2>3, <3>1, <3>2 DEF TargetInv, Chosen, Passed, Opened, Unopened, Lengths, Built, Final, Ended
  <2> QED  BY <1>1, <2>2, <2>3
<1>11. CASE InitializeCache
  <2>1. /\ UNCHANGED <<launch, runner, which, models>> /\ phase = "cache" /\ phase' = "warm"
        /\ config'.psl = config.psl
    BY <1>1, <1>11 DEF InitializeCache, Goto, Configs
  <2> QED  BY <2>1 DEF TargetInv, Chosen, Passed, Opened, Unopened, Lengths, Built, Final, Ended
<1>12. CASE WarmUp
  <2>1. UNCHANGED <<launch, config, runner, which, models>> /\ phase = "warm" /\ phase' = "serving"
    BY <1>12 DEF WarmUp, Goto
  <2> QED  BY <2>1 DEF TargetInv, Chosen, Passed, Opened, Unopened, Lengths, Built, Final, Ended
<1> QED  BY <1>2, <1>3, <1>4, <1>5, <1>6, <1>7, <1>8, <1>9, <1>10, <1>11, <1>12, Steps

(***************************************************************************)
(* So does the draft model.                                                *)
(***************************************************************************)
LEMMA DraftStep ==
  ASSUME Typed, DrafterInv, DraftInv, [Next]_vars
  PROVE  DraftInv'
<1>1. /\ which \in {"target", "draft"} /\ models \in [{"target", "draft"} -> Loaded]
  BY DEF Typed, TypeOK, Loaded
<1>2. CASE Waits
  BY <1>2 DEF Waits, DraftInv, Chosen, Passed
<1>3. CASE Stops
  BY <1>3 DEF Stops, DraftInv, Chosen, Passed, Built, Final
<1>4. CASE GoesOn
  BY <1>4 DEF GoesOn, DraftInv, Chosen, Passed, Built, Final
<1>5. CASE Starts
  <2>1. phase = "configure" /\ phase' = "distribute" /\ UNCHANGED <<launch, which, models>>
    BY <1>5 DEF Starts, Configure, Goto
  <2> QED  BY <2>1 DEF DraftInv, Chosen, Passed, Built, Final
<1>6. CASE BuildRunner
  <2>1. phase' = "load" /\ UNCHANGED <<launch, models>>
    BY <1>6 DEF BuildRunner, Goto
  <2> QED  BY <2>1 DEF DraftInv, Chosen, Passed, Built, Final
<1>7. CASE LoadModel
  <2>1. /\ phase = "load" /\ phase' \in {"open", "download"} /\ UNCHANGED <<launch, which, draft>>
        /\ phase' = "open" <=> which = "target" /\ launch.qpc # "none"
    BY <1>7 DEF LoadModel, Goto
  <2>2. CASE which = "draft"
    <3>1. PICK m : m = models'["draft"]
      OBVIOUS
    <3>2. m.ks = ConfiguredKs(launch, "draft") /\ m.cores = Cores(launch, "draft")
      BY <1>1, <1>7, <2>2, <3>1 DEF LoadModel, Loaded
    <3>3. ConfiguredKs(launch, "draft") = {0}
      BY DEF ConfiguredKs
    <3> QED  BY <2>1, <2>2, <3>1, <3>2, <3>3 DEF DraftInv, Chosen, Passed, Final
  <2>3. CASE which = "target"
    <3>1. models'["draft"] = models["draft"]
      BY <1>1, <1>7, <2>3 DEF LoadModel
    <3> QED  BY <2>1, <2>3, <3>1 DEF DraftInv, Chosen, Passed, Final
  <2> QED  BY <1>1, <2>2, <2>3
<1>8. CASE Compile
  <2>1. phase = "compile" /\ phase' = "open" /\ UNCHANGED <<launch, which, draft>>
    BY <1>8 DEF Compile, Goto
  <2>2. CASE which = "draft"
    <3>1. PICK m : m = models'["draft"]
      OBVIOUS
    <3>2. models' = [models EXCEPT !["draft"].lens = Compiled(launch, "draft", draft.psl)]
      BY <1>8, <2>2 DEF Compile, OverrideSeqLen
    <3>3. /\ m.ks = models["draft"].ks /\ m.cores = models["draft"].cores
          /\ m.open = models["draft"].open /\ m.lens = Compiled(launch, "draft", draft.psl)
      BY <1>1, <3>1, <3>2 DEF Loaded
    <3> QED  BY <2>1, <2>2, <3>1, <3>3 DEF DraftInv, Chosen, Passed, Final
  <2>3. CASE which = "target"
    <3>1. models'["draft"] = models["draft"]
      BY <1>1, <1>8, <2>3 DEF Compile
    <3> QED  BY <2>1, <2>3, <3>1 DEF DraftInv, Chosen, Passed, Final
  <2> QED  BY <1>1, <2>2, <2>3
<1>9. CASE LeaveTarget
  <2>1. phase' = "load" /\ UNCHANGED <<launch, models>>
    BY <1>9 DEF LeaveTarget, Proceed, Goto
  <2> QED  BY <2>1 DEF DraftInv, Chosen, Passed, Final
<1>10. CASE OpenSession
  <2>1. /\ phase = "open" /\ UNCHANGED <<launch, draft>>
        /\ IF which = "target" /\ runner.drafter = "model" THEN phase' = "load" /\ which' = "draft"
           ELSE phase' = "cache" /\ which' = which
    BY <1>10 DEF OpenSession, Proceed, Goto
  <2>2. CASE which = "draft"
    <3>1. PICK m : m = models'["draft"]
      OBVIOUS
    <3>2. PICK t : t = models["draft"]
      OBVIOUS
    <3>3. m = [t EXCEPT !.open = TRUE, !.ks = LoadedKs("draft"),
                 !.buffers = t.buffers \cup LoadedKs("draft"),
                 !.cluster = Cluster(Role(launch, "draft")),
                 !.stages = IF Role(launch, "draft") = "none" THEN 1 ELSE Most(launch.stages, 1)]
      BY <1>1, <1>10, <2>2, <3>1, <3>2 DEF OpenSession
    <3>4. /\ m.open /\ m.lens = t.lens /\ m.cores = t.cores /\ m.cluster = "none" /\ m.ks = t.ks
      BY <1>1, <3>2, <3>3 DEF Loaded, Role, Cluster, LoadedKs
    <3>5. t.ks = {0} /\ t.lens = Compiled(launch, "draft", draft.psl) /\ t.cores = Cores(launch, "draft")
      BY <2>1, <2>2, <3>2 DEF DraftInv, Chosen
    <3> QED  BY <2>1, <2>2, <3>1, <3>4, <3>5 DEF DraftInv, Chosen, Passed, Final
  <2>3. CASE which = "target"
    <3>1. models'["draft"] = models["draft"]
      BY <1>1, <1>10, <2>3 DEF OpenSession
    <3> QED  BY <2>1, <2>3, <3>1 DEF DraftInv, Chosen, Passed, Final
  <2> QED  BY <1>1, <2>2, <2>3
<1>11. CASE InitializeCache \/ WarmUp
  <2>1. UNCHANGED <<launch, draft, which, models>> /\ phase \in Final /\ phase' \in Final
    BY <1>11 DEF InitializeCache, WarmUp, Goto, Final
  <2> QED  BY <2>1 DEF DraftInv, Chosen, Passed, Final
<1> QED  BY <1>2, <1>3, <1>4, <1>5, <1>6, <1>7, <1>8, <1>9, <1>10, <1>11, Steps

(***************************************************************************)
(* Serving starts from a warm-up that has passed.                          *)
(***************************************************************************)
LEMMA WarmStep ==
  ASSUME Typed, phase = "serving" => WarmUpPasses(launch), [Next]_vars
  PROVE  phase' = "serving" => WarmUpPasses(launch)'
<1> SUFFICES ASSUME phase' = "serving" PROVE WarmUpPasses(launch)'
  OBVIOUS
<1>1. Waits \/ WarmUp
  BY Steps DEF Stops, GoesOn, Starts, Configure, BuildRunner, LoadModel, Compile, LeaveTarget, OpenSession,
               InitializeCache, Goto, Proceed
<1>2. UNCHANGED <<launch, config, runner, models>> /\ WarmUpPasses(launch)
  BY <1>1 DEF Waits, WarmUp, Goto
<1> QED  BY <1>2 DEF WarmUpPasses, DecodeRuns, PrefillRuns, Accepts

-----------------------------------------------------------------------------
(***************************************************************************)
(* A target that passed its warm-up knows the widths it can run: had the   *)
(* session left no width to read back, the decode of K + 1 tokens would    *)
(* have been refused.                                                      *)
(***************************************************************************)
LEMMA WidthsKnown ==
  ASSUME ReadyInv, Generates, phase = "serving"
  PROVE  models["target"].open /\ WidthsServed
<1>1. /\ launch \in Launches /\ config.psl \in Nat /\ launch.role \in {"none", "kv_producer", "kv_consumer"}
      /\ launch.pooling \in BOOLEAN
  BY LaunchesAssumption DEF ReadyInv, Typed, TypeOK
<1>2. WarmUpPasses(launch) /\ (Opened \/ Unopened)
  BY DEF ReadyInv, TargetInv, Passed, Built, Final
<1>3. CASE launch.pooling
  <2>1. ~Speculates(launch)
    BY <1>1, <1>3 DEF Generates
  <2> QED  BY <1>2, <1>3, <2>1 DEF Opened, Unopened, WidthsServed
<1>4. CASE ~launch.pooling
  <2>1. DecodeRuns(launch) \/ PrefillRuns
    BY <1>2, <1>4 DEF WarmUpPasses
  <2>2. models["target"].open
    BY <2>1 DEF DecodeRuns, PrefillRuns, Accepts
  <2>3. Opened
    BY <1>2, <2>2 DEF Unopened
  <2>4. PICK lens : lens = models["target"].lens
    OBVIOUS
  <2>5. PICK ks : ks = models["target"].ks
    OBVIOUS
  <2>6. lens \in SUBSET {config.psl, 1, K(launch) + 1}
    BY <1>1, <2>3, <2>4, TargetLengths DEF Opened, Lengths
  <2>7. /\ launch.role # "kv_producer" => DecodeRuns(launch)
        /\ launch.role # "kv_consumer" => PrefillRuns
    BY <1>1, <1>2, <1>4, <2>3 DEF WarmUpPasses, Opened, Cluster
  <2>8. /\ DecodeRuns(launch) <=> MaxK(ks) + 1 \in lens /\ MaxK(ks) = K(launch)
        /\ PrefillRuns <=> config.psl \in lens
    BY <2>2, <2>3, <2>4, <2>5 DEF DecodeRuns, PrefillRuns, Accepts, Opened
  <2>9. ASSUME config.psl # K(launch) + 1, launch.role # "kv_producer"
        PROVE  K(launch) \in ks /\ \A k \in ks : k + 1 \in lens
    <3>1. K(launch) \in Nat /\ MaxK(ks) + 1 \in lens /\ MaxK(ks) = K(launch)
      BY <1>1, <2>7, <2>8, <2>9, Drafted
    <3>2. CASE Speculates(launch)
      <4>1. PICK cs : cs = ConfiguredKs(launch, "target")
        OBVIOUS
      <4>2. cs \in {{K(launch)}, {0, K(launch)}} /\ ks = SessionKs(cs, lens, config.psl)
        BY <1>1, <2>3, <2>4, <2>5, <3>2, <4>1, Configured DEF Opened
      <4>3. /\ ks \subseteq {0, K(launch)} /\ ks # {}
            /\ \/ lens \subseteq {config.psl}
               \/ \A k \in ks : k + 1 \in lens
        BY <1>1, <2>6, <4>2, ReadBack
      <4>4. MaxK(ks) \in ks
        BY <3>1, <4>3, Widest
      <4> QED  BY <2>9, <3>1, <4>3, <4>4
    <3>3. CASE ~Speculates(launch)
      <4>1. ks = {0} /\ K(launch) = 0
        BY <1>1, <2>3, <2>5, <3>3, Configured, Drafted DEF Opened
      <4> QED  BY <3>1, <4>1
    <3> QED  BY <3>2, <3>3
  <2> QED  BY <2>2, <2>3, <2>4, <2>5, <2>7, <2>8, <2>9 DEF WidthsServed, Opened
<1> QED  BY <1>1, <1>3, <1>4

(***************************************************************************)
(* The invariant implies the property.                                     *)
(***************************************************************************)
LEMMA ReadyImplies == ReadyInv /\ Generates => ServiceReady
<1> SUFFICES ASSUME ReadyInv, Generates, phase = "serving"
             PROVE  models["target"].open /\ WidthsServed /\ DraftServed /\ CoresFit /\ SchedulerFits
  BY DEF ServiceReady
<1>1. /\ launch \in Launches /\ draft.psl \in Nat /\ launch.pooling \in BOOLEAN
      /\ launch.draft.len \in Nat /\ launch.maxLen \in Nat
  BY LaunchesAssumption DEF ReadyInv, Typed, TypeOK
<1>2. DraftServed
  <2> SUFFICES ASSUME runner.drafter = "model"
               PROVE  LET d == models["draft"]
                      IN  /\ d.open /\ d.cluster = "none" /\ d.ks = {0} /\ ~config.async
                          /\ IF launch.method = "dflash"
                             THEN launch.K + 1 \in d.lens /\ config.psl % (launch.K + 1) = 0
                             ELSE {1, draft.psl} \subseteq d.lens
    BY DEF DraftServed
  <2>1. which = "draft" /\ OwnDrafter(launch) /\ ~config.async
    BY DEF ReadyInv, DrafterInv, Built, Final
  <2>2. ~launch.pooling /\ launch.role # "kv_producer"
    BY <1>1, <2>1 DEF OwnDrafter, Drafting, Speculates, Generates
  <2>3. PICK d : d = models["draft"]
    OBVIOUS
  <2>4. d.open /\ d.cluster = "none" /\ d.ks = {0} /\ d.lens = Compiled(launch, "draft", draft.psl)
    BY <2>1, <2>3 DEF ReadyInv, DraftInv, Passed, Final
  <2>5. d.lens = IF launch.method = "dflash" THEN {launch.K + 1} ELSE {draft.psl, 1}
    BY <1>1, <2>2, <2>4, DraftLengths
  <2>6. ~DFlashRefused(launch, config.psl)
    BY DEF ReadyInv, TargetInv, Passed, Built, Final
  <2>7. launch.method = "dflash" => config.psl % (launch.K + 1) = 0
    BY <2>6 DEF DFlashRefused
  <2> QED  BY <2>1, <2>3, <2>4, <2>5, <2>7
<1>3. CoresFit
  <2>1. models["target"].cores = Cores(launch, "target")
    BY DEF ReadyInv, TargetInv, Passed, Built, Final
  <2>2. models["draft"].open => models["draft"].cores = Cores(launch, "draft")
    BY DEF ReadyInv, DraftInv
  <2> QED  BY <1>1, <2>1, <2>2, CoresOf DEF CoresFit
<1>4. SchedulerFits
  BY DEF ReadyInv, ConfigInv, Sized, SchedulerFits, Going, Built
<1> QED  BY <1>2, <1>3, <1>4, WidthsKnown

(***************************************************************************)
(* ServiceReady: every process that serves has a target that runs every    *)
(* width the scheduler and the runner ask for, a complete draft model if   *)
(* it drafts, cores and cache that fit, and a budget that suits the chunk, *)
(* for every launch and whatever the outside answered on the way.          *)
(***************************************************************************)
THEOREM ServingIsReady == Generates => (Spec => []ServiceReady)
<1> SUFFICES ASSUME Generates PROVE Spec => []ServiceReady
  OBVIOUS
<1>1. Init => ReadyInv
  <2> SUFFICES ASSUME Init PROVE ReadyInv
    OBVIOUS
  <2>1. ConfigInv /\ DrafterInv
    BY DEF Init, ConfigInv, DrafterInv, Going, Built, Final
  <2>2. TargetInv /\ DraftInv
    BY DEF Init, TargetInv, DraftInv, Chosen, Passed, Built, Final, Unloaded
  <2> QED  BY <2>1, <2>2, TypeInit DEF ReadyInv, Init
<1>2. ReadyInv /\ [Next]_vars => ReadyInv'
  BY TypeStep, ConfigStep, DrafterStep, TargetStep, DraftStep, WarmStep DEF ReadyInv
<1>3. ReadyInv => ServiceReady
  BY ReadyImplies
<1> QED  BY <1>1, <1>2, <1>3, PTL DEF Spec
===============================================================================
