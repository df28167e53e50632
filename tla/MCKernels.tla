----------------------------- MODULE MCKernels ------------------------------
(* Every input of a small shape for the algorithms of Kernels.             *)
EXTENDS Kernels

CONSTANTS i1, i2    \* images
-----------------------------------------------------------------------------
(* Rejection sampling: two requests, up to two drafts between them.        *)

From0(s) == [i \in 0..Len(s) - 1 |-> s[i + 1]]
MCWorkloads ==
  {[cu |-> From0(ends), bonus |-> From0(<<8, 9>>), max_spec_len |-> 2, vocab_size |-> 3,
    drafts |-> {0, 2},
    targets |-> {From0(<<2, 1, 0>>), From0(<<1, 1, 2>>), From0(<<0, 2, 2>>)},
    proposals |-> {From0(<<1, 0, 2>>), From0(<<2, 1, 0>>)},
    noises |-> {[r \in 0..1 |-> From0(<<1, 1, 1>>)], [r \in 0..1 |-> From0(<<1, 2, 1>>)]},
    uniforms |-> 0..2, rates |-> From0(<<2, 1>>)] :
     ends \in {<<0, 1>>, <<0, 2>>, <<1, 1>>, <<1, 2>>, <<2, 2>>}}

\* One rejected draft over a vocabulary longer than two blocks of lanes.
MCRecoveries ==
  {[cu |-> From0(<<1>>), vocab_size |-> 5, drafts |-> {0, 3, 4}, targets |-> [0..4 -> 0..2],
    proposals |-> {From0(<<0, 1, 0, 1, 0>>)}, uniforms |-> {},
    noises |-> {From0(<<From0(<<1, 1, 1, 1, 1>>)>>), From0(<<From0(<<1, 2, 1, 2, 1>>)>>)}]}
-----------------------------------------------------------------------------
(* Expert routing.                                                         *)

Config(e, g, kg, k, renormalize, bias) ==
  [num_experts |-> e, num_groups |-> g, topk_group |-> kg, topk |-> k,
   renormalize |-> renormalize, use_bias |-> bias]
GroupedConfigs ==
  {Config(6, 3, 2, 3, FALSE, TRUE), Config(6, 2, 1, 2, TRUE, TRUE),
   Config(6, 2, 2, 1, FALSE, FALSE), Config(6, 3, 1, 2, TRUE, FALSE),
   Config(6, 2, 4, 4, TRUE, TRUE), Config(5, 1, 1, 4, FALSE, FALSE),
   Config(6, 4, 2, 2, TRUE, TRUE), Config(4, 2, 1, 5, FALSE, TRUE)}
RegularConfigs == {Config(5, 0, 0, 3, TRUE, TRUE), Config(3, 0, 0, 4, FALSE, TRUE),
                   Config(9, 0, 0, 3, FALSE, FALSE)}
Biases(n) == {[e \in 0..n - 1 |-> 0], [e \in 0..n - 1 |-> e % 2],
              [e \in 0..n - 1 |-> IF e >= 2 THEN 1 ELSE 0]}
Scores(n) == [0..n - 1 -> IF n > 6 THEN 0..1 ELSE 0..2]

MCRouters ==
  {[c |-> c, grouped |-> c \in GroupedConfigs,
    scores |-> Scores(c.num_experts), biases |-> Biases(c.num_experts)] :
     c \in GroupedConfigs \cup RegularConfigs}
MCLaunches == [num_tokens : 0..7, workers : 1..5]
-----------------------------------------------------------------------------
(* Multimodal prompts: up to three images in a prompt of text, more than   *)
(* the compiled rows hold when all of them are in one step.                *)

\* "flat" placeholders carry a marker in front of and behind the embeddings
Placement(kind, offset, patches, hash) ==
  LET n == EmbedCount(kind, patches)
      marked == kind = "flat"
  IN [offset |-> offset, hash |-> hash, patches |-> patches,
      length |-> IF marked THEN n + 2 ELSE n,
      is_embed |-> IF marked THEN [j \in 1..n + 2 |-> j \in 2..n + 1] ELSE NoMask]
PatchCounts(kind) == CASE kind = "flat" -> 1..MaxPatches
                       [] kind = "grid" -> {MergeSize, 2 * MergeSize}
                       [] kind = "tensor" -> {2}
Kinds == {"flat", "grid", "tensor"}
Prompt(kind, hashes, p, lead, gap) ==
  LET f1 == Placement(kind, lead, p[1], hashes[1])
      f2 == Placement(kind, lead + f1.length + gap, p[2], hashes[2])
  IN [kind |-> kind, features |-> <<f1, f2>>, length |-> f2.offset + f2.length + 1,
      batch |-> IF hashes[1] = hashes[2] THEN <<1>> ELSE <<1, 2>>]
\* The first image again behind the second, which is encoded before the first.
Again(p) ==
  LET f1 == p.features[1]
      f3 == [f1 EXCEPT !.offset = p.length]
  IN [p EXCEPT !.features = Append(@, f3), !.length = @ + f1.length, !.batch = <<2, 3>>]

MCPrompts ==
  LET two == UNION {{Prompt(kind, <<i1, i2>>, p, lead, gap) :
                       lead \in 0..1, gap \in 0..1, p \in PatchCounts(kind) \X PatchCounts(kind)} :
                    kind \in Kinds}
      same == UNION {{Prompt(kind, <<i1, i1>>, <<n, n>>, lead, gap) :
                       lead \in 0..1, gap \in 0..1, n \in PatchCounts(kind)} :
                     kind \in Kinds}
  IN two \cup same \cup {Again(p) : p \in two}
=============================================================================
