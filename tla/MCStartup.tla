------------------------------- MODULE MCStartup -------------------------------
(* Launch configurations in families: each varies what interacts and holds  *)
(* the rest.  Contexts of 8 tokens, chunks of 2, 4 (the default here) or 8, *)
(* K of 1 and 3 (blocks of 2 and 4): a chunk is longer than, equal to or    *)
(* shorter than a decode specialisation.                                    *)
EXTENDS Startup

Plain == [aot |-> TRUE, method |-> "none", K |-> 1, role |-> "none", stages |-> 2, async |-> FALSE,
          lora |-> FALSE, mm |-> FALSE, pooling |-> FALSE, pooler |-> TRUE, chunked |-> TRUE,
          sampler |-> FALSE, psl |-> 0, only |-> "none", qpc |-> "none", compileOnly |-> {},
          block |-> 2, lost |-> FALSE, maxLen |-> 8, seqs |-> 2, budget |-> 16, blocks |-> 0,
          group |-> {0}, draft |-> [own |-> FALSE, psl |-> 0, len |-> 8, group |-> {0}]]
Methods == {"none", "ngram", "suffix", "draft_model", "dflash", "eagle"}
Roles == {"none", "kv_producer", "kv_consumer"}
Shared == [own : {FALSE}, psl : {0}, len : {4, 8}, group : {{0}}]
Own == [own : {TRUE}, psl : {0, 2}, len : {4, 8}, group : {{0}, {1}}]

\* Speculation against roles, widths and given QPCs.
Widths ==
  {[Plain EXCEPT !.method = m, !.K = k, !.block = k + 1, !.role = r, !.psl = p, !.qpc = q, !.only = o] :
     m \in Methods, k \in {1, 3}, r \in Roles, p \in {0, 2}, q \in {"none", "missing", "one", "max", "both"},
     o \in {"none", "true", "false"}}
\* Draft models: their own override or the shared one, contexts, devices, budgets.
Drafts ==
  {[Plain EXCEPT !.method = m, !.K = k, !.block = b, !.role = r, !.psl = p, !.draft = d, !.seqs = s,
                 !.budget = g, !.chunked = c] :
     m \in {"draft_model", "dflash"}, k \in {1, 3}, b \in {2, 4}, r \in {"none", "kv_consumer"},
     p \in {0, 2}, d \in Shared \cup Own, s \in {1, 2}, g \in {6, 16}, c \in BOOLEAN}
\* The features that exclude each other.
Features ==
  {[Plain EXCEPT !.aot = a, !.method = m, !.lora = l, !.mm = v, !.pooling = e, !.pooler = d,
                 !.chunked = c, !.sampler = s, !.async = y, !.lost = x] :
     a \in BOOLEAN, m \in {"none", "ngram"}, l \in BOOLEAN, v \in BOOLEAN, e \in BOOLEAN, d \in BOOLEAN,
     c \in BOOLEAN, s \in BOOLEAN, y \in BOOLEAN, x \in BOOLEAN}
\* Pipelines, asynchronous scheduling, block overrides and compile-only runs.
Modes ==
  {[Plain EXCEPT !.method = m, !.role = r, !.stages = t, !.async = y, !.seqs = s, !.blocks = b,
                 !.compileOnly = o, !.draft.own = Cardinality(o) = 1] :
     m \in Methods, r \in Roles, t \in 0..2, y \in BOOLEAN, s \in {1, 3}, b \in {0, 3, 4},
     o \in SUBSET {"target", "draft"}}
MCLaunches == Widths \cup Drafts \cup Features \cup Modes
===============================================================================
