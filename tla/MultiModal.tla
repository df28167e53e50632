----------------------------- MODULE MultiModal -----------------------------
(* From the pixels of a request's images to the vision embeddings one      *)
(* prefill step hands to the language model: how QaicMultiModal splits,    *)
(* pads, encodes and trims (qaic_multimodal.py) and how the runner gathers *)
(* from the encoder cache what the scheduled tokens need (model_runner.py).*)
(* A patch is <<image, index>>; what the encoder makes of it is a token    *)
(* <<patch, index>>, whose H columns and D deepstack layers are spelt out. *)
EXTENDS Integers, Sequences, FiniteSetsExt

CONSTANTS
  TokensPerPatch,   \* embeddings the encoder makes of a patch ("flat", "tensor")
  MaxPatches,       \* patches the vision encoder is compiled for ("flat")
  MergeSize,        \* patches merged into one embedding ("grid")
  VisionSize,       \* embeddings the language model is compiled for
  H, D,             \* hidden size, deepstack layers
  NoMask, Zero      \* no mask; padding

ASSUME MultiModalAssumption ==
  /\ {TokensPerPatch, MaxPatches, MergeSize, VisionSize, H} \subseteq Nat \ {0}
  /\ D \in Nat

\* Where the pieces of a flat sequence end, and the next ones start.
Offsets(sizes) ==
  LET at[i \in 0..Len(sizes)] == IF i = 0 THEN 0 ELSE at[i - 1] + sizes[i]
  IN at

\* torch.split of a flat sequence into pieces of the given sizes.
Split(flat, sizes) ==
  [i \in DOMAIN sizes |->
     SubSeq(flat, Offsets(sizes)[i - 1] + 1, Offsets(sizes)[i])]

PadOrCrop(s, target) ==
  [i \in 1..target |-> IF i <= Len(s) THEN s[i] ELSE Zero]
-----------------------------------------------------------------------------
\* kind: "flat" InternVL, "grid" Qwen-VL, "tensor" a batch of equal images.
\* pixels: the patches of all images one after the other; patches: per image.
ParseRaw(kind, pixels, patches) ==
  CASE kind = "flat" -> [i \in DOMAIN patches |->
                           PadOrCrop(Split(pixels, patches)[i], MaxPatches)]
    [] kind = "grid" -> Split(pixels, patches)
    [] kind = "tensor" -> LET chunk == Len(pixels) \div Len(patches)
                          IN [i \in DOMAIN patches |->
                                SubSeq(pixels, chunk * (i - 1) + 1, chunk * i)]

\* Rows of the output array of one image, sized before the encoder runs.
OutputRows(kind, input) ==
  IF kind = "grid" THEN Len(input) \div MergeSize
  ELSE Len(input) * TokensPerPatch

\* The vision encoder: a row per patch and index, or per merged patches.
EncoderRow(kind, input, k) ==
  IF kind = "grid" THEN <<input[k * MergeSize + 1], 0>>
  ELSE <<input[(k \div TokensPerPatch) + 1], k % TokensPerPatch>>

\* Deepstack layers travel in the columns behind the H of the embedding.
Column(token, layer, h) == <<token, layer, h>>

CombineDeepstack(embed, deepstack) ==
  [c \in 0..H * (1 + D) - 1 |->
     IF c < H THEN embed[c] ELSE deepstack[(c \div H) - 1][c % H]]

ExtractDeepstack(row) ==
  [embed |-> [h \in 0..H - 1 |-> row[h]],
   deepstack |-> [d \in 0..D - 1 |-> [h \in 0..H - 1 |-> row[H + d * H + h]]]]

Feature(token) ==
  CombineDeepstack([h \in 0..H - 1 |-> Column(token, "embed", h)],
                   [d \in 0..D - 1 |-> [h \in 0..H - 1 |-> Column(token, d, h)]])

\* One run of the encoder per image; a padded image is cut back to the rows
\* of its own patches.
PixelsToFeatures(kind, inputs, patches) ==
  [i \in DOMAIN inputs |->
     LET rows == OutputRows(kind, inputs[i])
         padded == Len(inputs[i])
         kept == IF kind = "flat" /\ patches[i] < padded
                 THEN patches[i] * (rows \div padded) ELSE rows
     IN [k \in 1..kept |-> Feature(EncoderRow(kind, inputs[i], k - 1))]]

EmbedMultimodal(kind, pixels, patches) ==
  PixelsToFeatures(kind, ParseRaw(kind, pixels, patches), patches)
-----------------------------------------------------------------------------
\* f: a placeholder range of the prompt: offset, length, is_embed (which of
\* its positions take an embedding; NoMask: all of them) and the hash its
\* encoder output is cached under.
EmbedsBefore(f, n) ==
  IF f.is_embed = NoMask THEN n
  ELSE Cardinality({j \in 1..n : f.is_embed[j]})

\* Slip: an image that started in an earlier step is gathered from its start.
GatherItemSlip(g, f, cache, computed, scheduled) ==
  LET start_idx == 0
      end_idx == Min({computed - f.offset + scheduled, f.length})
      embeds_start == EmbedsBefore(f, start_idx)
      embeds_end == EmbedsBefore(f, end_idx)
      item == IF f.is_embed # NoMask
              THEN SubSeq(cache[f.hash], embeds_start + 1, embeds_end)
              ELSE SubSeq(cache[f.hash], start_idx + 1, end_idx)
  IN IF g.break \/ f.offset >= computed + scheduled
     THEN [g EXCEPT !.break = TRUE]
     ELSE IF f.offset + f.length <= computed \/ embeds_start = embeds_end
     THEN g ELSE [g EXCEPT !.embeds = @ \o item]

\* What the step that computes positions [computed, computed + scheduled) of
\* the prompt gathers from f, behind what it has gathered so far.
GatherItem(g, f, cache, computed, scheduled) ==
  LET start_idx == Max({computed - f.offset, 0})
      end_idx == Min({computed - f.offset + scheduled, f.length})
      embeds_start == EmbedsBefore(f, start_idx)
      embeds_end == EmbedsBefore(f, end_idx)
      item == IF f.is_embed # NoMask
              THEN SubSeq(cache[f.hash], embeds_start + 1, embeds_end)
              ELSE SubSeq(cache[f.hash], start_idx + 1, end_idx)
  IN IF g.break \/ f.offset >= computed + scheduled
     THEN [g EXCEPT !.break = TRUE]
     ELSE IF f.offset + f.length <= computed \/ embeds_start = embeds_end
     THEN g ELSE [g EXCEPT !.embeds = @ \o item]

\* In the order of the request's placeholder ranges.
Gather(mm_features, cache, computed, scheduled) ==
  LET after[k \in 0..Len(mm_features)] ==
        IF k = 0 THEN [break |-> FALSE, embeds |-> <<>>]
        ELSE GatherItem(after[k - 1], mm_features[k], cache, computed, scheduled)
  IN after[Len(mm_features)].embeds

\* The arrays of the session: embeddings and deepstack layers, both padded
\* (or cropped) to the compiled number of rows.
ProcessVisionEmbeds(embeds) ==
  PadOrCrop([i \in DOMAIN embeds |-> ExtractDeepstack(embeds[i])], VisionSize)
=============================================================================
