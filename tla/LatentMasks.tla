----------------------------- MODULE LatentMasks -----------------------------
(***************************************************************************)
(* From an example to what a position may see.  Stage 1 cuts the reasoning *)
(* into segments of k tokens, has the encoder compress each into the state *)
(* of a compress token (cot_ids and its induction mask), and trains the    *)
(* decoder on prompt, latents, segments and answer (input_ids and its      *)
(* supervision mask), each latent standing for the compress token of the   *)
(* same rank.  The validation feeds prompt and latents; the soft-label     *)
(* generation keeps the latents' distributions; stage 2 trains on prompt,  *)
(* latents and answer with plain causal attention.                         *)
(*                                                                         *)
(* The three that compress do not read the same text: stage 1 takes the    *)
(* field cot without its think tags, the validation the field solution if  *)
(* there is one, else cot, with whatever tags it has, and the soft-label   *)
(* generation solution without tags.                                       *)
(*                                                                         *)
(* A token is a pair <<kind, n>>: what the text says is not modelled, but  *)
(* which token of the example it is.  Positions are counted from 1.        *)
(***************************************************************************)
EXTENDS Integers, Sequences, FiniteSets, FiniteSetsExt, SequencesExt, PythonLists

CONSTANTS Batches   \* the inputs: [family, k, endLen, eosIsPad, examples] records

\* An example: tokens of its prompt, of its field cot between the think tags it
\* has, and of its answer; its field solution, missing, the same text as cot or
\* another one of so many tokens; and the text that quotes the end marker.
Examples == [prompt : Nat, cot : Nat, tags : SUBSET {"<think>", "</think>"},
             solution : {"absent", "cot", "other"}, other : Nat,
             answer : Nat, marker : {"none", "problem", "cot_answer"}]

ASSUME BatchesAssumption ==
  \A b \in Batches : /\ {b.k, b.endLen} \subseteq Nat \ {0} /\ b.eosIsPad \in BOOLEAN
                     /\ b.examples \in Seq(Examples) \ {<<>>}

VARIABLES pc,      \* raw, tokenized, collated, trained, validated, labelled,
                   \* tokenized2, collated2, trained2, or rejected
          input,   \* the batch being prepared, one of Batches
          feats,   \* what the tokenize function returns for each example
          batch,   \* what the collator returns
          embeds   \* embeds[b][i]: what is embedded at position i of row b
vars == <<pc, input, feats, batch, embeds>>

Pad      == <<"pad", 0>>
Ignored  == <<"-100", 0>>    \* in input_ids a latent, in labels no label
Compress == <<"compress", 0>>

Rows == 1..Len(input.examples)

Tokens(kind, n) == [i \in 1..n |-> <<kind, i>>]
Fill(token, n) == [i \in 1..n |-> token]
Think == Tokens("think", 1)
EndThink == Tokens("/think", input.endLen)

\* The tokenizer's eos; without a pad token of its own the pad token is eos.
Eos == IF input.eosIsPad THEN Pad ELSE <<"eos", 0>>

\* input_prefix; its text may quote the end marker.
PromptIds(x) == (IF x.marker = "problem" THEN EndThink ELSE <<>>) \o Tokens("prompt", x.prompt)

\* input_suffix: the answer and the eos.
SuffixIds(x) ==
  (IF x.marker = "cot_answer" THEN EndThink ELSE <<>>) \o Tokens("answer", x.answer) \o <<Eos>>
-----------------------------------------------------------------------------
(* The text that is compressed, by the program that reads it.              *)

\* A field's text: its tokens, and the think tags it opens and closes with.
CotText(x) ==
  [open |-> "<think>" \in x.tags, ids |-> Tokens("cot", x.cot), close |-> "</think>" \in x.tags]

SolutionText(x) ==
  IF x.solution = "cot" THEN CotText(x)
  ELSE [open |-> FALSE, ids |-> Tokens("solution", x.other), close |-> FALSE]

\* startswith and endswith, then the slices that drop the tags.
Stripped(text) == text.ids

Unstripped(text) ==
  (IF text.open THEN Think ELSE <<>>) \o text.ids \o (IF text.close THEN EndThink ELSE <<>>)

\* pretrain_tokenize_function of stage 1.
TrainText(x) == Stripped(CotText(x))

\* _stage1_reasoning_text: the first of the fields that is there and not
\* empty; stage 1 refuses an empty cot, so cot_answer is never reached.
ValidationText(x) ==
  IF x.solution # "absent" /\ Len(Unstripped(SolutionText(x))) > 0
  THEN Unstripped(SolutionText(x)) ELSE Unstripped(CotText(x))

\* cot_tokenize_function of the soft-label generation, if solution is there.
LabelText(x) == Stripped(SolutionText(x))
-----------------------------------------------------------------------------
(* Sequences and masks: pure functions.                                    *)

CompressCount(n, k) == (n + k - 1) \div k

\* special after every k ids, and after the last.
InsertEveryK(ids, special, k) ==
  LET n == Len(ids)
      len == n + CompressCount(n, k)
  IN  [q \in 1..len |-> IF q % (k + 1) = 0 \/ q > n + (n \div k) THEN special
                        ELSE ids[q - q \div (k + 1)]]

Where(ids, token) == {i \in DOMAIN ids : ids[i] = token}

RemoveBefore(ids, token) == SubSeq(ids, Min(Where(ids, token)), Len(ids))

\* Mutant: padding is looked at.
InductionMaskUnpadded(ids) ==
  {p \in (DOMAIN ids) \X (DOMAIN ids) : p[2] <= p[1] /\ (ids[p[2]] = Compress => p[2] = p[1])}

\* build_latent_token_induction_mask: <<i, j>> when row i may look at column j.
InductionMask(ids) ==
  {p \in (DOMAIN ids) \X (DOMAIN ids) :
     LET i == p[1]
         j == p[2]
     IN  /\ j <= i
         /\ ids[j] = Compress => j = i
         /\ ids[i] # Pad /\ ids[j] # Pad}

\* latent_pos: where the end marker is found first, 0 for None.
EndMarkerAt(ids) ==
  LET l == Len(EndThink)
      found == {i \in 1..Len(ids) - l + 1 : SubSeq(ids, i, i + l - 1) = EndThink}
  IN  IF found = {} THEN 0 ELSE Min(found)

\* Mutant: plain causal attention.
LooksAtCausal(ids, i) == 1..i

\* The columns row i may look at, before padding is masked.
LooksAt(ids, i) ==
  LET latents == Where(ids, Ignored)
      end == EndMarkerAt(ids)
      prompt == 1..(IF latents = {} THEN Len(ids) ELSE Min(latents) - 1)
      \* the latent that opens the segment of i
      before == {s \in latents : s < i}
      segEnd(s) == IF \E t \in latents : t > s
                   THEN Min({t \in latents : t > s}) - 1
                   ELSE IF end # 0 THEN end - 1 ELSE Len(ids)
  IN  {j \in DOMAIN ids :
        \/ i \in prompt /\ j \in prompt /\ j <= i
        \/ before # {} /\ i <= segEnd(Max(before)) /\ j \in Max(before)..i
        \/ end # 0 /\ i >= end /\ j \in (end..i) \cup prompt \cup latents
        \/ i \in latents /\ j \in prompt \cup {s \in latents : s <= i}}

\* build_latent_token_supervision_mask_vectorized.
SupervisionMask(ids) ==
  LET looks == [i \in DOMAIN ids |-> LooksAt(ids, i)]
  IN  {p \in (DOMAIN ids) \X (DOMAIN ids) :
         p[2] \in looks[p[1]] /\ ids[p[1]] # Pad /\ ids[p[2]] # Pad}

\* Mutant: the spacers push the next latent on.
DualTrackPlain(ids) == [i \in DOMAIN ids |-> i - 1]

\* compute_dual_track_position_ids: latents count on from the prompt, a spacer
\* counts on from its latent.
DualTrack(ids) ==
  LET latents == Where(ids, Ignored)
      first == Min(latents)
      last(i) == Max({s \in latents : s <= i})
  IN  [i \in DOMAIN ids |->
        IF latents = {} \/ i < first THEN i - 1
        ELSE (first - 2) + Cardinality({s \in latents : s <= i}) + (i - last(i))]

MaxLen(seqs) == Max({Len(seqs[b]) : b \in DOMAIN seqs})

\* dynamic_padding (pad_to_multiple_of is never given), and _left_pad_2d.
RightPad(seqs, fill) ==
  [b \in DOMAIN seqs |-> seqs[b] \o Fill(fill, MaxLen(seqs) - Len(seqs[b]))]
LeftPad(seqs, fill) ==
  [b \in DOMAIN seqs |-> Fill(fill, MaxLen(seqs) - Len(seqs[b])) \o seqs[b]]
-----------------------------------------------------------------------------
(* Stage 1: Stage1Dataset, the collator and the forward of the trainer.    *)

\* The encoder's input for a text.
EncoderIds(x, text) ==
  PromptIds(x) \o Think \o InsertEveryK(text, Compress, input.k) \o EndThink

CotIds(x) == EncoderIds(x, TrainText(x))

\* Mutant: nobody looks for the end marker in the text.
RefusedEmpty(x) == x.cot = 0

\* A deepseek example whose text has the end marker raises; so does
\* assert count > 0, for a reasoning of no tokens.
Refused(x) == x.cot = 0 \/ (input.family = "deepseek" /\ x.marker # "none")

\* pretrain_tokenize_function.
Stage1Features(x) ==
  LET latentIds == RemoveBefore(InsertEveryK(TrainText(x), Ignored, input.k), Ignored)
      tail == latentIds \o EndThink \o SuffixIds(x)
      ids == PromptIds(x) \o Think \o tail
  IN  [input_ids |-> ids, position_ids |-> DualTrack(ids), cot_ids |-> CotIds(x),
       labels |-> Fill(Ignored, Len(ids) - Len(tail)) \o tail]

Column(field) == [b \in DOMAIN feats |-> feats[b][field]]

\* What embeds the latents: the compress token of the same rank.
Scatter(ids, cotIds) ==
  LET from == Ascending(Where(cotIds, Compress))
      rank(i) == Cardinality({s \in Where(ids, Ignored) : s <= i})
  IN  [i \in DOMAIN ids |-> IF ids[i] = Ignored THEN <<"enc", from[rank(i)]>> ELSE ids[i]]

SameCount(ids, cotIds) ==
  Cardinality(Where(ids, Ignored)) = Cardinality(Where(cotIds, Compress))

Init ==
  /\ pc = "raw" /\ input \in Batches
  /\ feats = <<>> /\ batch = <<>> /\ embeds = <<>>

Tokenize ==
  /\ pc = "raw"
  /\ IF \E b \in Rows : Refused(input.examples[b])
     THEN pc' = "rejected" /\ UNCHANGED feats
     ELSE /\ pc' = "tokenized"
          /\ feats' = [b \in Rows |-> Stage1Features(input.examples[b])]
  /\ UNCHANGED <<input, batch, embeds>>

Collate ==
  /\ pc = "tokenized"
  /\ pc' = "collated"
  /\ batch' = [input_ids |-> RightPad(Column("input_ids"), Pad),
               cot_ids |-> RightPad(Column("cot_ids"), Pad),
               labels |-> RightPad(Column("labels"), Ignored),
               position_ids |-> RightPad(Column("position_ids"), 0)]
  /\ UNCHANGED <<input, feats, embeds>>

\* forward, up to the decoder call; the assert compares the counts.
Forward ==
  /\ pc = "collated"
  /\ IF \A b \in Rows : SameCount(batch.input_ids[b], batch.cot_ids[b])
     THEN /\ pc' = "trained"
          /\ embeds' = [b \in Rows |-> Scatter(batch.input_ids[b], batch.cot_ids[b])]
     ELSE pc' = "rejected" /\ UNCHANGED embeds
  /\ UNCHANGED <<input, feats, batch>>

\* Mutant: a last, shorter segment gets no placeholder.
ValidationIdsShort(x) ==
  PromptIds(x) \o Think \o Fill(Ignored, Len(ValidationText(x)) \div input.k) \o EndThink

\* _prepare_stage1_example: no segments, the latents one after the other.
ValidationIds(x) ==
  PromptIds(x) \o Think \o Fill(Ignored, CompressCount(Len(ValidationText(x)), input.k))
    \o EndThink

\* _generate_stage1_predictions, up to generate; the prompts are padded on the
\* left, the encoder's input on the right.
Validate ==
  /\ pc = "trained"
  /\ LET ids == LeftPad([b \in Rows |-> ValidationIds(input.examples[b])], Pad)
         cot == RightPad([b \in Rows |->
                            EncoderIds(input.examples[b], ValidationText(input.examples[b]))], Pad)
     IN  IF \A b \in Rows : SameCount(ids[b], cot[b])
         THEN /\ pc' = "validated"
              /\ batch' = [input_ids |-> ids, cot_ids |-> cot]
              /\ embeds' = [b \in Rows |-> Scatter(ids[b], cot[b])]
         ELSE pc' = "rejected" /\ UNCHANGED <<batch, embeds>>
  /\ UNCHANGED <<input, feats>>
-----------------------------------------------------------------------------
(* Soft labels and stage 2.                                                *)

\* _gen_per_process for the batch: a distribution per compress token, in order;
\* examples['solution'] raises when the field is missing.
Label ==
  /\ pc = "trained"
  /\ LET cot == RightPad([b \in Rows |->
                            EncoderIds(input.examples[b], LabelText(input.examples[b]))], Pad)
         at(b) == Ascending(Where(cot[b], Compress))
     IN  IF \E b \in Rows : input.examples[b].solution = "absent"
         THEN pc' = "rejected" /\ UNCHANGED feats
         ELSE /\ pc' = "labelled"
              /\ feats' = [b \in Rows |->
                             [latent_state |-> [j \in DOMAIN at(b) |-> <<"enc", at(b)[j]>>]]]
  /\ UNCHANGED <<input, batch, embeds>>

\* pretrain_tokenize_function of stage 2; latent_index counts from 0.
Stage2Features(x, state) ==
  LET head == PromptIds(x) \o Think
      tail == EndThink \o SuffixIds(x)
  IN  [input_ids |-> head \o Fill(Ignored, Len(state)) \o tail,
       labels |-> Fill(Ignored, Len(head) + Len(state)) \o tail,
       latent_index |-> <<Len(head), Len(head) + Len(state)>>,
       latent_state |-> state]

Tokenize2 ==
  /\ pc = "labelled"
  /\ pc' = "tokenized2"
  /\ feats' = [b \in Rows |-> Stage2Features(input.examples[b], feats[b].latent_state)]
  /\ UNCHANGED <<input, batch, embeds>>

Collate2 ==
  /\ pc = "tokenized2"
  /\ pc' = "collated2"
  /\ batch' = [input_ids |-> RightPad(Column("input_ids"), Pad),
               labels |-> RightPad(Column("labels"), Ignored),
               latent_index |-> Column("latent_index"),
               latent_state |-> Column("latent_state")]
  /\ UNCHANGED <<input, feats, embeds>>

\* The embeddings from s to e give way to the weighted sums.
Stage2Row(b) ==
  LET s == batch.latent_index[b][1]
      e == batch.latent_index[b][2]
  IN  SubSeq(batch.input_ids[b], 1, s) \o batch.latent_state[b]
        \o SubSeq(batch.input_ids[b], e + 1, Len(batch.input_ids[b]))

Forward2 ==
  /\ pc = "collated2"
  /\ LET fits(b) == LET s == batch.latent_index[b][1]
                        e == batch.latent_index[b][2]
                    IN  s >= 1 /\ e > s /\ e - s = Len(batch.latent_state[b])
     IN  IF \A b \in Rows : fits(b)
         THEN pc' = "trained2" /\ embeds' = [b \in Rows |-> Stage2Row(b)]
         ELSE pc' = "rejected" /\ UNCHANGED embeds
  /\ UNCHANGED <<input, feats, batch>>

\* Mutant: the logits of the latents themselves.
KLPositionOwn(b, j) == batch.latent_index[b][1] + j

\* The position, from 1, whose logits the KL loss compares with latent j of
\* row b: logits[b, s-1:e-1].
KLPosition(b, j) == batch.latent_index[b][1] - 1 + j

\* attention_mask of stage 2 and the causal attention of the model.
Stage2Mask(b) ==
  {p \in (DOMAIN batch.input_ids[b]) \X (DOMAIN batch.input_ids[b]) :
     p[2] <= p[1] /\ batch.input_ids[b][p[2]] # Pad}

Next ==
  \/ Tokenize \/ Collate \/ Forward \/ Validate
  \/ Label \/ Tokenize2 \/ Collate2 \/ Forward2

Spec == Init /\ [][Next]_vars
-----------------------------------------------------------------------------
(* Properties.  What a position depends on goes through every layer: it is *)
(* what can be reached by looking again and again.                         *)

\* The tokens of the example as plain text, and its kept part in stage 2.
Text(x) == PromptIds(x) \o Think \o Tokens("cot", x.cot) \o EndThink \o SuffixIds(x)

\* Reach(mask, n)[i]: the positions that row i depends on.
Reach(mask, n) ==
  FoldLeft(LAMBDA acc, i :
             Append(acc, {i} \cup UNION {IF j < i THEN acc[j] ELSE {j} :
                                         j \in {c \in 1..n : <<i, c>> \in mask}}),
           <<>>, [i \in 1..n |-> i])

\* The text that row b of the decoder depends on at each position, the
\* latents' by way of the encoder.
Sources(b) ==
  LET cot == batch.cot_ids[b]
      n == Len(embeds[b])
      encoder == Reach(InductionMask(cot), Len(cot))
      decoder == Reach(SupervisionMask(batch.input_ids[b]), n)
      at(j) == IF embeds[b][j][1] = "enc"
               THEN {cot[r] : r \in encoder[embeds[b][j][2]]} \ {Compress}
               ELSE {embeds[b][j]}
  IN  [i \in 1..n |-> UNION {at(j) : j \in decoder[i]}]

\* No field solution to label, or an empty one, which stage 2 asserts against.
NotLabelled(x) == x.solution = "absent" \/ Len(LabelText(x)) = 0

TypeOK ==
  /\ pc \in {"raw", "tokenized", "collated", "trained", "validated", "labelled",
             "tokenized2", "collated2", "trained2", "rejected"}
  /\ input \in Batches
  /\ pc # "raw" /\ pc # "rejected" => Len(feats) = Len(input.examples)
  /\ pc = "collated" =>
       \A b \in Rows : /\ Len(batch.input_ids[b]) = Len(batch.labels[b])
                       /\ Len(batch.input_ids[b]) = Len(batch.position_ids[b])
                       /\ Len(batch.input_ids[b]) = Len(batch.input_ids[1])
                       /\ Len(batch.cot_ids[b]) = Len(batch.cot_ids[1])
  /\ pc = "rejected" =>
       \E b \in Rows : Refused(input.examples[b]) \/ NotLabelled(input.examples[b])

\* A training example that stage 1 does not refuse goes through the soft-label
\* generation and stage 2: README.md gives one format for the training file of
\* all three.
TrainedIsLabelled == pc = "rejected" => \E b \in Rows : Refused(input.examples[b])

\* The labels of stage 1 are the tokens after the first segment, and the
\* logits of each depend on exactly the text before it: nothing leaks from the label
\* or after it through either mask, and no earlier text is cut off.
LabelSourcesExact ==
  pc = "trained" =>
    \A b \in Rows :
      LET text == Text(input.examples[b])
          lab == batch.labels[b]
          sources == Sources(b)
          dropped == {<<"cot", c>> : c \in 1..input.k}
      IN  /\ ToSet(lab) \ {Ignored}
               = ToSet(Tokens("cot", input.examples[b].cot) \o EndThink
                         \o SuffixIds(input.examples[b])) \ dropped
          /\ \A i \in 1..Len(lab) - 1 :
               lab[i + 1] # Ignored =>
                 sources[i] = ToSet(SubSeq(text, 1, Min(Where(text, lab[i + 1])) - 1))

\* Reasoning text reaches other segments and the answer through the latents
\* alone: in the decoder a label depends on spacers of its own segment only.
OnlyThroughLatents ==
  pc = "trained" =>
    \A b \in Rows :
      LET ids == batch.input_ids[b]
          lab == batch.labels[b]
          reach == Reach(SupervisionMask(ids), Len(ids))
          segment(c) == (c - 1) \div input.k
      IN  \A i \in 1..Len(lab) - 1 :
            lab[i + 1] # Ignored =>
              \A j \in reach[i] :
                ids[j][1] = "cot" => /\ lab[i + 1][1] = "cot"
                                     /\ segment(ids[j][2]) = segment(lab[i + 1][2])

\* An example is trained on the same way whatever it is batched with.
PaddingIrrelevant ==
  pc = "collated" =>
    \A b \in Rows :
      /\ SupervisionMask(batch.input_ids[b]) = SupervisionMask(feats[b].input_ids)
      /\ InductionMask(batch.cot_ids[b]) = InductionMask(feats[b].cot_ids)

\* Row x of stage 1 without its spacers: positions, embeddings.
Kept(x) ==
  LET ids == Stage1Features(x).input_ids
  IN  Ascending({i \in DOMAIN ids : ids[i][1] # "cot"})

\* Where the texts they read are the same, stage 2, and the validation of stage
\* 1, give the model what stage 1 gives it with the spacers taken out: the same
\* embeddings, labels, position ids and attention, whatever the other examples
\* of the batch hold.
StagesAgree ==
  pc \in {"validated", "trained2"} => \A b \in Rows :
    LET x == input.examples[b]
        f == Stage1Features(x)
        kept == Kept(x)
        len == Len(kept)
        emb == Scatter(f.input_ids, f.cot_ids)
        keptEmb == [n \in 1..len |-> emb[kept[n]]]
        mask == SupervisionMask(f.input_ids)
    IN  /\ pc = "validated" /\ ValidationText(x) = TrainText(x) =>
             LET shown == Selected(embeds[b], {i \in DOMAIN embeds[b] : embeds[b][i] # Pad})
             IN  shown = SubSeq(keptEmb, 1, Len(shown)) /\ shown[Len(shown)] = EndThink[Len(EndThink)]
        /\ pc = "trained2" /\ LabelText(x) = TrainText(x) =>
             /\ SubSeq(embeds[b], 1, len) = keptEmb
             /\ SubSeq(batch.labels[b], 1, len) = [n \in 1..len |-> f.labels[kept[n]]]
             /\ \A n \in 1..len : f.position_ids[kept[n]] = n - 1
             /\ \A n, m \in 1..len :
                  keptEmb[n] # Pad =>
                    (<<kept[n], kept[m]>> \in mask <=> <<n, m>> \in Stage2Mask(b))

\* The j-th soft label is the teacher of the logits that come right before the
\* j-th latent, and is the distribution embedded there.
KLTargetsAligned ==
  pc = "trained2" =>
    \A b \in Rows :
      LET state == batch.latent_state[b]
          latents == Where(batch.input_ids[b], Ignored)
      IN  /\ Len(state) = Cardinality(latents)
          /\ \A j \in DOMAIN state :
               /\ KLPosition(b, j) + 1 \in latents
               /\ embeds[b][KLPosition(b, j) + 1] = state[j]
               /\ \A i \in 1..j - 1 : state[i][2] < state[j][2]
=============================================================================
