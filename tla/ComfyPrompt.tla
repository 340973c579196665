----------------------------- MODULE ComfyPrompt -----------------------------
(***************************************************************************)
(* How the prompt is found in a ComfyUI graph that an image carries: from  *)
(* every sampler breadth first up its positive edge, the texts of the      *)
(* encoders met there, without those of an image-conditioned branch while  *)
(* another one offers a text.  One text must remain.                       *)
(*                                                                         *)
(* A graph is a function from node ids to nodes.  A node has labels, read  *)
(* off its class and its title, and inputs: a text, the id of another      *)
(* node, or a nest of lists holding ids, which may lie too deep to look.   *)
(***************************************************************************)
EXTENDS Integers, Sequences, FiniteSets, SequencesExt

CONSTANTS
    Prompts,        \* texts that are neither blank nor over maxPromptChars
    MaxDepth,       \* maxTraversalDepth, 64
    MaxResolve,     \* 16, the longest chain of references to a text
    MaxReferences,  \* maxReferences, 50000
    MaxNodes        \* maxNodes, 10000

ASSUME ComfyLimits == {MaxDepth, MaxResolve, MaxReferences, MaxNodes} \subseteq Nat

Unusable   == ""                    \* a blank or over-long text
Text(t)    == [text |-> <<t>>, ids |-> <<>>,  link |-> FALSE, deep |-> FALSE]
Link(id)   == [text |-> <<>>,  ids |-> <<id>>, link |-> TRUE, deep |-> FALSE]
Nest(s, d) == [text |-> <<>>,  ids |-> s,  link |-> FALSE, deep |-> d]
Nothing    == Nest(<<>>, FALSE)

\* Input names, in the order the code tries them: an encoder's, and those a
\* reference from one is resolved through.
EncodeKeys  == <<"text", "prompt">>
ResolveKeys == <<"text", "value", "prompt">>
Input(node, key) == IF key \in DOMAIN node.in THEN node.in[key] ELSE Nothing

\* What one extraction shares between its traversals.
Fresh    == [references |-> 0, truncated |-> FALSE]
Spent(s) == s.references >= MaxReferences

-----------------------------------------------------------------------------
(* Upstream of an input *)

\* The nodes an input names; each is counted until the limit is reached.
CollectInputReferences(v, g, s) ==
    LET known == SelectSeq(v.ids, LAMBDA id : id \in DOMAIN g)
        room  == IF Spent(s) THEN 0 ELSE MaxReferences - s.references
        taken == SubSeq(known, 1, IF room < Len(known) THEN room ELSE Len(known))
    IN  [ids |-> taken,
         s   |-> [references |-> s.references + Len(taken),
                  truncated  |-> s.truncated \/ v.deep]]

\* All inputs of a node, whatever their names.
NodeReferences(node, g, s) ==
    FoldLeft(LAMBDA acc, key :
               LET c == CollectInputReferences(node.in[key], g, acc.s)
               IN  [ids |-> acc.ids \o c.ids, s |-> c.s],
             [ids |-> <<>>, s |-> s],
             SetToSeq(DOMAIN node.in))

RECURSIVE Walk(_, _, _, _)
Walk(queue, visited, g, s) ==
    IF queue = <<>> \/ Spent(s) THEN [ids |-> visited, s |-> s]
    ELSE LET now == Head(queue)
         IN  IF now.id \in visited THEN Walk(Tail(queue), visited, g, s)
             ELSE IF now.depth > MaxDepth
             THEN Walk(Tail(queue), visited, g, [s EXCEPT !.truncated = TRUE])
             ELSE LET up   == NodeReferences(g[now.id], g, s)
                      next == SelectSeq(up.ids, LAMBDA id : id \notin visited)
                  IN  Walk(Tail(queue) \o [n \in 1..Len(next) |->
                              [id |-> next[n], depth |-> now.depth + 1]],
                           visited \cup {now.id}, g, up.s)

CollectUpstreamNodeIds(v, g, s) ==
    LET roots == CollectInputReferences(v, g, s)
    IN  Walk([n \in 1..Len(roots.ids) |-> [id |-> roots.ids[n], depth |-> 0]],
             {}, g, roots.s)

-----------------------------------------------------------------------------
(* The texts of an encoder *)

\* acc carries the shared state, the nodes already looked into for this key,
\* and the texts found.
RECURSIVE ResolvePromptInput(_, _, _, _)
ResolvePromptInput(v, g, depth, acc) ==
    IF depth > MaxResolve THEN [acc EXCEPT !.s.truncated = TRUE]
    ELSE IF Spent(acc.s) THEN acc
    ELSE IF v.text # <<>> THEN [acc EXCEPT !.texts = @ \o v.text]
    ELSE IF ~v.link \/ v.ids[1] \notin DOMAIN g \ acc.visited THEN acc
    ELSE LET node == g[v.ids[1]]
         IN  FoldLeft(LAMBDA a, key :
                        IF key \in DOMAIN node.in
                        THEN ResolvePromptInput(node.in[key], g, depth + 1, a)
                        ELSE a,
                      [acc EXCEPT !.visited = @ \cup {v.ids[1]},
                                  !.s.references = @ + 1],
                      ResolveKeys)

\* One input of an encoder: its usable texts, direct once an input was a
\* literal, for that input's texts and the later ones'.
AddTexts(acc, resolved, direct) ==
    [s      |-> resolved.s,
     direct |-> direct,
     found  |-> acc.found \cup {[prompt |-> t, direct |-> direct] :
                                   t \in Range(resolved.texts) \cap Prompts}]

CandidateTextsFromNode(node, g, s) ==
    IF "negative" \in node.label \/ "encode" \notin node.label
    THEN [found |-> {}, s |-> s]
    ELSE FoldLeft(LAMBDA acc, key :
                    IF key \notin DOMAIN node.in THEN acc
                    ELSE AddTexts(acc,
                           ResolvePromptInput(node.in[key], g, 0,
                             [s |-> acc.s, visited |-> {}, texts |-> <<>>]),
                           acc.direct \/ node.in[key].text # <<>>),
                  [found |-> {}, direct |-> FALSE, s |-> s],
                  EncodeKeys)

-----------------------------------------------------------------------------
(* The extraction *)

Samplers(g) == {id \in DOMAIN g : /\ "sampler" \in g[id].label
                                  /\ "positive" \in DOMAIN g[id].in}

AddCandidates(acc, from, image) ==
    [s |-> from.s,
     candidates |-> acc.candidates \cup
        {[prompt |-> x.prompt, direct |-> x.direct, image |-> image] : x \in from.found}]

\* The texts of the encoders up the positive edge; they are image-conditioned
\* when a node up there, or up the latent edge, looks so.
Encoders(acc, positive, latent, g) ==
    FoldLeft(LAMBDA a, n :
               AddCandidates(a, CandidateTextsFromNode(g[n], g, a.s),
                             \E m \in positive \cup latent.ids : "image" \in g[m].label),
             [acc EXCEPT !.s = latent.s],
             SetToSeq(positive))

AboveLatent(acc, node, positive, g) ==
    Encoders(acc, positive.ids,
             CollectUpstreamNodeIds(Input(node, "latent"), g, positive.s), g)

Sample(acc, node, g) ==
    AboveLatent(acc, node,
                CollectUpstreamNodeIds(Input(node, "positive"), g, acc.s), g)

PoolIgnoresImageMutant(candidates) == candidates

\* Unconditioned candidates before the others, and among only conditioned
\* ones the literal texts before the resolved ones.
Pool(candidates) ==
    LET base   == {c \in candidates : ~c.image}
        direct == {c \in candidates : c.direct}
    IN  IF base # {} THEN base ELSE IF direct # {} THEN direct ELSE candidates

Select(prompts) ==
    IF Cardinality(prompts) = 1
    THEN [status |-> "found", prompt |-> CHOOSE t \in prompts : TRUE]
    ELSE [status |-> "ambiguous"]

Conclude(all) ==
    IF all.s.truncated \/ Spent(all.s) THEN [status |-> "invalid"]
    ELSE IF all.candidates = {} THEN [status |-> "no_prompt"]
    ELSE Select({c.prompt : c \in Pool(all.candidates)})

\* Entries of a node map that are not nodes are left out of it; without any
\* node, or with too many entries, it is no graph.
NoNodes(g) == Cardinality(DOMAIN g) \notin 1..MaxNodes

ExtractComfyPositivePrompt(g) ==
    IF NoNodes(g) THEN [status |-> "no_graph"]
    ELSE IF Samplers(g) = {} THEN [status |-> "no_prompt"]
    ELSE Conclude(FoldLeft(LAMBDA acc, id : Sample(acc, g[id], g),
                           [s |-> Fresh, candidates |-> {}],
                           SetToSeq(Samplers(g))))

-----------------------------------------------------------------------------
(* What the extraction is to find, without its traversals and counters *)

\* The nodes at most k links above an input, by the inputs in keys.
Values(ids, g, keys) == UNION {{g[id].in[key] : key \in keys \cap DOMAIN g[id].in} : id \in ids}

RECURSIVE Above(_, _, _, _)
Above(v, g, keys, k) ==
    LET roots == Range(v.ids) \cap DOMAIN g
    IN  IF k = 0 THEN roots
        ELSE roots \cup UNION {Above(w, g, keys, k - 1) : w \in Values(roots, g, keys)}

AllKeys(g) == UNION {DOMAIN g[id].in : id \in DOMAIN g}
Whole(v, g, keys) == Above(v, g, keys, Cardinality(DOMAIN g))

\* The usable texts in some inputs, and behind those that are links.
Texts(inputs, g) ==
    LET linked == UNION {Whole(v, g, Range(ResolveKeys)) : v \in {w \in inputs : w.link}}
    IN  UNION {Range(v.text) : v \in inputs \cup Values(linked, g, Range(ResolveKeys))}
            \cap Prompts

EncodersAmong(ids, g) == {n \in ids : "encode" \in g[n].label /\ "negative" \notin g[n].label}

\* What the encoders among some nodes offer, and what of it is in an input at
\* or after an encoder's first literal one.
Offers(ids, g) == Texts(Values(EncodersAmong(ids, g), g, Range(EncodeKeys)), g)
LiteralInputs(node) ==
    {Input(node, EncodeKeys[k]) : k \in {j \in DOMAIN EncodeKeys :
        \E i \in 1..j : Input(node, EncodeKeys[i]).text # <<>>}}
LiteralOffers(ids, g) ==
    Texts(UNION {LiteralInputs(g[n]) : n \in EncodersAmong(ids, g)}, g)
=============================================================================
