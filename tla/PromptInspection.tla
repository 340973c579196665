--------------------------- MODULE PromptInspection ---------------------------
(***************************************************************************)
(* An inspection (PromptMetadata) whose graphs are searched as in          *)
(* ComfyPrompt, and what it may take from a graph.                         *)
(***************************************************************************)
EXTENDS PromptMetadata, ComfyPrompt

\* The positive side of an input leaves out the edges named "negative".
PositiveKeys(g) == AllKeys(g) \ {"negative"}
Up(g, id, key)  == Whole(Input(g[id], key), g, AllKeys(g))
PositiveUp(g, id) == Whole(Input(g[id], "positive"), g, PositiveKeys(g))
Far(g, id, key) == Up(g, id, key) # Above(Input(g[id], key), g, AllKeys(g), MaxDepth)

Conditioned(g, id) ==
    \E n \in Up(g, id, "positive") \cup Up(g, id, "latent") : "image" \in g[n].label
Plainly(g) == {id \in Samplers(g) : ~Conditioned(g, id)}

\* Both conditionings pass through one node above a sampler.
Joined(g) == \E id \in Samplers(g) : PositiveUp(g, id) # Up(g, id, "positive")

Offered(g, samplers)  == UNION {Offers(PositiveUp(g, id), g) : id \in samplers}
Literals(g, samplers) == UNION {LiteralOffers(PositiveUp(g, id), g) : id \in samplers}

\* The texts a graph is asked for: those no image conditions, else those
\* written in the encoders themselves, else those the encoders refer to.
Wanted(g) ==
    LET plain   == Offered(g, Plainly(g))
        literal == Literals(g, Samplers(g))
    IN  IF plain # {} THEN plain
        ELSE IF literal # {} THEN literal ELSE Offered(g, Samplers(g))

AnswersWanted(g, e) ==
    /\ e.status = "found" => Wanted(g) = {e.prompt}
    /\ Cardinality(Wanted(g)) = 1 => e.status \in {"found", "invalid", "no_graph"}
    /\ Cardinality(Wanted(g)) > 1 => e.status \in {"ambiguous", "invalid", "no_graph"}

AnswersWithinLimits(g, e) ==
    e.status = "found" =>
        /\ Offered(g, Plainly(g)) \in {{}, {e.prompt}}
        /\ Cardinality(DOMAIN g) <= MaxNodes
        /\ ~\E id \in Samplers(g), key \in {"positive", "latent"} : Far(g, id, key)

\* Whatever the graph, a prompt is taken only when no node lies beyond the
\* limits, and if the positive sides of the samplers that no image conditions
\* offer a text, it is the only one.  Where no node joins the positive and the
\* negative conditioning, the prompt is the only text wanted: a literal text is
\* preferred to a referenced one, but only among conditioned branches; two
\* wanted texts give none.  (Of a graph with such a node, whose positive side
\* offers nothing, the search may take the text of the negative side.)
GraphPromptIsTheOnlyOne ==
    pc = "decide" /\ scene.yaml.graph # NotFound =>
        LET g == scene.yaml.graph
            e == ExtractComfyPositivePrompt(g)
        IN  AnswersWithinLimits(g, e) /\ (~Joined(g) => AnswersWanted(g, e))
===============================================================================
