--------------------------- MODULE MCPromptMetadata ---------------------------
(* Three families of scenes: all messages of up to three attachments, all    *)
(* files of up to four chunks, and all graphs of a sampler and three nodes   *)
(* of fifteen kinds.                                                         *)
EXTENDS PromptInspection

MCTraits == [p1 |-> {}, p2 |-> {"foreign"}]
MCPrompts == DOMAIN MCTraits

Plain(has, hides, prompt) ==
    [has |-> has, hides |-> hides, prompt |-> prompt, graph |-> NotFound, wrapped |-> FALSE]
Workflow(g, wrapped) ==
    [has |-> {"json"}, hides |-> {}, prompt |-> Unusable, graph |-> g, wrapped |-> wrapped]

Attachment(id, k) == [id |-> id, type |-> k[1], stem |-> k[2], oversized |-> k[3] = "oversized",
                      verified |-> k[3] # "foreign", complete |-> k[3] # "broken"]
Pictures == {<<"image", "a", "">>, <<"image", "b", "">>, <<"image", "a", "broken">>}
Yamls    == {<<"yaml", "a", "">>, <<"yaml", "b", "">>, <<"yaml", "a", "oversized">>,
             <<"yaml", "a", "foreign">>}
Messages == {[n \in 1..Len(ks) |-> Attachment(n, ks[n])] :
               ks \in UNION {[1..n -> Pictures \cup Yamls \cup {<<"other", "a", "">>}] : n \in 1..3}}

Url(att, from, image) == [att |-> att, from |-> from, image |-> image]
Elements == {<<Url(1, "image", TRUE)>>,
             <<Url(NotFound, "anchor", FALSE), Url(1, "image", TRUE)>>,
             <<Url(2, "anchor", FALSE), Url(1, "data", FALSE), Url(1, "image", TRUE)>>,
             <<Url(1, "image", TRUE), Url(2, "anchor", TRUE)>>,
             <<Url(NotFound, "image", FALSE)>>}

Chunked(type, key, fault, bytes, text) ==
    [type |-> type, key |-> key, fault |-> fault, packed |-> type = "zTXt",
     bytes |-> bytes, text |-> text]
Other(type) == Chunked(type, "other", "", 0, Plain({}, {}, Unusable))
Chunks == {Other("IEND"), Other("eXIf"), Other("damaged"), Other("iTXt"),
           Chunked("zTXt", "parameters", "deflate", 1, Plain({}, {}, "p1")),
           Chunked("tEXt", "parameters", "utf8", 1, Plain({}, {}, "p1")),
           Chunked("iTXt", "parameters", "", 1, Plain({"foreign"}, {"control"}, "p2")),
           Chunked("zTXt", "prompt", "", 2, Plain({}, {}, "p3")),
           Chunked("iTXt", "prompt", "", 1,
                   Workflow(<<[label |-> {"sampler"}, in |-> [positive |-> Link(2)]],
                              [label |-> {"encode"}, in |-> [text |-> Text("p1")]]>>, FALSE))}
Image(format, announced, size, chunks) ==
    [format |-> format, announced |-> announced, size |-> size, chunks |-> chunks]
Files == {Image("png", 2, 2, f) :
            f \in UNION {[1..n -> Chunks] : n \in 1..4}
                  \cup [1..5 -> {c \in Chunks : c.text.prompt = "p1" \/ c.type = "IEND"}]}
Empty == <<Other("IEND")>>
Jpeg  == Image("jpeg", 2, 2, <<>>)
Odd   == {Jpeg, Image("png", 1, 3, Empty), Image("png", 3, 2, Empty), Image("png", 0, 2, Empty)}

Node(labels, in) == [label |-> labels, in |-> in]
Sources == {Node({"sampler"}, [positive |-> Link(2)]),
            Node({"sampler"}, [positive |-> Link(2), latent |-> Link(3)]),
            Node({"sampler"}, [positive |-> Link(3), latent |-> Nest(<<2, 4, 9>>, FALSE)]),
            Node({"sampler"}, [positive |-> Nest(<<3, 4>>, FALSE)]),
            Node({"sampler"}, [positive |-> Nest(<<2>>, TRUE)]),
            Node({"sampler"}, [latent |-> Link(2)])}
Kinds ==   {Node({"encode"}, [text |-> v]) : v \in {Text("p1"), Text("p2"), Text(Unusable), Link(3), Link(4)}}
      \cup {Node({"encode"}, [text |-> Text("p1"), prompt |-> Link(3)]),
            Node({"encode", "negative"}, [text |-> Text("p2")]),
            Node({"encode", "image"}, [text |-> Text("p2")]),
            Node({"image"}, [pixels |-> Link(4)]),
            Node({}, [positive |-> Link(3), negative |-> Link(4)]),
            Node({}, [positive |-> Link(4), negative |-> Link(2)]),
            Node({}, [value |-> Text("p1")]),
            Node({}, [value |-> Link(3), text |-> Link(4)]),
            Node({"sampler"}, [positive |-> Link(4), latent |-> Link(3)]),
            Node({"sampler"}, [positive |-> Link(3)])}
Graphs == {<<s, b, c, d>> : s \in Sources, b \in Kinds, c \in Kinds, d \in Kinds}
      \cup {<<s, b, b, b, b>> : s \in Sources, b \in Kinds}

One  == {<<Url(1, "image", TRUE)>>}
Pair == {<<Attachment(1, <<"image", "a", "">>), Attachment(2, <<"yaml", "a", "">>)>>}
Same(files) == {[a \in 1..3 |-> f] : f \in files}

Readings == {Plain({}, {}, "p1"), Plain({"uncertain"}, {}, "p1")}
MCScenes == {
    [urls: Elements, message: Messages, answers: {{1, 2}}, files: Same({Jpeg}),
     yaml: {Plain({}, {}, "p3")}],
    [urls: One, message: Pair, answers: {{1}, {2, NotFound}}, files: Same(Odd), yaml: Readings],
    [urls: One, message: Pair, answers: {{1}}, files: Same(Files), yaml: Readings],
    [urls: One, message: Pair, answers: {{1}}, files: Same({Jpeg}),
     yaml: {Workflow(g, TRUE) : g \in Graphs} \cup {Workflow(<<>>, w) : w \in BOOLEAN}]}
=============================================================================
