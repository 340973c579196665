---------------------------- MODULE PromptMetadata ----------------------------
(***************************************************************************)
(* The plugin's search for a prompt that an image of a Discord message     *)
(* already carries: which attachment an <img> shows, which YAML attachment *)
(* of the message belongs to it, the scan of the PNG's chunks, the         *)
(* judgement of each text found, and the prompts offered from both.        *)
(*                                                                         *)
(* One inspection is followed from the click to its decision; it may time  *)
(* out at any point, and the page, the message and the bytes are whatever  *)
(* others made them.                                                       *)
(***************************************************************************)
EXTENDS Integers, Sequences, FiniteSets, SequencesExt

CONSTANTS
    Scenes,         \* families of what a click meets: element, message, bytes, sidecar
    PromptTraits,   \* of each text: what the judgement below looks for
    MaxChunks,      \* maxChunks, 4096
    MaxText,        \* maxTextBytes, 1 MB
    MaxTotalText,   \* maxTotalTextBytes, 2 MB
    MaxImage,       \* MAX_IMAGE_BYTES, 64 MB
    MaxCandidates,  \* maxCandidates, 32
    SummaryChunks,  \* MAX_DIAGNOSTIC_CHUNKS, 96
    SearchGraph(_), \* what a ComfyUI graph gives: the extraction of ComfyPrompt
    NotFound

ASSUME MetadataLimits ==
    {MaxChunks, MaxText, MaxTotalText, MaxImage, MaxCandidates, SummaryChunks}
        \subseteq Nat \ {0}

\* A message has finitely many attachments; a URL that names an attachment names
\* a file there is; a file is a list of chunks.
ASSUME ScenesAssumption ==
    \A family \in Scenes : \A s \in family :
        /\ IsFiniteSet(Range(s.message))
        /\ \A n \in DOMAIN s.urls : s.urls[n].att \in DOMAIN s.files \cup {NotFound}
        /\ \A a \in DOMAIN s.files : LET chunks == s.files[a].chunks
                                    IN  /\ chunks \in Seq(Range(chunks))
                                        /\ \A n \in DOMAIN chunks : chunks[n].bytes \in Nat

VARIABLES
    scene,          \* the scene of this behaviour
    pc,             \* idle, captured, scan, judge, sidecar, decide, done
    selection,      \* the attachment shown and its companion, frozen at the click
    scan,           \* where the chunk scan is and its tallies
    candidates,     \* the texts collected, in file order; judged ones leave
    rejected,       \* the verdicts on the others
    embedded,       \* what the image itself gave
    sidecar,        \* what its companion gave
    decision        \* what the inspection answered

inspectionVars == <<scene, pc, selection, scan, candidates, rejected, embedded, sidecar,
          decision>>

NoSelection == [att |-> NotFound, companion |-> [status |-> "none"]]
NoScan      == [at |-> 1, recognised |-> 0, decoded |-> 0, malformed |-> FALSE,
                limit |-> FALSE, iend |-> FALSE]
Verdict(class) == [class |-> class, prompt |-> ""]
UsablePrompt(p)      == [class |-> "usable", prompt |-> p]
Undecided      == [class |-> "none", prompts |-> {}]

-----------------------------------------------------------------------------
(* The attachment an element shows *)

\* A URL that is not of a Discord attachment is no candidate; one in an anchor
\* that names an image file scores above the others, and the first of the best
\* is taken.  A URL is [att, from, image], att NotFound when it is not one.
MediaCandidateScore(url) ==
    IF url.att = NotFound THEN -1
    ELSE IF url.from = "anchor" /\ url.image THEN 105 ELSE 100

RecoverOriginalImageUrl(urls) ==
    LET best == {n \in DOMAIN urls :
                    /\ urls[n].att # NotFound
                    /\ \A m \in DOMAIN urls :
                          \/ MediaCandidateScore(urls[m]) < MediaCandidateScore(urls[n])
                          \/ MediaCandidateScore(urls[m]) = MediaCandidateScore(urls[n]) /\ n <= m}
    IN  IF best = {} THEN NotFound ELSE urls[CHOOSE n \in best : TRUE].att

-----------------------------------------------------------------------------
(* The YAML that goes with it *)

\* Records without an id, a name or a URL are dropped.
Records(message)  == {a \in Range(message) : a.complete}
ImageFiles(message)   == {a \in Records(message) : a.type = "image"}
YamlFiles(message) == {a \in Records(message) : a.type = "yaml" /\ ~a.oversized}

CompanionSharedStemMutant(att, message) ==
    LET image == {a \in ImageFiles(message) : a.id = att}
        yaml  == YamlFiles(message)
        own   == {y \in yaml : \E i \in image : y.stem = i.stem}
    IN  IF image = {} \/ yaml = {} THEN [status |-> "none"]
        ELSE IF Cardinality(own) = 1
        THEN [status |-> "found", att |-> CHOOSE y \in own : TRUE]
        ELSE IF own = {} /\ Cardinality(ImageFiles(message)) = 1 /\ Cardinality(yaml) = 1
        THEN [status |-> "found", att |-> CHOOSE y \in yaml : TRUE]
        ELSE [status |-> "ambiguous"]

SelectCompanionMetadataAttachment(att, message) ==
    LET image == {a \in ImageFiles(message) : a.id = att}
        yaml  == YamlFiles(message)
        own   == {y \in yaml : \E i \in image : y.stem = i.stem}
        rival == {i \in ImageFiles(message) : \E j \in image : i.stem = j.stem}
    IN  IF image = {} \/ yaml = {} THEN [status |-> "none"]
        ELSE IF Cardinality(own) = 1 /\ Cardinality(rival) = 1
        THEN [status |-> "found", att |-> CHOOSE y \in own : TRUE]
        ELSE IF own = {} /\ Cardinality(ImageFiles(message)) = 1 /\ Cardinality(yaml) = 1
        THEN [status |-> "found", att |-> CHOOSE y \in yaml : TRUE]
        ELSE [status |-> "ambiguous"]

\* The companion's URL must name that attachment, in the image's own channel
\* and allowlisted server.
MetadataCompanionForMessage(att, message) ==
    LET selected == SelectCompanionMetadataAttachment(att, message)
    IN  IF selected.status = "found" /\ ~selected.att.verified
        THEN [status |-> "none"] ELSE selected

-----------------------------------------------------------------------------
(* The judgement of a text *)

\* A text is [has, hides, prompt, graph, wrapped]: its traits, those that show
\* once its HTML entities are decoded, what remains of it as a prompt, and the
\* ComfyUI graph it holds, if any, behind a "prompt:" or bare.  Each parser tries
\* its refusals in turn.
Decoded(text) == text.has \cup text.hides

First(refusals, has) ==
    LET hits == {n \in DOMAIN refusals : refusals[n][1] \in has}
    IN  IF hits = {} THEN "usable" ELSE refusals[Min(hits)][2]

EmbeddedRefusals == <<
    <<"over",      "encoded_or_unknown">>,
    <<"control",   "encoded_or_unknown">>,
    <<"blank",     "metadata_no_prompt">>,
    <<"json",      "structured">>,
    <<"tagged",    "structured">>,          \* ---, %YAML
    <<"wrapper",   "metadata_no_prompt">>,  \* "parameters:" and nothing behind it
    <<"negative",  "metadata_no_prompt">>,  \* nothing before the negative prompt
    <<"yaml",      "structured">>,          \* lines of a document
    <<"encoded",   "encoded_or_unknown">>,
    <<"foreign",   "non_english">>,
    <<"uncertain", "encoded_or_unknown">> >>

SidecarRefusals == <<
    <<"blank",     "structured">>,          \* refused as an empty document
    <<"wrapper",   "metadata_no_prompt">>,
    <<"json",      "structured">>,
    <<"negative",  "metadata_no_prompt">>,
    <<"tagged",    "structured">>,
    <<"yaml",      "structured">>,
    <<"encoded",   "encoded_or_unknown">>,
    <<"foreign",   "non_english">>,
    <<"uncertain", "non_english">>,
    <<"over",      "encoded_or_unknown">> >>

\* What a document that holds a graph gives: bare JSON counts only for a
\* "prompt" entry, and is left to the refusals when it is no graph.
HoldsGraph(text, allowBare) == text.graph # NotFound /\ (text.wrapped \/ allowBare)

ExtractPromptFromMetadataDocument(text, allowBare) ==
    IF HoldsGraph(text, allowBare) THEN SearchGraph(text.graph)
                                   ELSE [status |-> "not_structured"]

Read(class, prompt) == IF class = "usable" THEN UsablePrompt(prompt) ELSE Verdict(class)

JudgeExtracted(e, text, refusals) ==
    CASE e.status = "found" ->
           Read(First(refusals, PromptTraits[e.prompt]), e.prompt)
      [] e.status = "not_structured" \/ (e.status = "no_graph" /\ ~text.wrapped) ->
           Read(First(refusals, Decoded(text)), text.prompt)
      [] OTHER -> Verdict("structured")

Judge(text, allowBare, refusals) ==
    JudgeExtracted(ExtractPromptFromMetadataDocument(text, allowBare), text, refusals)

\* The embedded parser refuses on size, control characters and emptiness before
\* it looks for a graph.
EvaluateCandidate(c) ==
    LET before == First(SubSeq(EmbeddedRefusals, 1, 3), c.text.has)
    IN  IF before # "usable" THEN Verdict(before)
        ELSE Judge(c.text, c.key = "prompt", EmbeddedRefusals)

EvaluatePromptValue(text) == Judge(text, FALSE, SidecarRefusals)

-----------------------------------------------------------------------------
(* The chunks of the PNG.  A chunk is [type, key, fault, packed, bytes, text]. *)

File  == scene.files[selection.att]
Chunk == File.chunks[scan.at]
Key(e) == IF e.key = "parameters" THEN 0 ELSE 1

Scanning == pc = "scan" /\ scan.at <= Len(File.chunks)
                        /\ ~scan.iend /\ ~scan.malformed

TextTypes == {"tEXt", "zTXt", "iTXt"}

\* One of our two keywords, in any case.
CanonicalKeyword(c) == c.type \in TextTypes /\ c.key # "other"

\* Deflated text that is damaged, or grows beyond the limit.
InflateFails(c) == c.packed /\ (c.fault = "deflate" \/ c.bytes > MaxText)

\* What can be wrong with a text chunk of each type; only iTXt insists on UTF-8,
\* the others fall back to Latin-1.
ParseTextChunkFails(c) ==
    \/ c.fault = "chunk_too_large"
    \/ c.bytes > MaxText
    \/ c.type = "zTXt" /\ (c.fault \in {"short", "method"} \/ InflateFails(c))
    \/ c.type = "iTXt" /\ (c.fault \in {"short", "method", "header", "utf8"} \/ InflateFails(c))

\* A chunk with one of our keywords: a candidate, a candidate too many, or a
\* rejection.  Bytes and candidates beyond the limits are not kept.
CollectChunk ==
    LET over == \/ scan.decoded + Chunk.bytes > MaxTotalText
                \/ Len(candidates) >= MaxCandidates
    IN  IF ParseTextChunkFails(Chunk)
        THEN /\ scan' = [scan EXCEPT !.at = @ + 1, !.recognised = @ + 1]
             /\ rejected' = Append(rejected, [class |-> "encoded_or_unknown"])
             /\ UNCHANGED candidates
        ELSE IF over
        THEN /\ scan' = [scan EXCEPT !.at = @ + 1, !.recognised = @ + 1, !.limit = TRUE]
             /\ rejected' = Append(rejected, [class |-> "encoded_or_unknown"])
             /\ UNCHANGED candidates
        ELSE /\ scan' = [scan EXCEPT !.at = @ + 1, !.recognised = @ + 1,
                                     !.decoded = @ + Chunk.bytes]
             /\ candidates' = Append(candidates, [key |-> Chunk.key, text |-> Chunk.text])
             /\ UNCHANGED rejected

\* One turn of the scan.  A damaged chunk and IEND end it; so does the limit on
\* chunks.
ScanChunk ==
    /\ Scanning
    /\ CASE scan.at > MaxChunks ->
              /\ scan' = [scan EXCEPT !.limit = TRUE, !.at = Len(File.chunks) + 1]
              /\ UNCHANGED <<candidates, rejected>>
         [] scan.at <= MaxChunks /\ Chunk.type = "damaged" ->
              /\ scan' = [scan EXCEPT !.malformed = TRUE]
              /\ UNCHANGED <<candidates, rejected>>
         [] scan.at <= MaxChunks /\ Chunk.type = "IEND" ->
              /\ scan' = [scan EXCEPT !.iend = TRUE]
              /\ UNCHANGED <<candidates, rejected>>
         [] scan.at <= MaxChunks /\ CanonicalKeyword(Chunk) -> CollectChunk
         [] OTHER ->
              /\ scan' = [scan EXCEPT !.at = @ + 1]
              /\ UNCHANGED <<candidates, rejected>>
    /\ UNCHANGED <<scene, pc, selection, embedded, sidecar, decision>>

\* The second look, without limits on texts: whether any chunk may hold metadata.
ScanPngChunkSummary ==
    \E n \in 1..Len(File.chunks) :
        /\ n <= SummaryChunks
        /\ File.chunks[n].type \in TextTypes \cup {"eXIf"}
        /\ \A m \in 1..n : File.chunks[m].type # "damaged"
        /\ \A m \in 1..(n - 1) : File.chunks[m].type # "IEND"

NoEntries == Verdict(IF ScanPngChunkSummary THEN "metadata_no_prompt" ELSE "no_metadata")

\* Only a scan that reached IEND within every limit is used at all.
ScanComplete == scan.iend /\ ~scan.limit /\ ~scan.malformed

EndScan ==
    /\ pc = "scan" /\ ~Scanning
    /\ CASE ~ScanComplete       -> /\ embedded' = Verdict("encoded_or_unknown")
                                   /\ pc' = "sidecar"
         [] ScanComplete /\ scan.recognised = 0 ->
              /\ embedded' = NoEntries
              /\ pc' = "sidecar"
         [] OTHER               -> pc' = "judge" /\ UNCHANGED embedded
    /\ UNCHANGED <<scene, selection, scan, candidates, rejected, sidecar, decision>>

NextInFileOrderMutant == 1

\* candidateOrder: parameters before prompt, then the order in the file.
NextCandidate ==
    CHOOSE n \in DOMAIN candidates : \A m \in DOMAIN candidates :
        \/ Key(candidates[n]) < Key(candidates[m])
        \/ Key(candidates[n]) = Key(candidates[m]) /\ n <= m

Judged(n, v) ==
    IF v.class = "usable"
    THEN embedded' = v /\ pc' = "sidecar" /\ UNCHANGED <<rejected, candidates>>
    ELSE /\ rejected' = Append(rejected, [class |-> v.class])
         /\ candidates' = RemoveAt(candidates, n)
         /\ UNCHANGED <<embedded, pc>>

JudgeCandidate ==
    /\ pc = "judge"
    /\ candidates # <<>>
    /\ Judged(NextCandidate, EvaluateCandidate(candidates[NextCandidate]))
    /\ UNCHANGED <<scene, selection, scan, sidecar, decision>>

\* rejectedOrder: the verdict reported when no text was usable.
Priority == <<"structured", "encoded_or_unknown", "non_english", "metadata_no_prompt">>

NoneUsable ==
    /\ pc = "judge"
    /\ candidates = <<>>
    /\ embedded' = Verdict(Priority[Min({n \in DOMAIN Priority :
                                           [class |-> Priority[n]] \in Range(rejected)})])
    /\ pc' = "sidecar"
    /\ UNCHANGED <<scene, selection, scan, candidates, rejected, sidecar, decision>>

-----------------------------------------------------------------------------
(* The inspection *)

\* The click: source and companion are frozen.  A message that is not in the
\* store has no companion.
CaptureMetadataSelection ==
    /\ pc = "idle"
    /\ LET att == RecoverOriginalImageUrl(scene.urls)
       IN  /\ att # NotFound
           /\ \E stored \in BOOLEAN :
                selection' = [att |-> att,
                              companion |-> IF stored
                                            THEN MetadataCompanionForMessage(att, scene.message)
                                            ELSE [status |-> "none"]]
    /\ pc' = "captured"
    /\ UNCHANGED <<scene, scan, candidates, rejected, embedded, sidecar, decision>>

\* A redirect must end at the same attachment.
SameMediaProvenance(left, right) == left # NotFound /\ left = right

\* Neither the announced nor the received bytes may exceed the limit.
ReadResponseBytes(f) == f.announced <= MaxImage /\ f.size \in 1..MaxImage

\* The original: refused, redirected elsewhere, too large or not an image; or an
\* image, of which only a PNG is searched.
DetectImageFormat(f) == f.format

DownloadOriginal ==
    /\ pc = "captured"
    /\ \E answer \in scene.answers :
          LET read == /\ SameMediaProvenance(answer, selection.att)
                      /\ ReadResponseBytes(File)
                      /\ DetectImageFormat(File) = "png"
          IN  /\ pc' = IF read THEN "scan" ELSE "sidecar"
              /\ embedded' = IF read THEN embedded ELSE Verdict("encoded_or_unknown")
    /\ UNCHANGED <<scene, selection, scan, candidates, rejected, sidecar, decision>>

\* The YAML: none, unreadable in one of the same ways, or its text.
DownloadCompanion ==
    /\ pc = "sidecar"
    /\ IF selection.companion.status # "found"
       THEN sidecar' = Verdict("none")
       ELSE \/ sidecar' = Verdict("encoded_or_unknown")
            \/ sidecar' = EvaluatePromptValue(scene.yaml)
    /\ pc' = "decide"
    /\ UNCHANGED <<scene, selection, scan, candidates, rejected, embedded, decision>>

\* Every usable prompt once; without one, the gravest classification.
SelectMetadataPromptCandidates ==
    LET prompts == {v.prompt : v \in {w \in {embedded, sidecar} : w.class = "usable"}}
        classes == {embedded.class, sidecar.class} \cup
                   (IF selection.companion.status = "ambiguous" THEN {"structured"} ELSE {})
        grave   == SelectSeq(<<"non_english", "structured", "encoded_or_unknown",
                               "metadata_no_prompt", "no_metadata">>,
                             LAMBDA c : c \in classes)
    IN  [class   |-> IF prompts # {} THEN "usable" ELSE Head(grave),
         prompts |-> prompts]

Decide ==
    /\ pc = "decide"
    /\ decision' = SelectMetadataPromptCandidates
    /\ pc' = "done"
    /\ UNCHANGED <<scene, selection, scan, candidates, rejected, embedded, sidecar>>

\* Eight seconds passed first.
TimeOut ==
    /\ pc \notin {"idle", "done"}
    /\ decision' = [class |-> "metadata_timeout", prompts |-> {}]
    /\ pc' = "done"
    /\ UNCHANGED <<scene, selection, scan, candidates, rejected, embedded, sidecar>>

InspectionInit ==
    /\ \E family \in Scenes : scene \in family
    /\ pc = "idle"
    /\ selection = NoSelection
    /\ scan = NoScan
    /\ candidates = <<>>
    /\ rejected = <<>>
    /\ embedded = Verdict("no_metadata")
    /\ sidecar = Verdict("none")
    /\ decision = Undecided

InspectionNext ==
    \/ CaptureMetadataSelection \/ DownloadOriginal
    \/ ScanChunk \/ EndScan \/ JudgeCandidate \/ NoneUsable
    \/ DownloadCompanion \/ Decide \/ TimeOut

InspectionSpec == InspectionInit /\ [][InspectionNext]_inspectionVars

-----------------------------------------------------------------------------
(* Properties *)

\* The chunks of a file before its IEND, when nothing before that is damaged.
Body(chunks) ==
    LET ends == {n \in DOMAIN chunks : chunks[n].type = "IEND"}
        last == CHOOSE n \in ends : \A m \in ends : n <= m
    IN  IF ends = {} \/ \E m \in 1..last : chunks[m].type = "damaged"
        THEN {} ELSE 1..last

\* Its chunks that hold a readable text under one of the two keys.
Readable(chunks) ==
    {n \in Body(chunks) : CanonicalKeyword(chunks[n]) /\ ~ParseTextChunkFails(chunks[n])}

WithinLimits(chunks) ==
    /\ Cardinality(Body(chunks)) <= MaxChunks
    /\ Cardinality(Readable(chunks)) <= MaxCandidates
    /\ MapThenSumSet(LAMBDA n : chunks[n].bytes, Readable(chunks)) <= MaxTotalText

\* The prompt taken from a file is the first usable "parameters" text, or else
\* the first usable "prompt" text, of a file read to its end within all limits;
\* of any other file nothing is taken, however good its texts.
FirstUsableWins ==
    pc = "sidecar" /\ scan # NoScan =>
        LET chunks == File.chunks
            good   == {n \in Readable(chunks) : EvaluateCandidate(chunks[n]).class = "usable"}
            best   == {n \in good : \A m \in good :
                          \/ Key(chunks[n]) < Key(chunks[m])
                          \/ Key(chunks[n]) = Key(chunks[m]) /\ n <= m}
        IN  IF WithinLimits(chunks) /\ good # {}
            THEN \E n \in best : embedded = EvaluateCandidate(chunks[n])
            ELSE embedded.class # "usable"

\* A YAML paired with the clicked image would not be paired with any other
\* image of that message: no prompt is credited to two pictures.
CompanionIsItsOwn ==
    selection.companion.status = "found" =>
        \A i \in ImageFiles(scene.message) :
            i.id # selection.att =>
                SelectCompanionMetadataAttachment(i.id, scene.message) # selection.companion
=============================================================================
