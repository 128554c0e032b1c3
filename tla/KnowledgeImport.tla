--------------------------- MODULE KnowledgeImport ---------------------------
(***************************************************************************)
(* How a source becomes a canonical document: secure intake                *)
(* (knowledge/intake.py), the MinerU adapter and its CLI runner            *)
(* (parsing.py), the bounded parser fallback (fallback.py) and             *)
(* normalization (normalization.py).                                       *)
(*                                                                         *)
(* A pipeline call suspends only in the parser process or the independent  *)
(* OCR engine; stages that fail or pass text through without suspending    *)
(* are part of the step before. The file behind an artifact may change at  *)
(* any time. Bytes are reduced to what the checks tell apart about them.   *)
(***************************************************************************)
EXTENDS Refusals, FiniteSets

CONSTANTS
  Imports,        \* pipeline calls, numbered as they arrive
  Artifacts,      \* descriptions of source artifacts
  Pages,          \* expected pages, 0..n-1
  TablePages, FormulaPages, DrawingPages,
  Scans           \* what a parser may make of a page

VARIABLES
  changed,        \* the file no longer has the artifact's hash
  intake,         \* import -> intake result
  pipeline,       \* import -> state of its fallback pipeline
  outputDirs,     \* stages whose output directory exists, per run id
  processes       \* parser processes started, per run id and stage

impVars == <<changed, intake, pipeline, outputDirs, processes>>

-----------------------------------------------------------------------------
(* Intake                                                                  *)

\* _detect_text and _decode_with: an explicit encoding or a byte-order mark
\* decides, strict UTF-8 and empty text are certain, the UTF-16 pattern and
\* the legacy candidates stay below the confidence that is accepted.
DetectText(t) ==
  CASE t.named -> IF t.decodes THEN "certain" ELSE "failed"
    [] ~t.named /\ (t.utf8 \/ t.empty) -> "certain"
    [] OTHER -> IF (t.nulPattern /\ t.decodes) \/ (~t.nulPattern /\ t.legacy)
                THEN "doubtful" ELSE "failed"

\* _inspect_ooxml.
ContainerError(z) ==
  FirstRefusal(<<
    <<~z.valid, "INTAKE_ARCHIVE_INVALID">>,
    <<~z.entries, "INTAKE_ARCHIVE_ENTRY_LIMIT">>,
    <<~z.paths, "INTAKE_ARCHIVE_PATH_DENIED">>,
    <<z.expands, "INTAKE_ARCHIVE_EXPANSION_DENIED">>,
    <<~z.root, "INTAKE_ARCHIVE_UNSUPPORTED">> >>)

\* _binary_media_type and the media decision of _inspect.
DetectedMedia(a) ==
  CASE a.form \in {"pdf", "image", "legacy"} -> a.form
    [] a.form = "ooxml" -> "ooxml"
    [] OTHER -> "text"

\* intake and _inspect up to the record: what rejects a source outright.
IntakeError(a) ==
  FirstRefusal(<<
    <<~a.owned, "INTAKE_SCOPE_DENIED">>,
    <<~a.immutable, "INTAKE_SOURCE_MUTABLE">>,
    <<a.oversize, "INTAKE_FILE_TOO_LARGE">>,
    <<~a.readable, "FILE_NOT_FOUND">>,
    <<changed, "INTAKE_SOURCE_ATTESTATION_FAILED">>,
    <<a.executable, "INTAKE_EXECUTABLE_DENIED">>,
    <<a.form = "ooxml" /\ ContainerError(a.zip) # None, ContainerError(a.zip)>>,
    <<a.form = "text" /\ DetectText(a.text) = "failed" /\ a.declared # "text",
      "INTAKE_MEDIA_UNSUPPORTED">> >>)

\* The status of one source; an undecodable text, a media type other than the
\* declared one and a doubtful encoding are for manual review.
IntakeStatus(a) ==
  IF IntakeError(a) # None THEN "REJECTED"
  ELSE IF \/ a.form = "text" /\ DetectText(a.text) # "certain"
          \/ a.declared # DetectedMedia(a)
  THEN "MANUAL_REVIEW" ELSE "ACCEPTED"

NoIntake == [status |-> "none"]

\* intake_batch: of equal contents only the first accepted one is accepted.
IntakeBatch(arts) ==
  /\ \A i \in Imports : intake[i] = NoIntake
  /\ intake' = [i \in Imports |->
       [status |-> IF \E j \in Imports :
                        /\ j < i
                        /\ IntakeStatus(arts[j]) = "ACCEPTED"
                        /\ arts[j].content = arts[i].content
                        /\ IntakeStatus(arts[i]) = "ACCEPTED"
                   THEN "REJECTED" ELSE IntakeStatus(arts[i]),
        media |-> arts[i].declared, scan |-> arts[i].scan,
        runId |-> arts[i].runId]]
  /\ UNCHANGED <<changed, pipeline, outputDirs, processes>>

-----------------------------------------------------------------------------
(* The parser fallback                                                     *)

Missing == [text |-> "missing", table |-> FALSE, formula |-> FALSE, hollow |-> FALSE]
Stages == <<"PRIMARY", "MINERU_OCR", "INDEPENDENT_OCR">>
NotStarted == [at |-> "idle"]
NoDocument == [p \in Pages |-> [scan |-> Missing, stage |-> 0]]

\* ParserQualityGate.evaluate, for one page; its coverage thresholds only fail
\* where a page already has.
PagePasses(p, s) ==
  /\ s # Missing
  /\ p \notin DrawingPages => s.text # "sparse"
  /\ s.text # "corrupt"
  /\ p \in TablePages => s.table
  /\ p \in FormulaPages => s.formula

FailedPages(doc) == {p \in Pages : ~PagePasses(p, doc[p].scan)}

\* Mutant: pages the fallback has read replace the earlier ones.
MergeDocumentsOver(earlier, new) ==
  [p \in Pages |-> IF new[p].scan # Missing THEN new[p] ELSE earlier[p]]

\* _merge_documents: only the failed pages are replaced. A pipeline without a
\* document takes the new one whole, which NoDocument stands for.
MergeDocuments(earlier, new) ==
  [p \in Pages |-> IF p \in FailedPages(earlier) THEN new[p] ELSE earlier[p]]

\* The document of text that is passed through: one page, no process.
TextDocument(i) ==
  [p \in Pages |-> IF p = 0 THEN [scan |-> intake[i].scan, stage |-> 1]
                   ELSE NoDocument[p]]

\* MinerUAdapter.parse and MinerUCliRunner.run, or IndependentOcrAdapter.parse,
\* up to the await. The others fail without suspending.
Suspends(i, s) ==
  /\ ~changed
  /\ s < 3 => /\ intake[i].media \in {"pdf", "image", "ooxml"}
              /\ <<intake[i].runId, s>> \notin outputDirs

\* The next stage at which the pipeline waits, or its end.
Wait(i, doc, from) ==
  LET waits == {s \in from..3 : Suspends(i, s)}
      s == CHOOSE x \in waits : \A y \in waits : x <= y IN
  IF FailedPages(doc) = {} \/ waits = {}
  THEN /\ pipeline' = [pipeline EXCEPT ![i] =
            [at |-> IF FailedPages(doc) = {} THEN "READY" ELSE "MANUAL_REVIEW", doc |-> doc]]
       /\ UNCHANGED <<outputDirs, processes>>
  ELSE /\ pipeline' = [pipeline EXCEPT ![i] = [at |-> "parsing", stage |-> s, doc |-> doc]]
       /\ outputDirs' = IF s < 3 THEN outputDirs \cup {<<intake[i].runId, s>>}
                        ELSE outputDirs
       /\ processes' = [processes EXCEPT ![<<intake[i].runId, s>>] = @ + 1]

\* ParserFallbackPipeline.run up to its first await, for an accepted source.
StartPipeline(i) ==
  /\ intake[i].status = "ACCEPTED"
  /\ pipeline[i] = NotStarted
  /\ Wait(i, IF intake[i].media = "text" THEN TextDocument(i) ELSE NoDocument, 1)
  /\ UNCHANGED <<changed, intake>>

Awaiting(i, stages) == pipeline[i].at = "parsing" /\ pipeline[i].stage \in stages

\* What _validate_output or _independent_document accepts: contiguous pages
\* from 0; the independent engine returns text blocks only.
ParsedDocuments(s) ==
  {d \in [Pages -> {[scan |-> x, stage |-> IF x = Missing THEN 0 ELSE s] :
                      x \in Scans \cup {Missing}}] :
     /\ d[0].scan # Missing
     /\ \A p \in Pages : p > 0 /\ d[p].scan # Missing => d[p - 1].scan # Missing
     /\ s = 3 => \A p \in Pages : ~d[p].scan.table /\ ~d[p].scan.formula
                                  /\ ~d[p].scan.hollow}

\* The process or engine returns output that is valid.
ParserReturns(i) ==
  /\ Awaiting(i, 1..3)
  /\ \E d \in ParsedDocuments(pipeline[i].stage) :
       Wait(i, MergeDocuments(pipeline[i].doc, d), pipeline[i].stage + 1)
  /\ UNCHANGED <<changed, intake>>

\* A timeout, a failed process, incomplete output (_collect) or output that is
\* refused: the stage is a failed attempt.
ParserFails(i) ==
  /\ Awaiting(i, 1..3)
  /\ Wait(i, pipeline[i].doc, pipeline[i].stage + 1)
  /\ UNCHANGED <<changed, intake>>

\* Any other exception of the independent engine passes through run.
EngineRaises(i) ==
  /\ Awaiting(i, {3})
  /\ pipeline' = [pipeline EXCEPT ![i] = [at |-> "raised"]]
  /\ UNCHANGED <<changed, intake, outputDirs, processes>>

-----------------------------------------------------------------------------
\* KnowledgeNormalizer._elements, with _element_kind: one element per block. A
\* block without text or asset is refused.
Elements(doc) ==
  UNION {{<<p, k>> : k \in {"PARAGRAPH"}
                           \cup (IF doc[p].scan.table THEN {"TABLE"} ELSE {})
                           \cup (IF doc[p].scan.formula THEN {"FORMULA"} ELSE {})} :
           p \in Pages}

\* normalize: a ready pipeline whose blocks all have content.
Normalize(i) ==
  /\ pipeline[i].at = "READY"
  /\ LET doc == pipeline[i].doc IN
     pipeline' = [pipeline EXCEPT ![i] =
       IF \E p \in Pages : doc[p].scan.hollow THEN [at |-> "FAILED"]
       ELSE [at |-> "NORMALIZED", doc |-> doc, elements |-> Elements(doc)]]
  /\ UNCHANGED <<changed, intake, outputDirs, processes>>

SourceChanges ==
  /\ ~changed
  /\ changed' = TRUE
  /\ UNCHANGED <<intake, pipeline, outputDirs, processes>>

RunIds == {a.runId : a \in Artifacts}

Init ==
  /\ changed = FALSE
  /\ intake = [i \in Imports |-> NoIntake]
  /\ pipeline = [i \in Imports |-> NotStarted]
  /\ outputDirs = {}
  /\ processes = [e \in RunIds \X (1..3) |-> 0]

Next ==
  \/ \E arts \in [Imports -> Artifacts] : IntakeBatch(arts)
  \/ \E i \in Imports :
       \/ StartPipeline(i) \/ ParserReturns(i) \/ ParserFails(i)
       \/ EngineRaises(i) \/ Normalize(i)
  \/ SourceChanges

Spec == Init /\ [][Next]_impVars
-----------------------------------------------------------------------------
\* A page that has passed the gate is never replaced by a later stage
\* (fallback.py, _merge_documents takes failed pages only).
PassedPagesAreKept ==
  \A i \in Imports :
    (pipeline[i].at = "parsing" /\ pipeline'[i].at \in {"parsing", "READY", "MANUAL_REVIEW"}) =>
      \A p \in Pages \ FailedPages(pipeline[i].doc) :
        pipeline'[i].doc[p] = pipeline[i].doc[p]

\* No two pipeline calls run the same parser stage under one run id, in
\* whatever order they interleave (parsing.py, the output directory).
ParserRunsOnce ==
  \A e \in DOMAIN processes : e[2] < 3 => processes[e] <= 1

\* The fallback pipeline never runs a parser twice over its own output and never
\* gives up a page it has read well.
ImportIsSound == [][ParserRunsOnce' /\ PassedPagesAreKept]_impVars
=============================================================================
