------------------------- MODULE DocumentLifecycle -------------------------
(***************************************************************************)
(* The lifecycle of a document row (PDFFile) and of its stored PDF, as the *)
(* administrator's views change them (flowdocs/core/views.py,              *)
(* core/maintenance.py, core/services/document_lifecycle.py).              *)
(*                                                                         *)
(* A row is a slot of Docs: "none" before it is created, "gone" after it   *)
(* was deleted.  Forms, roles, messages and the audit text are left out;   *)
(* the file is present or absent, its digest is right when it is present.  *)
(***************************************************************************)
EXTENDS Naturals, FiniteSets

CONSTANTS
    Docs,       \* the documents of one folder
    MaxOps,     \* bound: lifecycle decisions of administrators
    MaxFaults   \* bound: PDFs that vanish and troubles of the workers

ASSUME DocumentBounds == MaxOps \in Nat /\ MaxFaults \in Nat

VARIABLES
    doc,        \* doc[d]: the row of d
    media,      \* documents whose PDF is in storage
    deleting,   \* pdf.delete() removed the file, the row comes next
    ops, faults \* consumed bounds

rowVars == <<doc, media, deleting, ops>>
docVars == <<rowVars, faults>>

\* SEARCHABLE_PDF_LIFECYCLES
SearchableLives == {"uploaded", "processing", "ready"}
HiddenLives     == {"deprecated", "archived", "unavailable"}
Lives           == {"none", "gone", "intake"} \cup SearchableLives \cup HiddenLives

Row  == [life: Lives,
         prior: Lives,      \* media_prior_lifecycle, "none" when blank
         evidence: BOOLEAN, \* media_expected_sha256 and _size are bound
         chunks: BOOLEAN]   \* page_chunks and chunk_embeddings are stored
NoRow == [life |-> "none", prior |-> "none", evidence |-> FALSE, chunks |-> FALSE]

Exists(d)     == doc[d].life \notin {"none", "gone"}
Searchable(d) == doc[d].life \in SearchableLives
DocInit ==
    /\ doc = [d \in Docs |-> NoRow]
    /\ media = {} /\ deleting = {}
    /\ ops = 0 /\ faults = 0

\* The row d takes lifecycle l, whatever it was.
Become(d, l) == doc' = [doc EXCEPT ![d].life = l]

Decision == ops < MaxOps /\ ops' = ops + 1
Fault    == faults < MaxFaults /\ faults' = faults + 1

\* A new row with its PDF, in lifecycle l.
CreateDocs(new, l) ==
    /\ doc' = [d \in Docs |-> IF d \in new THEN [NoRow EXCEPT !.life = l] ELSE doc[d]]
    /\ media' = media \cup new
    /\ UNCHANGED <<deleting, ops, faults>>

\* Rows and, after the commit, PDFs of the documents in dead are removed.
RemoveDocs(dead) ==
    /\ doc' = [d \in Docs |-> IF d \in dead THEN [NoRow EXCEPT !.life = "gone"] ELSE doc[d]]
    /\ media' = media \ dead
    /\ UNCHANGED <<deleting, ops, faults>>

-----------------------------------------------------------------------------
(* What an administrator may decide                                        *)

\* deprecate_pdf_view takes any row but an archived one, intake and
\* unavailable rows included; archive_pdf_view takes any row.
DeprecateView(d) ==
    /\ Decision
    /\ Exists(d) /\ doc[d].life # "archived"
    /\ Become(d, "deprecated")
    /\ UNCHANGED <<media, deleting, faults>>

ArchiveView(d) ==
    /\ Decision
    /\ Exists(d)
    /\ Become(d, "archived")
    /\ UNCHANGED <<media, deleting, faults>>

\* remove_from_search with the outcomes superseded and historical_record; a
\* repeated outcome changes nothing.
RemoveFromSearch(d) ==
    /\ Decision
    /\ \/ Searchable(d) /\ Become(d, "deprecated")
       \/ (Searchable(d) \/ doc[d].life = "deprecated") /\ Become(d, "archived")
    /\ UNCHANGED <<media, deleting, faults>>

\* mark_pdf_unavailable: only while the PDF is really absent; the lifecycle is
\* recorded, the evidence may be bound later.
MarkUnavailable(d) ==
    /\ Decision
    /\ Exists(d) /\ doc[d].life # "unavailable"
    /\ d \notin media
    /\ \E evidence \in BOOLEAN :
          doc' = [doc EXCEPT ![d].life = "unavailable", ![d].prior = doc[d].life,
                             ![d].evidence = evidence]
    /\ UNCHANGED <<media, deleting, faults>>

\* bind_unavailable_recovery_evidence
BindEvidence(d) ==
    /\ Decision
    /\ doc[d].life = "unavailable" /\ ~doc[d].evidence
    /\ doc' = [doc EXCEPT ![d].evidence = TRUE]
    /\ UNCHANGED <<media, deleting, faults>>

\* restore_unavailable_pdf, from restore_pdf_view and recover_document: the PDF
\* is verified against the evidence and the row returns to where it was.
RestoreUnavailable(d) ==
    /\ Decision
    /\ doc[d].life = "unavailable"
    /\ doc[d].evidence /\ d \in media
    /\ doc[d].prior \in SearchableLives \cup {"deprecated", "archived"}
    /\ Become(d, doc[d].prior)
    /\ UNCHANGED <<media, deleting, faults>>

\* restore_pdf: every row that is not unavailable, an intake row included.
Restore(d) ==
    /\ Decision
    /\ Exists(d) /\ doc[d].life # "unavailable"
    /\ Become(d, "uploaded")
    /\ UNCHANGED <<media, deleting, faults>>

\* PDFFile.delete removes the file and then the row.
DeleteFile(d) ==
    /\ Decision
    /\ Exists(d) /\ d \notin deleting
    /\ deleting' = deleting \cup {d}
    /\ media' = media \ {d}
    /\ UNCHANGED <<doc, faults>>

DeleteRow(d) ==
    /\ d \in deleting
    /\ deleting' = deleting \ {d}
    /\ doc' = [doc EXCEPT ![d] = [NoRow EXCEPT !.life = "gone"]]
    /\ UNCHANGED <<media, ops, faults>>

\* The process dies, or the row cannot be deleted.
DeleteStops(d) ==
    /\ d \in deleting
    /\ deleting' = deleting \ {d}
    /\ UNCHANGED <<doc, media, ops, faults>>

\* The PDF vanishes from storage, or an operator puts it back.
MediaLost(d) ==
    /\ Exists(d) /\ d \in media
    /\ Fault
    /\ media' = media \ {d}
    /\ UNCHANGED <<doc, deleting, ops>>

MediaReturned(d) ==
    /\ Exists(d) /\ d \notin media \cup deleting
    /\ media' = media \cup {d}
    /\ UNCHANGED <<doc, deleting, ops, faults>>

Decide(d) ==
    \/ DeprecateView(d) \/ ArchiveView(d) \/ RemoveFromSearch(d)
    \/ MarkUnavailable(d) \/ BindEvidence(d)
    \/ RestoreUnavailable(d) \/ Restore(d)
    \/ DeleteFile(d)

DocNext(d) ==
    \/ Decide(d)
    \/ DeleteRow(d) \/ DeleteStops(d)
    \/ MediaLost(d) \/ MediaReturned(d)
=============================================================================
