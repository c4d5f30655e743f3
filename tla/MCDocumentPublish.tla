-------------------------- MODULE MCDocumentPublish --------------------------
(* Instances of DocumentPublish for TLC.                                    *)
EXTENDS DocumentPublish, TLC

DocumentsAndSummaries == <<"school_documents", "school_document_summaries">>

(* The synchronisations are interchangeable.                                *)
SyncSymmetry == Permutations(Syncs)
=============================================================================
