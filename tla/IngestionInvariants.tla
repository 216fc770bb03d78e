------------------------- MODULE IngestionInvariants -------------------------
(***************************************************************************)
(* What every step of the ingestion pipelines preserves: the inductive     *)
(* invariants behind DoneIsCurrent, SingleOwner, OneDocumentPerVersion,    *)
(* ProcessingIsOwned and IndexedIsEmbedded of Ingestion.                   *)
(***************************************************************************)
EXTENDS Ingestion

(* The text that is about to be saved is the text of some file.            *)
HasContent == \A w \in Workers : worker[w].pc = "save" => worker[w].content \in Contents

(* Nobody has seen a version of a file that is still to be written.        *)
ClaimInPast == \A w \in Workers :
                 Busy(w) => worker[w].mtime <= file[worker[w].path].mtime
RowInPast   == \A p \in Paths : manifest[p].mtime <= file[p].mtime

(* The pipeline w has claimed the version of the file that is on the disk. *)
Current(w) == worker[w].mtime = file[worker[w].path].mtime

(* A text extracted for the current version is the current text: a file    *)
(* that changed under the extraction has a newer modification time.        *)
SavePending == \A w \in Workers :
  worker[w].pc = "save" /\ Current(w) => worker[w].content = file[worker[w].path].content

(* Between the commit of the document and the row that says "done".        *)
Closing(w) == \/ worker[w].pc = "finish"
              \/ worker[w].pc \in {"embed", "upsert"} /\ worker[w].kind = "stream"
ClosePending == \A w \in Workers : Closing(w) /\ Current(w) => Stored(worker[w].path)

(* The invariant behind DoneIsCurrent: as long as nothing is deleted, a    *)
(* row can only become "done" for a version whose text was stored.         *)
CurrentInv == /\ HasContent /\ ClaimInPast /\ RowInPast
              /\ SavePending /\ ClosePending /\ DoneIsCurrent

(* With SQLite, without forced ingestions and manual changes of the rows.  *)

NoForce == \A w \in Workers : Busy(w) => worker[w].force = FALSE

(* One process at a time is inside a transaction.                          *)
OneTransaction == \A v, w \in Workers :
  /\ worker[v].pc \in {"claim", "save"}
  /\ worker[w].pc \in {"claim", "save"}
  => v = w

(* The row a pipeline has read is still there when it claims the path, and *)
(* nobody was processing it.                                               *)
SeenIsRow == \A w \in Workers : worker[w].pc = "claim" =>
  /\ worker[w].seen = manifest[worker[w].path]
  /\ worker[w].seen.status # "processing"

(* A pipeline that owns a path has its claim in the row.                   *)
OwnerHasRow == \A w \in Workers : Owns(w) =>
  /\ manifest[worker[w].path].status = "processing"
  /\ manifest[worker[w].path].mtime = worker[w].mtime

(* The invariant behind SingleOwner.                                       *)
OwnerInv == NoForce /\ OneTransaction /\ SeenIsRow /\ OwnerHasRow /\ SingleOwner

(* A pipeline that has not saved a document claims a version newer than    *)
(* that of every document of its path.                                     *)
Unsaved(w) == worker[w].pc \in {"claim", "mark", "extract", "save", "failed"}
NewVersion == \A w \in Workers : Unsaved(w) =>
  \A d \in docs : d.path = worker[w].path => d.claim < worker[w].mtime

(* A document made from the current version of its file is in the row: no  *)
(* retry, no scan and no cleared failure makes should_process hash it.     *)
VersionInRow == \A d \in docs :
  /\ d.claim <= file[d.path].mtime
  /\ d.claim = file[d.path].mtime =>
       /\ manifest[d.path].status \in {"processing", "done"}
       /\ manifest[d.path].mtime = d.claim

(* A pipeline past its commit has its document.                            *)
SavedInv == \A w \in Workers : worker[w].pc \in {"finish", "embed", "upsert"} => Saved(w)

(* The invariant behind OneDocumentPerVersion.                             *)
VersionInv == NewVersion /\ VersionInRow /\ SavedInv /\ OneDocumentPerVersion

(* Identifiers are never given twice: nothing is known of the next ones.   *)
PastSave(w) == worker[w].pc \in {"finish", "embed", "upsert"}
IdsInPast ==
  /\ \A d \in docs : d.id < nextDoc
  /\ \A v \in vectors : v < nextDoc
  /\ \A w \in Workers : PastSave(w) => worker[w].doc < nextDoc
IdsDiffer == \A d, e \in docs : d.id = e.id => d = e

(* The vectors of a document that is still there are written after its     *)
(* references are committed.                                               *)
UpsertPending ==
  \A w \in Workers : worker[w].pc = "upsert" /\ Saved(w) => worker[w].doc \in embedded

(* A deletion under way deletes documents that are still there.            *)
GoneInv == admin.gone \subseteq docs

(* The invariant behind IndexedIsEmbedded.                                 *)
IndexInv == IdsInPast /\ IdsDiffer /\ GoneInv /\ UpsertPending /\ IndexedIsEmbedded

(* Of the pipelines that own a path under processing, one has not read an  *)
(* older row: when it ends, it finds that it has to change the status.     *)
Fresh(w) == worker[w].loaded => worker[w].seen.status = "processing"
ProcessingInv ==
  \A p \in Paths : manifest[p].status = "processing" =>
    \E w \in Workers : Owns(w) /\ worker[w].path = p /\ Fresh(w)
=============================================================================
