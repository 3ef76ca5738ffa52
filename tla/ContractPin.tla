---------------------------- MODULE ContractPin ----------------------------
(***************************************************************************)
(* The pinned OpenAPI contract and the script that checks and updates it   *)
(* (src/scripts/update_openapi.py).  The pin is two files: a document      *)
(* named after its API version, and metadata that names the document and   *)
(* has its digest.  They are written one after the other, each by first    *)
(* cutting the old file to nothing, and a run can be killed or fail        *)
(* anywhere in between.  Runs follow each other in one working tree.       *)
(***************************************************************************)

CONSTANTS
  Documents,    \* the contracts the source publishes, in normal form
  Versions,     \* their API versions
  VersionOf     \* the version of each document, and so the name of its file

ASSUME VersionAssumption == VersionOf \in [Documents -> Versions]
ASSUME FileNameAssumption == "metadata" \notin Versions

VARIABLES
  stored,       \* the documents that are whole in their files
  metadata,     \* {d} when the metadata names d and has its digest, or {}
  torn,         \* the files that have been cut and not written to the end
  pc,           \* where the run is, "idle" between runs
  check,        \* the run was given --check
  new,          \* {d} once the run has loaded d from the source
  old,          \* {d} once it has read d as the pinned document
  verdict       \* how the last run ended, "none" during a run

vars == <<stored, metadata, torn, pc, check, new, old, verdict>>

-----------------------------------------------------------------------------
Files == Versions \union {"metadata"}

FileOf(v) == {d \in stored : VersionOf[d] = v}

\* The versions of the documents in a set: the file a run writes, or the one
\* the metadata names.
VersionsOf(docs) == {VersionOf[d] : d \in docs}

Init ==
  /\ stored = {}
  /\ metadata = {}
  /\ torn = {}
  /\ pc = "idle"
  /\ check = FALSE
  /\ new = {}
  /\ old = {}
  /\ verdict = "none"

End(v) == pc' = "idle" /\ verdict' = v

Begin(c) ==
  /\ pc = "idle"
  /\ pc' = "load"
  /\ check' = c
  /\ new' = {} /\ old' = {}
  /\ verdict' = "none"
  /\ UNCHANGED <<stored, metadata, torn>>

Load(d) ==
  /\ pc = "load"
  /\ new' = {d}
  /\ pc' = "read"
  /\ UNCHANGED <<stored, metadata, torn, check, old, verdict>>

\* No answer, no JSON, or not a contract: exit status 2.  An answer that breaks
\* off is an exception of http.client, which main does not catch.
LoadFails ==
  /\ pc = "load"
  /\ End("error") \/ End("traceback")
  /\ UNCHANGED <<stored, metadata, torn, check, new, old>>

-----------------------------------------------------------------------------
(* read_pinned *)

NothingPinned == metadata = {} /\ "metadata" \notin torn

\* A file that ends in the middle is no JSON.
Unreadable == torn \intersect (VersionsOf(metadata) \union {"metadata"}) # {}

\* The document in the file the metadata names.
Named == UNION {FileOf(v) : v \in VersionsOf(metadata)}

\* Bug: the digest is not compared.
AnyDocument == ~Unreadable /\ Named # {}

DigestMatches == ~Unreadable /\ Named = metadata

ReadNothing ==
  /\ pc = "read"
  /\ NothingPinned
  /\ old' = {}
  /\ pc' = "compare"
  /\ UNCHANGED <<stored, metadata, torn, check, new, verdict>>

ReadPinned ==
  /\ pc = "read"
  /\ ~NothingPinned
  /\ DigestMatches
  /\ old' = Named
  /\ pc' = "compare"
  /\ UNCHANGED <<stored, metadata, torn, check, new, verdict>>

\* The JSON decoder's exception passes main by: a traceback.
ReadUnreadable ==
  /\ pc = "read"
  /\ Unreadable
  /\ End("traceback")
  /\ UNCHANGED <<stored, metadata, torn, check, new, old>>

\* ContractError: the file is gone or its digest is not the metadata's.
ReadMismatch ==
  /\ pc = "read"
  /\ ~NothingPinned /\ ~Unreadable
  /\ ~DigestMatches
  /\ End("error")
  /\ UNCHANGED <<stored, metadata, torn, check, new, old>>

\* OSError: a file that is there cannot be read.
ReadFails ==
  /\ pc = "read"
  /\ ~NothingPinned
  /\ End("error")
  /\ UNCHANGED <<stored, metadata, torn, check, new, old>>

-----------------------------------------------------------------------------
(* update_contract *)

Report ==
  /\ pc = "compare"
  /\ check \/ old = new
  /\ End(IF old = new THEN "current" ELSE "drift")
  /\ UNCHANGED <<stored, metadata, torn, check, new, old>>

\* Bug: documents of other versions are removed before the new one is written.
ClearDirectory ==
  /\ pc = "compare"
  /\ ~check /\ old # new
  /\ stored' = {}
  /\ torn' = VersionsOf(new)
  /\ pc' = "document"
  /\ UNCHANGED <<metadata, check, new, old, verdict>>

\* The file of the document is cut, then written to its end.
CutDocument ==
  /\ pc = "compare"
  /\ ~check /\ old # new
  /\ stored' = {d \in stored : VersionOf[d] \notin VersionsOf(new)}
  /\ torn' = torn \union VersionsOf(new)
  /\ pc' = "document"
  /\ UNCHANGED <<metadata, check, new, old, verdict>>

WriteDocument ==
  /\ pc = "document"
  /\ stored' = stored \union new
  /\ torn' = torn \ VersionsOf(new)
  /\ pc' = "between"
  /\ UNCHANGED <<metadata, check, new, old, verdict>>

CutMetadata ==
  /\ pc = "between"
  /\ metadata' = {}
  /\ torn' = torn \union {"metadata"}
  /\ pc' = "metadata"
  /\ UNCHANGED <<stored, check, new, old, verdict>>

WriteMetadata ==
  /\ pc = "metadata"
  /\ metadata' = new
  /\ torn' = torn \ {"metadata"}
  /\ End("updated")
  /\ UNCHANGED <<stored, check, new, old>>

\* The file system refuses a write: exit status 2, and nothing is put back.
WriteFails ==
  /\ pc \in {"compare", "document", "between", "metadata"}
  /\ ~check /\ old # new
  /\ End("error")
  /\ UNCHANGED <<stored, metadata, torn, check, new, old>>

\* The run is killed.
Kill ==
  /\ pc # "idle"
  /\ End("killed")
  /\ UNCHANGED <<stored, metadata, torn, check, new, old>>

ReadPin == ReadNothing \/ ReadPinned \/ ReadUnreadable \/ ReadMismatch \/ ReadFails

Write == CutDocument \/ WriteDocument \/ CutMetadata \/ WriteMetadata \/ WriteFails

Next ==
  \/ \E c \in BOOLEAN : Begin(c)
  \/ \E d \in Documents : Load(d)
  \/ LoadFails \/ ReadPin \/ Report \/ Write \/ Kill

Spec == Init /\ [][Next]_vars

-----------------------------------------------------------------------------
(* Properties *)

\* Every variable stays in its range, and a file holds one document.
TypeOK ==
  /\ UNION {stored, metadata, new, old} \subseteq Documents
  /\ \A d, e \in stored : VersionOf[d] = VersionOf[e] => d = e
  /\ torn \subseteq Files
  /\ pc \in {"idle", "load", "read", "compare", "document", "between", "metadata"}
  /\ check \in BOOLEAN
  /\ verdict \in {"none", "current", "drift", "updated", "error", "traceback", "killed"}

\* The pin is the document d, whole.
Pinned(d) ==
  /\ metadata = {d} /\ d \in stored
  /\ torn \intersect {VersionOf[d], "metadata"} = {}

\* Whatever earlier runs left behind, a run that calls the pin current, or has
\* updated it, leaves the document it loaded pinned and whole; one that reports
\* drift has compared with a whole pin, or there is none.
ReportsAreTrue ==
  /\ verdict \in {"current", "updated"} => \E d \in new : Pinned(d)
  /\ verdict = "drift" => old # new /\ (NothingPinned \/ \E d \in old : Pinned(d))

\* An update to another API version leaves the old pin or the new one whole,
\* wherever it stops, unless it stops within the write of the metadata.
UpgradeKeepsAPin ==
  \A d \in old, e \in new :
    VersionOf[d] # VersionOf[e] => Pinned(d) \/ Pinned(e) \/ "metadata" \in torn

-----------------------------------------------------------------------------
(* What the files and the runs are to those who use the pin *)

Writing == {"document", "between", "metadata"}

\* There is something pinned, but not a whole document.
Damaged == ~NothingPinned /\ \A d \in metadata : ~Pinned(d)

Pin == INSTANCE PinnedContract WITH
  pin      <- {d \in metadata : Pinned(d)},
  damaged  <- Damaged,
  place    <- IF pc = "idle" THEN "idle"
              ELSE IF pc \in Writing /\ Damaged THEN "replacing"
              ELSE "reading",
  checking <- check,
  loaded   <- new

\* Over any number of runs, killed or failed anywhere, the two files are one pin:
\* what runs report of it is true, only an update that stops while the pin it
\* replaces is gone leaves it damaged, and then it is neither taken for a pin nor
\* written over by any later run.
ImplementsPinnedContract == Pin!Spec
=============================================================================
