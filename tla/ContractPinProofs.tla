------------------------- MODULE ContractPinProofs -------------------------
(***************************************************************************)
(* The reports of the update script are true, and an update to another     *)
(* version keeps a pin, for any documents and versions.                    *)
(***************************************************************************)
EXTENDS ContractPin, TLAPS

\* What a run knows at each place: what it loaded, and that it goes on only
\* from a whole pin or none.
Knowledge ==
  /\ pc # "idle" => verdict = "none"
  /\ pc \in {"read", "compare"} \union Writing => \E d \in Documents : new = {d}
  /\ pc \in {"load", "read"} => old = {}
  /\ pc = "compare" => (old = {} /\ NothingPinned) \/ \E d \in Documents : old = {d} /\ Pinned(d)

\* How far the files are; a whole document is not in a torn file.
Progress ==
  /\ \A d, e \in metadata : d = e
  /\ \A d \in stored : VersionOf[d] \notin torn
  /\ pc \in {"between", "metadata"} =>
       new \subseteq stored /\ torn \intersect VersionsOf(new) = {}
  /\ pc = "document" => VersionsOf(new) \subseteq torn

IInv == TypeOK /\ Knowledge /\ Progress /\ ReportsAreTrue /\ UpgradeKeepsAPin

-----------------------------------------------------------------------------
LEMMA InitInv == Init => IInv
  BY DEF Init, IInv, TypeOK, Knowledge, Progress, ReportsAreTrue, UpgradeKeepsAPin, Writing

\* A run that has only read leaves the files alone.
LEMMA ReadingInv ==
  ASSUME IInv, (\E c \in BOOLEAN : Begin(c)) \/ (\E d \in Documents : Load(d)) \/ ReadPin
  PROVE  IInv'
<1>1. CASE \E c \in BOOLEAN : Begin(c)
  BY <1>1 DEF IInv, TypeOK, Knowledge, Progress, ReportsAreTrue, UpgradeKeepsAPin, Begin, Writing
<1>2. CASE \E d \in Documents : Load(d)
  BY <1>2 DEF IInv, TypeOK, Knowledge, Progress, ReportsAreTrue, UpgradeKeepsAPin, Load, Writing
<1>3. CASE ReadNothing
  BY <1>3 DEF IInv, TypeOK, Knowledge, Progress, ReportsAreTrue, UpgradeKeepsAPin, ReadNothing,
              NothingPinned, Writing
<1>4. CASE ReadPinned
  <2>1. metadata # {}
    BY <1>4 DEF ReadPinned, NothingPinned, DigestMatches, Unreadable
  <2>2. PICK d \in stored : d \in metadata
    BY <1>4, <2>1 DEF ReadPinned, DigestMatches, Named, FileOf
  <2>3. metadata = {d}
    BY <1>4, <2>2 DEF IInv, Progress, ReadPinned, DigestMatches
  <2> QED BY <1>4, <2>2, <2>3
          DEF IInv, TypeOK, Knowledge, Progress, ReportsAreTrue, UpgradeKeepsAPin, ReadPinned,
              DigestMatches, Unreadable, Pinned, VersionsOf, Writing
<1>5. CASE ReadUnreadable \/ ReadMismatch \/ ReadFails
  BY <1>5 DEF IInv, TypeOK, Knowledge, Progress, ReportsAreTrue, UpgradeKeepsAPin, ReadUnreadable,
              ReadMismatch, ReadFails, End, Writing
<1> QED BY <1>1, <1>2, <1>3, <1>4, <1>5 DEF ReadPin

\* A run that ends without writing says what it saw.
LEMMA EndingInv ==
  ASSUME IInv, LoadFails \/ Report \/ WriteFails \/ Kill
  PROVE  IInv'
<1>1. CASE Report
  BY <1>1 DEF IInv, TypeOK, Knowledge, Progress, ReportsAreTrue, UpgradeKeepsAPin, Report, End,
              NothingPinned, Pinned, Writing
<1>2. CASE LoadFails \/ WriteFails \/ Kill
  BY <1>2 DEF IInv, TypeOK, Knowledge, Progress, ReportsAreTrue, UpgradeKeepsAPin, LoadFails,
              WriteFails, Kill, End, Pinned, Writing
<1> QED BY <1>1, <1>2

LEMMA DocumentInv ==
  ASSUME IInv, CutDocument \/ WriteDocument
  PROVE  IInv'
<1>1. PICK e \in Documents : new = {e} /\ VersionsOf(new) = {VersionOf[e]}
  BY DEF IInv, Knowledge, CutDocument, WriteDocument, VersionsOf, Writing
<1>2. VersionOf[e] \in Versions /\ VersionOf[e] # "metadata"
  BY VersionAssumption, FileNameAssumption
<1>3. CASE CutDocument
  <2>1. TypeOK'
    BY <1>1, <1>2, <1>3 DEF IInv, TypeOK, CutDocument, Files
  <2>2. Knowledge' /\ Progress' /\ ReportsAreTrue'
    BY <1>1, <1>3 DEF IInv, Knowledge, Progress, ReportsAreTrue, CutDocument, VersionsOf, Writing
  <2>3. \A d \in old : Pinned(d)
    BY <1>3 DEF IInv, Knowledge, CutDocument
  <2>4. UpgradeKeepsAPin'
    BY <1>1, <1>2, <1>3, <2>3 DEF UpgradeKeepsAPin, CutDocument, Pinned
  <2> QED BY <2>1, <2>2, <2>4 DEF IInv
<1>4. CASE WriteDocument
  <2>1. \A d \in stored : VersionOf[d] # VersionOf[e]
    BY <1>1, <1>4 DEF IInv, Progress, WriteDocument
  <2>2. TypeOK'
    BY <1>1, <1>4, <2>1 DEF IInv, TypeOK, WriteDocument
  <2>3. Knowledge' /\ Progress' /\ ReportsAreTrue'
    BY <1>1, <1>4 DEF IInv, Knowledge, Progress, ReportsAreTrue, WriteDocument, VersionsOf, Writing
  <2>4. UpgradeKeepsAPin'
    BY <1>1, <1>2, <1>4 DEF IInv, UpgradeKeepsAPin, WriteDocument, Pinned
  <2> QED BY <2>2, <2>3, <2>4 DEF IInv
<1> QED BY <1>3, <1>4

LEMMA MetadataInv ==
  ASSUME IInv, CutMetadata \/ WriteMetadata
  PROVE  IInv'
<1>1. PICK e \in Documents : new = {e} /\ VersionsOf(new) = {VersionOf[e]}
  BY DEF IInv, Knowledge, CutMetadata, WriteMetadata, VersionsOf, Writing
<1>2. VersionOf[e] \in Versions /\ VersionOf[e] # "metadata"
  BY VersionAssumption, FileNameAssumption
<1>3. CASE CutMetadata
  <2>1. TypeOK'
    BY <1>3 DEF IInv, TypeOK, CutMetadata, Files
  <2>2. \A d \in stored : VersionOf[d] # "metadata"
    BY VersionAssumption, FileNameAssumption DEF IInv, TypeOK
  <2>3. Progress'
    BY <1>1, <1>2, <1>3, <2>2 DEF IInv, Progress, CutMetadata, VersionsOf
  <2>4. Knowledge' /\ ReportsAreTrue'
    BY <1>1, <1>3 DEF IInv, Knowledge, ReportsAreTrue, CutMetadata, Writing
  <2>5. UpgradeKeepsAPin'
    BY <1>3 DEF UpgradeKeepsAPin, CutMetadata
  <2> QED BY <2>1, <2>3, <2>4, <2>5 DEF IInv
<1>4. CASE WriteMetadata
  <2>1. TypeOK'
    BY <1>4 DEF IInv, TypeOK, WriteMetadata, End
  <2>2. Pinned(e)'
    BY <1>1, <1>2, <1>4 DEF IInv, Progress, Pinned, WriteMetadata
  <2>3. Knowledge' /\ Progress' /\ ReportsAreTrue' /\ UpgradeKeepsAPin'
    BY <1>1, <1>4, <2>2
    DEF IInv, Knowledge, Progress, ReportsAreTrue, UpgradeKeepsAPin, WriteMetadata, End, Writing
  <2> QED BY <2>1, <2>3 DEF IInv
<1> QED BY <1>3, <1>4

-----------------------------------------------------------------------------
\* The invariant that says what a run knows of the pin at each place of
\* update_contract, and how far the two files are.
THEOREM Invariance == Spec => []IInv
<1>1. IInv /\ [Next]_vars => IInv'
  <2> SUFFICES ASSUME IInv, [Next]_vars
               PROVE  IInv'
    OBVIOUS
  <2>1. CASE UNCHANGED vars
    BY <2>1 DEF IInv, TypeOK, Knowledge, Progress, ReportsAreTrue, UpgradeKeepsAPin, vars,
                NothingPinned, Pinned
  <2>2. CASE Next
    BY <2>2, ReadingInv, EndingInv, DocumentInv, MetadataInv DEF Next, Write
  <2> QED BY <2>1, <2>2
<1> QED BY <1>1, InitInv, PTL DEF Spec

\* Every variable keeps its range, and no file ever holds two documents.
THEOREM TypeCorrect == Spec => []TypeOK
<1>1. IInv => TypeOK
  BY DEF IInv
<1> QED BY <1>1, Invariance, PTL

\* After any sequence of runs, killed or failed anywhere, "current", "updated"
\* and "drift" are said of a whole pin only (update_contract, read_pinned).
THEOREM TrueReports == Spec => []ReportsAreTrue
<1>1. IInv => ReportsAreTrue
  BY DEF IInv
<1> QED BY <1>1, Invariance, PTL

\* An update to another API version never leaves the tree without a pin, but
\* for the moment the metadata is written (update_contract).
THEOREM KeepsAPin == Spec => []UpgradeKeepsAPin
<1>1. IInv => UpgradeKeepsAPin
  BY DEF IInv
<1> QED BY <1>1, Invariance, PTL

-----------------------------------------------------------------------------
(* The files as one pin *)

\* A run loads once; while it writes, the metadata names what it named when the run compared,
\* until it is cut.
WritingInv ==
  /\ pc = "load" => new = {}
  /\ pc \in Writing => ~check /\ old # new
  /\ pc \in {"document", "between"} => metadata = old /\ "metadata" \notin torn
  /\ pc = "metadata" => metadata = {} /\ "metadata" \in torn

LEMMA WritingHolds == Spec => []WritingInv
<1>1. Init => WritingInv
  BY DEF Init, WritingInv, Writing
<1>2. IInv /\ WritingInv /\ [Next]_vars => WritingInv'
  <2> SUFFICES ASSUME IInv, WritingInv, [Next]_vars
               PROVE  WritingInv'
    OBVIOUS
  <2>1. CASE CutDocument
    <3>1. PICK e \in Documents : new = {e}
      BY <2>1 DEF IInv, Knowledge, CutDocument
    <3>2. VersionsOf(new) = {VersionOf[e]} /\ VersionOf[e] # "metadata"
      BY <3>1, VersionAssumption, FileNameAssumption DEF VersionsOf
    <3>3. metadata = old /\ "metadata" \notin torn
      BY <2>1 DEF IInv, Knowledge, CutDocument, NothingPinned, Pinned
    <3> QED BY <2>1, <3>2, <3>3 DEF WritingInv, CutDocument, Writing
  <2>2. CASE WriteDocument \/ CutMetadata \/ WriteMetadata \/ WriteFails
    BY <2>2 DEF WritingInv, WriteDocument, CutMetadata, WriteMetadata, WriteFails, End, Writing
  <2>3. CASE Report \/ Kill \/ LoadFails \/ ReadPin
    BY <2>3 DEF WritingInv, Report, Kill, LoadFails, ReadPin, ReadNothing, ReadPinned,
                ReadUnreadable, ReadMismatch, ReadFails, End, Writing
  <2>4. CASE (\E c \in BOOLEAN : Begin(c)) \/ (\E d \in Documents : Load(d))
    BY <2>4 DEF WritingInv, Begin, Load, Writing
  <2>5. CASE UNCHANGED vars
    BY <2>5 DEF WritingInv, vars
  <2> QED BY <2>1, <2>2, <2>3, <2>4, <2>5 DEF Next, Write
<1> QED BY <1>1, <1>2, Invariance, PTL DEF Spec

ThePin == {d \in metadata : Pinned(d)}

\* The steps that leave the files alone leave the pin alone.
LEMMA SamePin ==
  ASSUME UNCHANGED <<stored, metadata, torn>>
  PROVE  ThePin' = ThePin /\ (Damaged' <=> Damaged)
BY DEF ThePin, Damaged, Pinned, NothingPinned

\* A run that compares has read the pin, whole, or that there is none.
LEMMA ComparedPin ==
  ASSUME IInv, pc = "compare"
  PROVE  ~Damaged /\ ThePin = old /\ metadata = old /\ "metadata" \notin torn
<1>1. CASE old = {} /\ NothingPinned
  BY <1>1 DEF Damaged, ThePin, NothingPinned
<1>2. CASE \E d \in Documents : old = {d} /\ Pinned(d)
  BY <1>2 DEF Damaged, ThePin, Pinned
<1> QED BY <1>1, <1>2 DEF IInv, Knowledge

\* While the document is written and the metadata is still what it was, the pin
\* is what it was, or damaged when it has the version of the new one.
WhileWriting ==
  /\ ThePin = IF Damaged THEN {} ELSE old
  /\ Damaged <=> \E d \in old, e \in new : VersionOf[d] = VersionOf[e]

LEMMA WritingPin == IInv /\ WritingInv /\ pc \in {"document", "between"} => WhileWriting
<1> SUFFICES ASSUME IInv, WritingInv, pc \in {"document", "between"}
             PROVE  WhileWriting
  OBVIOUS
<1>1. PICK e \in Documents : new = {e}
  BY DEF IInv, Knowledge, Writing
<1>2. metadata = old /\ "metadata" \notin torn /\ old # new
  BY DEF WritingInv, Writing
<1>3. \A d, f \in old : d = f
  BY <1>2 DEF IInv, Progress
<1>4. ASSUME NEW d \in old, VersionOf[d] = VersionOf[e]
      PROVE  ~Pinned(d)
  <2>1. d # e
    BY <1>1, <1>2, <1>3
  <2>2. CASE pc = "document"
    BY <1>1, <1>4, <2>2 DEF IInv, Progress, VersionsOf, Pinned
  <2>3. CASE pc = "between"
    BY <1>1, <1>4, <2>1, <2>3 DEF IInv, TypeOK, Progress, Pinned
  <2> QED BY <2>2, <2>3
<1>5. ASSUME NEW d \in old, VersionOf[d] # VersionOf[e]
      PROVE  Pinned(d)
  <2>1. ~Pinned(e)
    BY <1>1, <1>2 DEF Pinned
  <2> QED BY <1>1, <1>2, <1>5, <2>1 DEF IInv, UpgradeKeepsAPin
<1>6. Damaged <=> \E d \in old : VersionOf[d] = VersionOf[e]
  BY <1>2, <1>3, <1>4, <1>5 DEF Damaged, NothingPinned
<1>7. ThePin = IF Damaged THEN {} ELSE old
  BY <1>2, <1>3, <1>4, <1>5, <1>6 DEF ThePin
<1> QED BY <1>1, <1>6, <1>7 DEF WhileWriting

\* Everything the abstract pin says of the steps that do not write.
LEMMA QuietPin ==
  ASSUME IInv, WritingInv,
         \/ \E c \in BOOLEAN : Begin(c)
         \/ \E d \in Documents : Load(d)
         \/ LoadFails \/ ReadPin \/ Report \/ WriteFails \/ Kill
  PROVE  [Pin!Next]_(Pin!pinVars)
<1>1. UNCHANGED <<stored, metadata, torn>>
  BY DEF Begin, Load, LoadFails, ReadPin, ReadNothing, ReadPinned, ReadUnreadable,
         ReadMismatch, ReadFails,
         Report, WriteFails, Kill
<1>2. ThePin' = ThePin /\ Damaged' = Damaged
  BY <1>1, SamePin DEF Damaged
<1>3. CASE \E c \in BOOLEAN : Begin(c)
  <2>1. PICK c \in BOOLEAN : Begin(c)
    BY <1>3
  <2>2. Pin!Begin(c)
    BY <1>2, <2>1 DEF Begin, Pin!Begin, ThePin, Writing
  <2> QED BY <2>2 DEF Pin!Next
<1>4. CASE \E d \in Documents : Load(d)
  <2>1. PICK d \in Documents : Load(d)
    BY <1>4
  <2>2. new = {}
    BY <2>1 DEF WritingInv, Load
  <2>3. Pin!Load(d)
    BY <1>2, <2>1, <2>2 DEF Load, Pin!Load, ThePin, Writing
  <2> QED BY <2>3 DEF Pin!Next
<1>5. CASE LoadFails \/ ReadUnreadable \/ ReadMismatch \/ ReadFails \/ WriteFails \/ Kill
  <2>1. PICK v \in {"error", "traceback", "killed"} :
          pc # "idle" /\ End(v) /\ UNCHANGED <<check, new>>
    BY <1>5 DEF LoadFails, ReadUnreadable, ReadMismatch, ReadFails, WriteFails, Kill
  <2>2. Pin!Fail(v)
    BY <1>2, <2>1 DEF End, Pin!Fail, Pin!End, ThePin
  <2> QED BY <2>2 DEF Pin!Next
<1>6. CASE ReadNothing \/ ReadPinned
  BY <1>2, <1>6 DEF ReadNothing, ReadPinned, Pin!pinVars, ThePin, Writing
<1>7. CASE Report
  <2>1. ~Damaged /\ ThePin = old
    BY <1>7, ComparedPin DEF Report
  <2>2. new # {}
    BY <1>7 DEF IInv, Knowledge, Report
  <2>3. Pin!Report
    BY <1>2, <1>7, <2>1, <2>2 DEF Report, End, Pin!Report, Pin!End, ThePin, Writing
  <2> QED BY <2>3 DEF Pin!Next
<1> QED BY <1>3, <1>4, <1>5, <1>6, <1>7 DEF ReadPin

\* The steps that write: the pin is damaged when its document or the metadata is
\* cut, and replaced when the metadata is whole again.
LEMMA WritePin ==
  ASSUME IInv, WritingInv, IInv', WritingInv',
         CutDocument \/ WriteDocument \/ CutMetadata \/ WriteMetadata
  PROVE  [Pin!Next]_(Pin!pinVars)
<1>0. (IInv /\ WritingInv /\ pc \in {"document", "between"} => WhileWriting)'
  BY WritingPin, PTL
<1>1. PICK e \in Documents : new = {e}
  BY DEF IInv, Knowledge, CutDocument, WriteDocument, CutMetadata, WriteMetadata, Writing
<1>2. ~check /\ old # new
  BY DEF WritingInv, CutDocument, WriteDocument, CutMetadata, WriteMetadata, Writing
<1>3. CASE CutDocument
  <2>1. ~Damaged /\ ThePin = old
    BY <1>3, ComparedPin DEF CutDocument
  <2>2. ThePin' = IF Damaged' THEN {} ELSE old
    BY <1>0, <1>3 DEF CutDocument, WhileWriting
  <2>3. CASE Damaged'
    <3>1. Pin!Damage
      BY <1>1, <1>2, <1>3, <2>1, <2>2, <2>3 DEF CutDocument, Pin!Damage, ThePin, Writing
    <3> QED BY <3>1 DEF Pin!Next
  <2>4. CASE ~Damaged'
    BY <1>3, <2>1, <2>2, <2>4 DEF CutDocument, Pin!pinVars, ThePin, Writing, Damaged
  <2> QED BY <2>3, <2>4
<1>4. CASE WriteDocument
  <2>1. Damaged' <=> Damaged
    BY <1>0, <1>4, WritingPin DEF WriteDocument, WhileWriting
  <2>2. ThePin' = ThePin
    BY <1>0, <1>4, <2>1, WritingPin DEF WriteDocument, WhileWriting
  <2> QED BY <1>4, <2>1, <2>2 DEF WriteDocument, Pin!pinVars, ThePin, Writing, Damaged
<1>5. CASE CutMetadata
  <2>1. Damaged' /\ ThePin' = {}
    BY <1>5 DEF CutMetadata, Damaged, ThePin, NothingPinned
  <2>2. ThePin = IF Damaged THEN {} ELSE old
    BY <1>5, WritingPin DEF CutMetadata, WhileWriting
  <2>3. CASE Damaged
    BY <1>5, <2>1, <2>2, <2>3 DEF CutMetadata, Pin!pinVars, ThePin, Writing, Damaged
  <2>4. CASE ~Damaged
    <3>1. Pin!Damage
      BY <1>1, <1>2, <1>5, <2>1, <2>2, <2>4 DEF CutMetadata, Pin!Damage, ThePin, Writing
    <3> QED BY <3>1 DEF Pin!Next
  <2> QED BY <2>3, <2>4
<1>6. CASE WriteMetadata
  <2>1. Damaged
    BY <1>6 DEF WritingInv, WriteMetadata, Damaged, NothingPinned
  <2>2. verdict' = "updated" /\ new' = new /\ metadata' = new /\ pc' = "idle"
    BY <1>6 DEF WriteMetadata, End
  <2>3. \E d \in new : Pinned(d)'
    BY <2>2 DEF IInv, ReportsAreTrue
  <2>4. ~Damaged' /\ ThePin' = new
    BY <1>1, <2>2, <2>3 DEF Damaged, ThePin
  <2>5. Pin!Replace
    BY <1>6, <2>1, <2>4 DEF WriteMetadata, End, Pin!Replace, Pin!End, ThePin, Writing
  <2> QED BY <2>5 DEF Pin!Next
<1> QED BY <1>3, <1>4, <1>5, <1>6

\* Over any number of runs, killed or failed anywhere, for any documents and
\* versions, the two files that update_openapi.py writes are one pin: what runs
\* report of it is true, and a pin that an update left damaged is neither taken
\* for one nor written over.
THEOREM Refinement == Spec => ImplementsPinnedContract
<1>1. Init => Pin!Init
  BY DEF Init, Pin!Init, Damaged, NothingPinned
<1>2. ASSUME IInv, WritingInv, IInv', WritingInv', [Next]_vars
      PROVE  [Pin!Next]_(Pin!pinVars)
  <2>1. CASE Next
    BY <1>2, <2>1, QuietPin, WritePin DEF Next, Write
  <2>2. CASE UNCHANGED vars
    BY <2>2, SamePin DEF vars, Pin!pinVars, ThePin, Damaged
  <2> QED BY <1>2, <2>1, <2>2
<1> QED BY <1>1, <1>2, Invariance, WritingHolds, PTL
        DEF Spec, Pin!Spec, ImplementsPinnedContract

\* A pin that was left damaged stays as it is: no run, with or without --check,
\* writes a file before somebody restores the pin.
THEOREM DamageStays ==
  Spec => [][Damaged /\ pc \notin Writing => UNCHANGED <<stored, metadata, torn>>]_vars
<1>1. IInv /\ [Next]_vars =>
        [Damaged /\ pc \notin Writing => UNCHANGED <<stored, metadata, torn>>]_vars
  <2> SUFFICES ASSUME IInv, Next, Damaged, pc \notin Writing
               PROVE  UNCHANGED <<stored, metadata, torn>>
    OBVIOUS
  <2>1. ~CutDocument
    BY ComparedPin DEF CutDocument
  <2> QED BY <2>1 DEF Next, Begin, Load, LoadFails, ReadPin, ReadNothing, ReadPinned,
                      ReadUnreadable, ReadMismatch, ReadFails, Report, Write,
                      WriteDocument, CutMetadata,
                      WriteMetadata, WriteFails, Kill, Writing
<1> QED BY <1>1, Invariance, PTL DEF Spec
=============================================================================
