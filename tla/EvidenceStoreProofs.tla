------------------------- MODULE EvidenceStoreProofs -----------------------
(***************************************************************************)
(* What every step of EvidenceStore keeps, for any number of artifacts and *)
(* any changes of the disk: the bundle's progress to its name, and that of *)
(* a verification to its verdict.  EvidenceCollectionProofs concludes from *)
(* them for the whole collection.                                          *)
(***************************************************************************)
EXTENDS EvidenceStore, TLAPS

AllReasons == {"MANIFEST_MISSING", "MANIFEST_UNSAFE", "MANIFEST_TOO_LARGE", "MANIFEST_INVALID",
               "MANIFEST_MODIFIED", "ARTIFACT_MISSING", "ARTIFACT_UNSAFE", "ARTIFACT_EXTRA",
               "ARTIFACT_MODIFIED"}

Verification ==
  [pc: {"idle", "manifest", "looking", "opening", "directory", "resolving", "listing",
        "scanning", "artifact", "again", "content", "done", "raised"},
   next: 1..(Len(ArtifactTypes) + 1), looked: States \cup {"nothing"},
   resolved: {"nothing", "directory", "file", "link"},
   listed: SUBSET Entries, unseen: SUBSET Entries, unsafe: SUBSET Entries,
   claims: States \cup {"nothing"}, reasons: SUBSET AllReasons,
   verdict: {"PASS", "FAIL", "pending"}]

\* The records in full; a verdict is given at the end, and by the reasons.
Typed ==
  /\ StoreTypeOK
  /\ verify \in Verification
  /\ asStored \in [atStart: BOOLEAN, since: BOOLEAN]
  /\ verify.verdict = IF verify.pc # "done" THEN "pending"
                      ELSE IF verify.reasons = {} THEN "PASS" ELSE "FAIL"
  /\ verify.pc \in {"again", "content"} => verify.next <= Len(ArtifactTypes)

\* The bundle gets its name when all of it is there, and before any change.
StoreInOrder ==
  /\ store.pc = "idle" => place = "none" /\ changes = 0 /\ store.next = 1
  /\ store.pc \in {"writing", "renaming"} =>
       /\ place = "partial" /\ subdir = "directory"
       /\ \A k \in 1..(store.next - 1) : entry[ArtifactTypes[k]] = "stored"
  /\ store.pc = "renaming" => store.next > Len(ArtifactTypes) /\ entry["manifest"] = "stored"
  /\ place = "final" <=> store.pc = "stored"
  /\ store.pc = "stored" /\ changes = 0 => Complete
  /\ changes > 0 \/ verify.pc # "idle" => store.pc = "stored"
  /\ verify.pc = "idle" => asStored.since /\ verify = NotBegun

\* How far a verification has come: what it still has to look at.
ManifestAhead == verify.pc \in {"manifest", "looking", "opening"}
DirectoryAhead == ManifestAhead \/ verify.pc = "directory"
ListingAhead == DirectoryAhead \/ verify.pc \in {"resolving", "listing"}
AtArtifact == verify.pc \in {"artifact", "again", "content"}
ArtifactAhead(k) ==
  \/ ListingAhead \/ verify.pc = "scanning"
  \/ AtArtifact /\ k >= verify.next

\* A bundle that was not as stored when the verification began is found out, or
\* what betrays it is still ahead: nothing puts back what was stored.
Betrayed ==
  \/ verify.reasons # {}
  \/ ManifestAhead /\ entry["manifest"] # "stored"
  \/ DirectoryAhead /\ subdir # "directory"
  \/ \E k \in DOMAIN ArtifactTypes : ArtifactAhead(k) /\ entry[ArtifactTypes[k]] # "stored"

ManifestRead == AtArtifact \/ verify.pc \in {"directory", "resolving", "listing", "scanning"}

\* A verification looks at everything in turn; without a reason so far, the
\* manifest read was the one stored, and no artifact will be skipped.
NothingSkipped ==
  /\ ManifestAhead => verify.reasons = {}
  /\ ListingAhead => verify.unsafe = {}
  /\ ListingAhead \/ verify.pc = "scanning" => verify.next = 1
  /\ verify.reasons = {} =>
    /\ ManifestRead => verify.claims = "stored"
    /\ AtArtifact => verify.unsafe = {} /\ Artifacts \subseteq verify.listed

NothingPutBack ==
  /\ verify.pc \notin {"idle", "raised"} /\ ~ asStored.atStart => Betrayed
  /\ NothingSkipped

\* While the disk has not changed since the verification began, what it has
\* found is what is there.
If(p, reason) == IF p THEN {reason} ELSE {}

Modified == If(entry["manifest"] # "stored", "MANIFEST_MODIFIED")
Names == {e \in Entries \ {"manifest"} : entry[e] # "absent"}
Wrong(k) == /\ Regular(entry[ArtifactTypes[k]])
            /\ Content(entry[ArtifactTypes[k]]) # Content(entry["manifest"])
Listing == Modified \cup If(~ Artifacts \subseteq Names, "ARTIFACT_MISSING")
                    \cup If(entry[Stray] # "absent", "ARTIFACT_EXTRA")
                    \cup If(\E e \in Entries \ {"manifest"} : entry[e] = "link", "ARTIFACT_UNSAFE")

Found ==
  /\ verify.pc \in {"looking", "opening"} => Regular(entry["manifest"])
  /\ verify.pc = "opening" => verify.looked = entry["manifest"]
  /\ ManifestRead => /\ entry["manifest"] \notin {"absent", "link", "big", "garbled"}
                     /\ verify.claims = Content(entry["manifest"])
  /\ verify.pc \in {"directory", "resolving", "listing", "scanning"} => verify.reasons = Modified
  /\ AtArtifact \/ verify.pc \in {"resolving", "listing", "scanning"} => subdir = "directory"
  /\ AtArtifact \/ verify.pc \in {"listing", "scanning"} => verify.resolved = "directory"
  /\ AtArtifact \/ verify.pc = "scanning" =>
       /\ verify.listed = Names
       /\ verify.unsafe = {e \in Names \ verify.unseen : entry[e] = "link"}
  /\ AtArtifact =>
       /\ verify.unseen = {}
       /\ verify.reasons = Listing \cup If(\E k \in 1..(verify.next - 1) : Wrong(k), "ARTIFACT_MODIFIED")
  /\ verify.pc \in {"again", "content"} => Regular(entry[ArtifactTypes[verify.next]])
  /\ verify.pc = "content" => verify.looked = entry[ArtifactTypes[verify.next]]
  /\ verify.pc = "done" => verify.reasons = Reasons
  /\ verify.pc # "raised"

FoundIsThere == asStored.since => Found

StoreInv == Typed /\ StoreInOrder /\ NothingPutBack /\ FoundIsThere
-----------------------------------------------------------------------------

\* The artifacts are the members of ArtifactTypes.
LEMMA ArtifactsListed ==
  /\ Len(ArtifactTypes) \in Nat /\ DOMAIN ArtifactTypes = 1..Len(ArtifactTypes)
  /\ \A k \in 1..Len(ArtifactTypes) : ArtifactTypes[k] \in Artifacts
  /\ \A a \in Artifacts : \E k \in 1..Len(ArtifactTypes) : a = ArtifactTypes[k]
<1>1. ArtifactTypes \in Seq(Artifacts)
  BY NamesAssumption
<1>2. DOMAIN ArtifactTypes = 1..Len(ArtifactTypes) /\ Len(ArtifactTypes) \in Nat
  BY <1>1
<1> QED
  BY <1>1, <1>2 DEF Artifacts, Range

\* A verification that ends has its reasons, and its verdict by them.
LEMMA ConcludedHas ==
  ASSUME NEW v \in Verification, NEW reasons \in SUBSET AllReasons
  PROVE  /\ Concluded(v, reasons) \in Verification
         /\ Concluded(v, reasons).pc = "done" /\ Concluded(v, reasons).reasons = reasons
         /\ Concluded(v, reasons).verdict = IF reasons = {} THEN "PASS" ELSE "FAIL"
         /\ Concluded(v, reasons).unseen = v.unseen /\ Concluded(v, reasons).unsafe = v.unsafe
         /\ Concluded(v, reasons).listed = v.listed
BY DEF Concluded, Verification

\* The initial state satisfies the invariant.
LEMMA InitStoreInv == StoreInit => StoreInv
<1> SUFFICES ASSUME StoreInit PROVE StoreInv
  OBVIOUS
<1>1. NotBegun \in Verification /\ NotBegun.pc = "idle" /\ NotBegun.verdict = "pending" /\ NotBegun.reasons = {}
  BY ArtifactsListed DEF NotBegun, Verification
<1>2. NotBegun.listed = {} /\ NotBegun.unseen = {} /\ NotBegun.unsafe = {}
  BY DEF NotBegun
<1>3. Typed
  <2>1. StoreTypeOK
    BY <1>1, <1>2, ArtifactsListed, ChangesAssumption DEF StoreInit, StoreTypeOK, States
  <2> QED
    BY <2>1, <1>1 DEF StoreInit, Typed
<1>4. StoreInOrder
  BY <1>1 DEF StoreInit, StoreInOrder
<1>5. NothingPutBack
  BY <1>1 DEF StoreInit, NothingPutBack, NothingSkipped, DirectoryAhead, ManifestAhead, ManifestRead,
         ListingAhead, AtArtifact
<1>6. FoundIsThere
  BY <1>1 DEF StoreInit, FoundIsThere, Found, ManifestRead, AtArtifact
<1> QED
  BY <1>3, <1>4, <1>5, <1>6 DEF StoreInv
-----------------------------------------------------------------------------
(* Writing the bundle.                                                     *)

Storing == StoreStep \/ MakeFails \/ StoreFails \/ CrashStoring

\* What a write that is cut off leaves is an entry, too.
LEMMA HalfWrittenType ==
  ASSUME StoreTypeOK
  PROVE  HalfWritten \in [Entries -> States]
<1>1. CASE store.next <= Len(ArtifactTypes)
  BY <1>1, ArtifactsListed DEF HalfWritten, StoreTypeOK, States, Entries
<1>2. CASE ~ store.next <= Len(ArtifactTypes)
  BY <1>2 DEF HalfWritten, StoreTypeOK, States, Entries
<1> QED
  BY <1>1, <1>2

\* A step of store_bundle keeps the types and the progress of the bundle.
LEMMA StoringStep ==
  ASSUME Typed, StoreInOrder, Storing
  PROVE  Typed' /\ StoreInOrder' /\ UNCHANGED unverified /\ verify = NotBegun
<1> DEFINE StoreType == [pc: {"idle", "writing", "renaming", "stored", "failed"},
                         next: 1..(Len(ArtifactTypes) + 1)]
<1>1. /\ store \in StoreType /\ entry \in [Entries -> States] /\ Len(ArtifactTypes) \in Nat
      /\ place \in {"none", "partial", "final", "removed"}
      /\ subdir \in {"absent", "directory", "file", "link"}
  BY ArtifactsListed DEF Typed, StoreTypeOK
<1>2. UNCHANGED unverified /\ store.pc # "stored"
  BY DEF Storing, StoreStep, MakePartial, WriteArtifact, WriteManifest, Rename, MakeFails, StoreFails,
         CrashStoring
<1>3. verify = NotBegun /\ changes = 0 /\ verify.pc = "idle"
  BY <1>2 DEF StoreInOrder, Typed, StoreTypeOK, NotBegun
<1>4. ASSUME store' \in StoreType, entry' \in [Entries -> States],
             place' \in {"none", "partial", "final", "removed"},
             subdir' \in {"absent", "directory", "file", "link"}
      PROVE  Typed'
  BY <1>2, <1>4 DEF Typed, StoreTypeOK, unverified
<1>5. CASE MakePartial
  <2>1. /\ place' = "partial" /\ subdir' = "directory" /\ entry' = entry
        /\ store' = [store EXCEPT !.pc = "writing"] /\ store.pc = "idle"
    BY <1>5 DEF MakePartial
  <2>2. store'.pc = "writing" /\ store'.next = 1 /\ store' \in StoreType
    BY <2>1, <1>1 DEF StoreInOrder
  <2> QED
    BY <2>1, <2>2, <1>1, <1>2, <1>3, <1>4 DEF StoreInOrder, unverified
<1>6. CASE WriteArtifact
  <2> DEFINE n == store.next
  <2>1. /\ place' = "partial" /\ subdir' = "directory" /\ store.pc = "writing"
        /\ entry' = [entry EXCEPT ![ArtifactTypes[n]] = "stored"]
        /\ store' = [store EXCEPT !.next = @ + 1] /\ n \in 1..Len(ArtifactTypes)
        /\ \A k \in 1..(n - 1) : entry[ArtifactTypes[k]] = "stored"
    BY <1>6, <1>1 DEF WriteArtifact, StoreInOrder
  <2>2. store'.pc = "writing" /\ store'.next = n + 1 /\ store' \in StoreType
    BY <2>1, <1>1
  <2>3. entry' \in [Entries -> States]
    BY <2>1, <1>1 DEF States
  <2>4. \A k \in 1..n : entry'[ArtifactTypes[k]] = "stored"
    BY <2>1, <1>1, ArtifactsListed DEF Entries
  <2>5. \A k \in 1..(store'.next - 1) : entry'[ArtifactTypes[k]] = "stored"
    BY <2>1, <2>2, <2>4
  <2> QED
    BY <2>1, <2>2, <2>3, <2>5, <1>1, <1>2, <1>3, <1>4 DEF StoreInOrder, unverified
<1>7. CASE WriteManifest
  <2>1. /\ place' = "partial" /\ subdir' = "directory" /\ store.pc = "writing"
        /\ entry' = [entry EXCEPT !["manifest"] = "stored"]
        /\ store' = [store EXCEPT !.pc = "renaming"] /\ store.next > Len(ArtifactTypes)
        /\ \A k \in 1..(store.next - 1) : entry[ArtifactTypes[k]] = "stored"
    BY <1>7 DEF WriteManifest, StoreInOrder
  <2>2. store'.pc = "renaming" /\ store'.next = store.next /\ store' \in StoreType
    BY <2>1, <1>1
  <2>3. entry' \in [Entries -> States] /\ entry'["manifest"] = "stored"
    BY <2>1, <1>1 DEF States, Entries
  <2>4. \A k \in 1..(store'.next - 1) : entry'[ArtifactTypes[k]] = "stored"
    <3> SUFFICES ASSUME NEW k \in 1..(store.next - 1) PROVE entry'[ArtifactTypes[k]] = "stored"
      BY <2>2
    <3>1. k \in 1..Len(ArtifactTypes) /\ ArtifactTypes[k] \in Entries
      BY <1>1, ArtifactsListed DEF Entries
    <3> QED
      BY <3>1, <2>1, <1>1
  <2> QED
    BY <2>1, <2>2, <2>3, <2>4, <1>1, <1>2, <1>3, <1>4 DEF StoreInOrder, unverified
<1>8. CASE Rename
  <2>1. /\ place' = "final" /\ UNCHANGED <<entry, subdir>> /\ store.pc = "renaming"
        /\ store' = [store EXCEPT !.pc = "stored"]
    BY <1>8 DEF Rename
  <2>2. store'.pc = "stored" /\ store'.next = store.next /\ store' \in StoreType
    BY <2>1, <1>1
  <2>3. /\ subdir = "directory" /\ store.next - 1 \in Int /\ Len(ArtifactTypes) <= store.next - 1
        /\ entry["manifest"] = "stored"
        /\ \A k \in 1..(store.next - 1) : entry[ArtifactTypes[k]] = "stored"
    BY <2>1, <1>1 DEF StoreInOrder
  <2>4. \A e \in Artifacts \cup {"manifest"} : entry[e] = "stored"
    BY <2>3, <1>1, ArtifactsListed
  <2>5. Complete'
    BY <2>1, <2>3, <2>4 DEF Complete
  <2> QED
    BY <2>1, <2>2, <2>5, <1>1, <1>2, <1>3, <1>4 DEF StoreInOrder, unverified
<1>9. CASE MakeFails \/ StoreFails \/ CrashStoring
  <2>1. /\ store' = [store EXCEPT !.pc = "failed"]
        /\ place' \in {"none", "partial", "removed", place} /\ place # "final"
        /\ subdir' \in {"absent", subdir}
        /\ entry' \in {entry, HalfWritten, [e \in Entries |-> "absent"]}
    BY <1>9, <1>2 DEF MakeFails, StoreFails, CrashStoring, StoreInOrder
  <2>2. store'.pc = "failed" /\ store' \in StoreType
    BY <2>1, <1>1
  <2>3. entry' \in [Entries -> States]
    BY <2>1, <1>1, HalfWrittenType DEF States, Typed
  <2> QED
    BY <2>1, <2>2, <2>3, <1>1, <1>2, <1>3, <1>4 DEF StoreInOrder, unverified
<1> QED
  BY <1>2, <1>3, <1>5, <1>6, <1>7, <1>8, <1>9 DEF Storing, StoreStep
-----------------------------------------------------------------------------
(* Changes on disk.                                                        *)

\* A change puts nothing back: what is not stored stays so, and there is no
\* directory where there was none.
LEMMA DiskStepSpoils ==
  ASSUME Typed, DiskStep
  PROVE  /\ Changed
         /\ entry' \in [Entries -> States] /\ subdir' \in {"absent", "directory", "file", "link"}
         /\ \A e \in Entries : entry'[e] = entry[e] \/ entry'[e] # "stored"
         /\ subdir' = subdir \/ subdir' # "directory"
<1>1. entry \in [Entries -> States] /\ subdir \in {"absent", "directory", "file", "link"}
  BY DEF Typed, StoreTypeOK
<1>2. ASSUME NEW f \in Entries, NEW s \in States \ {"stored", "torn"}, ChangeEntry(f, s)
      PROVE  /\ entry' \in [Entries -> States] /\ subdir' = subdir /\ Changed
             /\ \A e \in Entries : entry'[e] = entry[e] \/ entry'[e] # "stored"
  BY <1>1, <1>2 DEF ChangeEntry
<1>3. ASSUME NEW s \in {"absent", "file", "link"}, ChangeDirectory(s)
      PROVE  /\ entry' \in [Entries -> States] /\ subdir' = s /\ Changed
             /\ \A e \in Entries : entry'[e] = entry[e] \/ entry'[e] # "stored"
  BY <1>1, <1>3 DEF ChangeDirectory, States
<1> QED
  BY <1>1, <1>2, <1>3 DEF DiskStep

\* A change of the disk keeps the invariant: what betrays the bundle stays ahead,
\* and a verification under way need not find what is there any more.
LEMMA DiskStepKeeps ==
  ASSUME StoreInv, DiskStep
  PROVE  StoreInv'
<1>1. /\ Changed /\ entry' \in [Entries -> States] /\ subdir' \in {"absent", "directory", "file", "link"}
      /\ \A e \in Entries : entry'[e] = entry[e] \/ entry'[e] # "stored"
      /\ subdir' = subdir \/ subdir' # "directory"
  BY DiskStepSpoils DEF StoreInv
<1>2. /\ place = "final" /\ store.pc = "stored" /\ UNCHANGED <<place, store, verify>>
      /\ changes' = changes + 1 /\ changes < MaxChanges /\ changes \in Nat
      /\ asStored' = [asStored EXCEPT !.since = verify.pc = "idle"]
      /\ asStored \in [atStart: BOOLEAN, since: BOOLEAN]
  BY <1>1, ChangesAssumption DEF Changed, StoreInv, Typed, StoreTypeOK
<1>3. asStored' \in [atStart: BOOLEAN, since: BOOLEAN] /\ asStored'.atStart = asStored.atStart
      /\ asStored'.since = (verify.pc = "idle")
  BY <1>2
<1>4. Typed'
  BY <1>1, <1>2, <1>3, ChangesAssumption DEF StoreInv, Typed, StoreTypeOK
<1>5. StoreInOrder'
  BY <1>2, <1>3 DEF StoreInv, StoreInOrder
<1>6. Betrayed => Betrayed'
  <2>1. ManifestAhead' = ManifestAhead /\ DirectoryAhead' = DirectoryAhead
    BY <1>2 DEF ManifestAhead, DirectoryAhead, ListingAhead, AtArtifact
  <2>2. \A k : ArtifactAhead(k)' = ArtifactAhead(k)
    BY <2>1, <1>2 DEF ArtifactAhead, AtArtifact, ListingAhead
  <2>3. "manifest" \in Entries /\ \A k \in DOMAIN ArtifactTypes : ArtifactTypes[k] \in Entries
    BY ArtifactsListed DEF Entries
  <2> QED
    BY <1>1, <1>2, <2>1, <2>2, <2>3 DEF Betrayed
<1>7. NothingPutBack'
  BY <1>2, <1>3, <1>6 DEF StoreInv, NothingPutBack, NothingSkipped, DirectoryAhead, ManifestAhead, ManifestRead,
         ListingAhead, AtArtifact
<1>8. FoundIsThere'
  BY <1>2, <1>3 DEF StoreInv, StoreInOrder, FoundIsThere, Found, ManifestRead, NotBegun, AtArtifact
<1> QED
  BY <1>4, <1>5, <1>7, <1>8 DEF StoreInv
-----------------------------------------------------------------------------
(* What verify_bundle should say of what is on disk.                       *)

\* The manifest and the directory decide which of Reasons apply.
LEMMA ReasonsByManifest ==
  ASSUME Typed
  PROVE  /\ entry["manifest"] = "absent" => Reasons = {"MANIFEST_MISSING"}
         /\ entry["manifest"] = "link" => Reasons = {"MANIFEST_UNSAFE"}
         /\ entry["manifest"] = "big" => Reasons = {"MANIFEST_TOO_LARGE"}
         /\ entry["manifest"] = "garbled" => Reasons = {"MANIFEST_MODIFIED", "MANIFEST_INVALID"}
         /\ entry["manifest"] \notin {"absent", "link", "big", "garbled"} =>
              /\ subdir = "absent" => Reasons = Modified \cup {"ARTIFACT_MISSING"}
              /\ subdir \in {"file", "link"} => Reasons = Modified \cup {"ARTIFACT_UNSAFE"}
              /\ subdir = "directory" =>
                   Reasons = Listing \cup If(\E k \in 1..Len(ArtifactTypes) : Wrong(k), "ARTIFACT_MODIFIED")
<1> DEFINE m == entry["manifest"]
           claims == Content(m)
           there == {e \in Artifacts : entry[e] # "absent"}
           modified == IF claims = "stored" THEN {} ELSE {"MANIFEST_MODIFIED"}
           wrong == {k \in DOMAIN ArtifactTypes :
                       /\ Regular(entry[ArtifactTypes[k]])
                       /\ Content(entry[ArtifactTypes[k]]) # claims}
           held == (IF there # Artifacts THEN {"ARTIFACT_MISSING"} ELSE {})
             \cup (IF entry[Stray] # "absent" THEN {"ARTIFACT_EXTRA"} ELSE {})
             \cup (IF \E e \in Entries \ {"manifest"} : Unsafe(entry[e]) THEN {"ARTIFACT_UNSAFE"} ELSE {})
             \cup (IF wrong # {} THEN {"ARTIFACT_MODIFIED"} ELSE {})
           artifacts == CASE subdir = "absent" -> {"ARTIFACT_MISSING"}
                          [] subdir \in {"file", "link"} -> {"ARTIFACT_UNSAFE"}
                          [] OTHER -> held
<1>1. Reasons = CASE claims = "absent" -> {"MANIFEST_MISSING"}
                  [] claims = "link" -> {"MANIFEST_UNSAFE"}
                  [] claims = "big" -> {"MANIFEST_TOO_LARGE"}
                  [] claims = "garbled" -> {"MANIFEST_MODIFIED", "MANIFEST_INVALID"}
                  [] OTHER -> modified \cup artifacts
  BY DEF Reasons
<1>2. modified = Modified
  BY DEF Modified, If, Content
<1>3. claims = m \/ (m = "replaced" /\ claims = "edited")
  BY DEF Content
<1>4. modified \cup held = Listing \cup If(\E k \in 1..Len(ArtifactTypes) : Wrong(k), "ARTIFACT_MODIFIED")
  <2>1. there # Artifacts <=> ~ Artifacts \subseteq Names
    BY NamesAssumption DEF Names, Entries
  <2>2. wrong # {} <=> \E k \in 1..Len(ArtifactTypes) : Wrong(k)
    BY ArtifactsListed DEF Wrong
  <2>3. (\E e \in Entries \ {"manifest"} : Unsafe(entry[e]))
          <=> \E e \in Entries \ {"manifest"} : entry[e] = "link"
    BY DEF Unsafe
  <2> HIDE DEF there, wrong, modified
  <2> QED
    BY <1>2, <2>1, <2>2, <2>3 DEF Listing, If
<1> HIDE DEF held, modified, claims
<1>5. CASE m = "absent"
  BY <1>1, <1>3, <1>5
<1>6. CASE m = "link"
  BY <1>1, <1>3, <1>6
<1>7. CASE m = "big"
  BY <1>1, <1>3, <1>7
<1>8. CASE m = "garbled"
  BY <1>1, <1>3, <1>8
<1>9. CASE m \notin {"absent", "link", "big", "garbled"}
  <2>1. claims \notin {"absent", "link", "big", "garbled"}
    BY <1>3, <1>9
  <2>2. Reasons = modified \cup artifacts
    BY <1>1, <2>1
  <2> QED
    BY <1>2, <1>4, <1>9, <2>2
<1> QED
  BY <1>5, <1>6, <1>7, <1>8, <1>9

\* Nothing applies to a bundle that is intact, and to no other.
LEMMA IntactHasNoReasons ==
  ASSUME Typed
  PROVE  Reasons = {} <=> Intact
<1>1. /\ subdir \in {"absent", "directory", "file", "link"} /\ entry \in [Entries -> States]
      /\ Stray \in Entries \ {"manifest"} /\ Artifacts \subseteq Entries \ {"manifest"}
  BY NamesAssumption DEF Typed, StoreTypeOK, Entries
<1>2. ASSUME Intact PROVE Reasons = {}
  <2>1. /\ entry["manifest"] = "stored" /\ subdir = "directory" /\ entry[Stray] = "absent"
        /\ \A a \in Artifacts : entry[a] = "stored"
    BY <1>2 DEF Intact, Complete
  <2>2. Modified = {} /\ Artifacts \subseteq Names
    BY <2>1, <1>1 DEF Modified, If, Names
  <2>3. \A k \in 1..Len(ArtifactTypes) : ~ Wrong(k)
    BY <2>1, ArtifactsListed DEF Wrong
  <2>4. \A e \in Entries \ {"manifest"} : entry[e] # "link"
    BY <2>1 DEF Entries
  <2> QED
    BY <2>1, <2>2, <2>3, <2>4, ReasonsByManifest DEF Listing, If
<1>3. ASSUME Reasons = {} PROVE Intact
  <2>1. /\ entry["manifest"] \notin {"absent", "link", "big", "garbled"} /\ subdir = "directory"
        /\ Listing = {} /\ ~ \E k \in 1..Len(ArtifactTypes) : Wrong(k)
    BY <1>1, <1>3, ReasonsByManifest DEF If
  <2>2. /\ entry["manifest"] = "stored" /\ Artifacts \subseteq Names /\ entry[Stray] = "absent"
        /\ ~ \E e \in Entries \ {"manifest"} : entry[e] = "link"
    BY <2>1 DEF Listing, Modified, If
  <2>3. ASSUME NEW a \in Artifacts PROVE entry[a] = "stored"
    <3>1. PICK k \in 1..Len(ArtifactTypes) : a = ArtifactTypes[k]
      BY ArtifactsListed
    <3>2. Regular(entry[a]) /\ entry[a] # "link" /\ entry[a] # "absent"
      BY <2>2, <1>1 DEF Names, Regular
    <3> QED
      BY <3>1, <3>2, <2>1, <2>2 DEF Wrong, Content
  <2> QED
    BY <2>1, <2>2, <2>3 DEF Intact, Complete
<1> QED
  BY <1>2, <1>3
-----------------------------------------------------------------------------
(* The steps of a verification, by how they end it or go on.               *)

Looking == verify.pc \notin {"idle", "done", "raised"} /\ UNCHANGED <<onDisk, store, changes, asStored>>

\* A step that ends a verification keeps the invariant if its reasons are those
\* there are, or the disk has changed, and if a bundle that was not as stored
\* has some.
LEMMA EndsWell ==
  ASSUME StoreInv, Looking, NEW R \in SUBSET AllReasons, verify' = Concluded(verify, R),
         ~ asStored.atStart => R # {},
         asStored.since => R = Reasons
  PROVE  StoreInv'
<1>1. /\ verify' \in Verification /\ verify'.pc = "done" /\ verify'.reasons = R
      /\ verify'.verdict = IF R = {} THEN "PASS" ELSE "FAIL"
      /\ verify'.listed = verify.listed /\ verify'.unseen = verify.unseen /\ verify'.unsafe = verify.unsafe
  BY ConcludedHas DEF StoreInv, Typed
<1>2. /\ UNCHANGED <<place, entry, subdir, store, changes, asStored>> /\ verify.pc # "idle"
  BY DEF Looking, onDisk
<1>3. Typed'
  BY <1>1, <1>2 DEF StoreInv, Typed, StoreTypeOK, Verification
<1>4. StoreInOrder'
  BY <1>1, <1>2 DEF StoreInv, StoreInOrder, Complete
<1>5. NothingPutBack'
  BY <1>1, <1>2 DEF NothingPutBack, NothingSkipped, DirectoryAhead, ManifestAhead, ManifestRead, Betrayed,
         ListingAhead, AtArtifact
<1>6. Reasons' = Reasons
  BY <1>2 DEF Reasons
<1>7. FoundIsThere'
  BY <1>1, <1>2, <1>6 DEF FoundIsThere, Found, ManifestRead, AtArtifact
<1> QED
  BY <1>3, <1>4, <1>5, <1>7 DEF StoreInv

\* An exception keeps the invariant if the disk has changed.
LEMMA RaisesWell ==
  ASSUME StoreInv, Looking, verify' = [verify EXCEPT !.pc = "raised"], ~ asStored.since
  PROVE  StoreInv'
<1>1. /\ verify' \in Verification /\ verify'.pc = "raised" /\ verify'.verdict = "pending"
      /\ verify'.listed = verify.listed /\ verify'.unseen = verify.unseen /\ verify'.unsafe = verify.unsafe
      /\ verify'.reasons = verify.reasons
  BY DEF StoreInv, Typed, Verification, Looking
<1>2. /\ UNCHANGED <<place, entry, subdir, store, changes, asStored>> /\ verify.pc # "idle"
  BY DEF Looking, onDisk
<1>3. Typed'
  BY <1>1, <1>2 DEF StoreInv, Typed, StoreTypeOK
<1>4. StoreInOrder'
  BY <1>1, <1>2 DEF StoreInv, StoreInOrder, Complete
<1>5. NothingPutBack' /\ FoundIsThere'
  BY <1>1, <1>2 DEF NothingPutBack, NothingSkipped, DirectoryAhead, ManifestAhead, ManifestRead, FoundIsThere,
         ListingAhead, AtArtifact
<1> QED
  BY <1>3, <1>4, <1>5 DEF StoreInv

\* A step that goes on keeps the invariant if it keeps the two parts about what
\* is still ahead and what has been found.
LEMMA GoesOnWell ==
  ASSUME StoreInv, Looking, verify' \in Verification, verify'.verdict = verify.verdict,
         verify'.pc \notin {"idle", "done", "raised"},
         verify'.unseen \subseteq verify'.listed, verify'.unsafe \subseteq verify'.listed,
         verify'.pc \in {"again", "content"} => verify'.next <= Len(ArtifactTypes),
         ~ asStored.atStart => Betrayed', NothingSkipped',
         asStored.since => Found'
  PROVE  StoreInv'
<1>1. verify.verdict = "pending" /\ verify.pc # "idle"
      /\ UNCHANGED <<place, entry, subdir, store, changes, asStored>>
  BY DEF StoreInv, Typed, Looking, onDisk
<1>2. Typed'
  BY <1>1 DEF StoreInv, Typed, StoreTypeOK, Verification
<1>3. StoreInOrder'
  BY <1>1 DEF StoreInv, StoreInOrder, Complete
<1>4. NothingPutBack' /\ FoundIsThere'
  BY <1>1 DEF NothingPutBack, FoundIsThere
<1> QED
  BY <1>2, <1>3, <1>4 DEF StoreInv
-----------------------------------------------------------------------------
(* verify_bundle, step by step.                                            *)

\* The entries a verification looks at are there to be looked at.
LEMMA EntriesTyped ==
  ASSUME StoreInv
  PROVE  /\ verify \in Verification /\ entry \in [Entries -> States]
         /\ entry["manifest"] \in States /\ subdir \in {"absent", "directory", "file", "link"}
         /\ verify.unseen \subseteq verify.listed /\ verify.unsafe \subseteq verify.listed
         /\ verify.verdict = IF verify.pc # "done" THEN "pending"
                             ELSE IF verify.reasons = {} THEN "PASS" ELSE "FAIL"
BY DEF StoreInv, Typed, StoreTypeOK, Entries

\* A verification that begins keeps the invariant: what is not as stored is ahead.
LEMMA BeginKeeps == ASSUME StoreInv, Begin PROVE StoreInv'
<1>1. /\ verify = NotBegun /\ store.pc = "stored" /\ verify' = [verify EXCEPT !.pc = "manifest"]
      /\ asStored' = [atStart |-> Complete, since |-> TRUE]
      /\ UNCHANGED <<place, entry, subdir, store, changes>>
  BY DEF StoreInv, StoreInOrder, Begin, onDisk
<1>2. /\ verify' \in Verification /\ verify'.pc = "manifest" /\ verify'.reasons = {}
      /\ verify'.verdict = "pending" /\ verify'.unseen = {} /\ verify'.unsafe = {} /\ verify'.listed = {}
      /\ verify'.next = 1
  BY <1>1, EntriesTyped DEF Verification, NotBegun
<1>3. asStored' \in [atStart: BOOLEAN, since: BOOLEAN]
  BY <1>1 DEF Complete
<1>4. Typed'
  BY <1>1, <1>2, <1>3 DEF StoreInv, Typed, StoreTypeOK
<1>5. StoreInOrder'
  BY <1>1, <1>2 DEF StoreInv, StoreInOrder, Complete
<1>6. ~ Complete => Betrayed'
  <2>1. ManifestAhead' /\ DirectoryAhead' /\ \A k : ArtifactAhead(k)'
    BY <1>2 DEF ManifestAhead, DirectoryAhead, ArtifactAhead, ListingAhead, AtArtifact
  <2> QED
    BY <1>1, <2>1, ArtifactsListed DEF Complete, Betrayed
<1>7. NothingPutBack'
  BY <1>1, <1>2, <1>6 DEF NothingPutBack, NothingSkipped, DirectoryAhead, ManifestAhead, ManifestRead,
         ListingAhead, AtArtifact
<1>8. FoundIsThere'
  BY <1>2 DEF FoundIsThere, Found, ManifestRead, AtArtifact
<1> QED
  BY <1>4, <1>5, <1>7, <1>8 DEF StoreInv

\* The first look at the manifest keeps the invariant.
LEMMA StatManifestKeeps == ASSUME StoreInv, StatManifest PROVE StoreInv'
<1>1. /\ Looking /\ verify.pc = "manifest" /\ ManifestAhead
      /\ UNCHANGED <<entry, subdir, asStored>>
  BY DEF Looking, StatManifest, ManifestAhead, onDisk
<1>2. CASE entry["manifest"] = "absent"
  <2>1. verify' = Concluded(verify, {"MANIFEST_MISSING"}) /\ Reasons = {"MANIFEST_MISSING"}
    BY <1>2, ReasonsByManifest DEF StatManifest, StoreInv, Unsafe
  <2> QED
    BY <1>1, <2>1, EndsWell DEF AllReasons
<1>3. CASE entry["manifest"] = "link"
  <2>1. verify' = Concluded(verify, {"MANIFEST_UNSAFE"}) /\ Reasons = {"MANIFEST_UNSAFE"}
    BY <1>3, ReasonsByManifest DEF StatManifest, StoreInv, Unsafe
  <2> QED
    BY <1>1, <2>1, EndsWell DEF AllReasons
<1>4. CASE entry["manifest"] \notin {"absent", "link"}
  <2>1. verify' = [verify EXCEPT !.pc = "looking"]
    BY <1>4 DEF StatManifest, Unsafe
  <2>2. /\ verify' \in Verification /\ verify'.pc = "looking" /\ verify'.verdict = verify.verdict
        /\ verify'.reasons = verify.reasons /\ verify'.unseen = verify.unseen
        /\ verify'.unsafe = verify.unsafe /\ verify'.listed = verify.listed /\ verify'.next = verify.next
    BY <2>1, EntriesTyped DEF Verification
  <2>3. Betrayed => Betrayed'
    BY <1>1, <2>2 DEF Betrayed, ManifestAhead, DirectoryAhead, ArtifactAhead, ListingAhead, AtArtifact
  <2>4. Found'
    BY <1>1, <1>4, <2>2 DEF Found, ManifestRead, Regular, AtArtifact
  <2> QED
    BY <1>1, <2>2, <2>3, <2>4, EntriesTyped, GoesOnWell
       DEF StoreInv, NothingPutBack, NothingSkipped, DirectoryAhead, ManifestAhead, ManifestRead,
              ListingAhead, AtArtifact
<1> QED
  BY <1>2, <1>3, <1>4

\* The look of _open_regular_file keeps the invariant.
LEMMA LookAtManifestKeeps == ASSUME StoreInv, LookAtManifest PROVE StoreInv'
<1>1. /\ Looking /\ verify.pc = "looking" /\ ManifestAhead
      /\ UNCHANGED <<entry, subdir, asStored>>
  BY DEF Looking, LookAtManifest, ManifestAhead, onDisk
<1>2. CASE entry["manifest"] = "absent"
  <2>1. verify' = [verify EXCEPT !.pc = "raised"]
    BY <1>2 DEF LookAtManifest, Unsafe
  <2>2. ~ asStored.since
    BY <1>1, <1>2 DEF StoreInv, FoundIsThere, Found, Regular, AtArtifact
  <2> QED
    BY <1>1, <2>1, <2>2, RaisesWell
<1>3. CASE entry["manifest"] = "link"
  <2>1. verify' = Concluded(verify, {"MANIFEST_UNSAFE"}) /\ Reasons = {"MANIFEST_UNSAFE"}
    BY <1>3, ReasonsByManifest DEF LookAtManifest, StoreInv, Unsafe
  <2> QED
    BY <1>1, <2>1, EndsWell DEF AllReasons
<1>4. CASE entry["manifest"] \notin {"absent", "link"}
  <2>1. verify' = [verify EXCEPT !.pc = "opening", !.looked = entry["manifest"]]
    BY <1>4 DEF LookAtManifest, Unsafe
  <2>2. /\ verify' \in Verification /\ verify'.pc = "opening" /\ verify'.verdict = verify.verdict
        /\ verify'.reasons = verify.reasons /\ verify'.unseen = verify.unseen
        /\ verify'.unsafe = verify.unsafe /\ verify'.listed = verify.listed /\ verify'.next = verify.next
        /\ verify'.looked = entry["manifest"]
    BY <2>1, EntriesTyped DEF Verification
  <2>3. Betrayed => Betrayed'
    BY <1>1, <2>2 DEF Betrayed, ManifestAhead, DirectoryAhead, ArtifactAhead, ListingAhead, AtArtifact
  <2>4. Found'
    BY <1>1, <1>4, <2>2 DEF Found, ManifestRead, Regular, AtArtifact
  <2> QED
    BY <1>1, <2>2, <2>3, <2>4, EntriesTyped, GoesOnWell
       DEF StoreInv, NothingPutBack, NothingSkipped, DirectoryAhead, ManifestAhead, ManifestRead,
              ListingAhead, AtArtifact
<1> QED
  BY <1>2, <1>3, <1>4

\* Opening the manifest and reading it keeps the invariant: without a reason, it
\* is the one stored.
LEMMA OpenManifestKeeps == ASSUME StoreInv, OpenManifest PROVE StoreInv'
<1> DEFINE m == entry["manifest"]
           modified == IF Content(m) = "stored" THEN {} ELSE {"MANIFEST_MODIFIED"}
<1>1. /\ Looking /\ verify.pc = "opening" /\ ManifestAhead /\ verify.reasons = {}
      /\ UNCHANGED <<entry, subdir, asStored>>
  BY DEF Looking, OpenManifest, ManifestAhead, onDisk, StoreInv, NothingPutBack, NothingSkipped, DirectoryAhead,
         ListingAhead, AtArtifact
<1>2. /\ asStored.since => Regular(m) /\ SameFile(verify.looked, m)
      /\ modified = Modified
  BY <1>1 DEF StoreInv, FoundIsThere, Found, SameFile, Modified, If, Content, AtArtifact
<1>3. CASE ~ Regular(m) /\ verify' = [verify EXCEPT !.pc = "raised"]
  BY <1>1, <1>2, <1>3, RaisesWell
<1>4. CASE /\ Unsafe(m) \/ (Regular(m) /\ ~ SameFile(verify.looked, m))
           /\ verify' = Concluded(verify, {"MANIFEST_UNSAFE"})
  <2>1. ~ asStored.since
    BY <1>2, <1>4 DEF Unsafe, Regular
  <2> QED
    BY <1>1, <1>4, <2>1, EndsWell DEF AllReasons
<1>5. CASE /\ Regular(m)
           /\ verify' = CASE m = "big" -> Concluded(verify, {"MANIFEST_TOO_LARGE"})
                          [] m = "garbled" -> Concluded(verify, modified \cup {"MANIFEST_INVALID"})
                          [] OTHER -> [verify EXCEPT !.pc = "directory", !.reasons = modified,
                                                     !.claims = Content(m)]
  <2>1. CASE m = "big"
    <3>1. verify' = Concluded(verify, {"MANIFEST_TOO_LARGE"}) /\ Reasons = {"MANIFEST_TOO_LARGE"}
      BY <1>5, <2>1, ReasonsByManifest DEF StoreInv
    <3> QED
      BY <1>1, <3>1, EndsWell DEF AllReasons
  <2>2. CASE m = "garbled"
    <3>1. modified = {"MANIFEST_MODIFIED"}
      BY <2>2 DEF Content
    <3>2. verify' = Concluded(verify, modified \cup {"MANIFEST_INVALID"})
      BY <1>5, <2>2
    <3> HIDE DEF modified
    <3>3. modified \cup {"MANIFEST_INVALID"} = {"MANIFEST_MODIFIED", "MANIFEST_INVALID"}
      BY <3>1
    <3>4. Reasons = {"MANIFEST_MODIFIED", "MANIFEST_INVALID"}
      BY <2>2, ReasonsByManifest DEF StoreInv
    <3> QED
      BY <1>1, <3>2, <3>3, <3>4, EndsWell DEF AllReasons
  <2>3. CASE m \notin {"big", "garbled"}
    <3>1. verify' = [verify EXCEPT !.pc = "directory", !.reasons = Modified, !.claims = Content(m)]
      BY <1>2, <1>5, <2>3
    <3>2. Content(m) \in States /\ Modified \in SUBSET AllReasons
      BY EntriesTyped DEF Content, States, Modified, If, AllReasons
    <3>3. /\ verify' \in Verification /\ verify'.pc = "directory" /\ verify'.verdict = verify.verdict
          /\ verify'.reasons = Modified /\ verify'.unseen = verify.unseen
          /\ verify'.unsafe = verify.unsafe /\ verify'.listed = verify.listed /\ verify'.next = verify.next
          /\ verify'.claims = Content(m)
      BY <3>1, <3>2, EntriesTyped DEF Verification
    <3>4. Modified' = Modified /\ (Modified = {} <=> m = "stored")
      BY <1>1 DEF Modified, If
    <3>5. ~ asStored.atStart => Betrayed'
      <4>1. ~ asStored.atStart => Betrayed
        BY <1>1 DEF StoreInv, NothingPutBack
      <4> QED
        BY <1>1, <3>3, <3>4, <4>1 DEF Betrayed, ManifestAhead, DirectoryAhead, ArtifactAhead,
               ListingAhead, AtArtifact
    <3>6. NothingSkipped'
      BY <1>1, <3>3, <3>4 DEF StoreInv, NothingPutBack, NothingSkipped, DirectoryAhead, ManifestAhead, Content,
             ListingAhead, AtArtifact
    <3>7. Found'
      BY <1>1, <1>5, <2>3, <3>3, <3>4 DEF Found, ManifestRead, Regular, AtArtifact
    <3> QED
      BY <1>1, <3>3, <3>5, <3>6, <3>7, EntriesTyped, GoesOnWell
  <2> QED
    BY <2>1, <2>2, <2>3
<1> QED
  BY <1>3, <1>4, <1>5 DEF OpenManifest

\* The look at the directory keeps the invariant.
LEMMA StatDirectoryKeeps == ASSUME StoreInv, StatDirectory PROVE StoreInv'
<1>1. /\ Looking /\ verify.pc = "directory" /\ ManifestRead /\ ~ ManifestAhead
      /\ UNCHANGED <<entry, subdir, asStored>>
  BY DEF Looking, StatDirectory, ManifestAhead, ManifestRead, onDisk, AtArtifact
<1>2. asStored.since => /\ verify.reasons = Modified
                        /\ entry["manifest"] \notin {"absent", "link", "big", "garbled"}
  BY <1>1 DEF StoreInv, FoundIsThere, Found, AtArtifact
<1>3. ASSUME NEW reason \in {"ARTIFACT_MISSING", "ARTIFACT_UNSAFE"},
             verify' = Concluded(verify, verify.reasons \cup {reason}),
             asStored.since => Reasons = Modified \cup {reason}
      PROVE  StoreInv'
  <2>1. verify.reasons \cup {reason} \in SUBSET AllReasons /\ verify.reasons \cup {reason} # {}
    BY EntriesTyped DEF Verification, AllReasons
  <2> QED
    BY <1>1, <1>2, <1>3, <2>1, EndsWell
<1>4. CASE subdir = "absent"
  <2>1. verify' = Concluded(verify, verify.reasons \cup {"ARTIFACT_MISSING"})
    BY <1>4 DEF StatDirectory
  <2> QED
    BY <1>2, <1>3, <1>4, <2>1, ReasonsByManifest DEF StoreInv
<1>5. CASE subdir \in {"file", "link"}
  <2>1. verify' = Concluded(verify, verify.reasons \cup {"ARTIFACT_UNSAFE"})
    BY <1>5 DEF StatDirectory
  <2> QED
    BY <1>2, <1>3, <1>5, <2>1, ReasonsByManifest DEF StoreInv
<1>6. CASE subdir = "directory"
  <2>1. verify' = [verify EXCEPT !.pc = "resolving"]
    BY <1>6 DEF StatDirectory
  <2>2. /\ verify' \in Verification /\ verify'.pc = "resolving" /\ verify'.verdict = verify.verdict
        /\ verify'.reasons = verify.reasons /\ verify'.unseen = verify.unseen
        /\ verify'.unsafe = verify.unsafe /\ verify'.listed = verify.listed /\ verify'.next = verify.next
        /\ verify'.claims = verify.claims
    BY <2>1, EntriesTyped DEF Verification
  <2>3. Betrayed => Betrayed'
    BY <1>1, <1>6, <2>2 DEF Betrayed, ManifestAhead, DirectoryAhead, ArtifactAhead,
           ListingAhead, AtArtifact
  <2>4. NothingSkipped'
    BY <1>1, <2>2 DEF StoreInv, NothingPutBack, NothingSkipped, DirectoryAhead, ManifestAhead, ManifestRead,
           ListingAhead, AtArtifact
  <2>5. Modified' = Modified
    BY <1>1 DEF Modified
  <2>6. Found => Found'
    BY <1>1, <1>6, <2>2, <2>5 DEF Found, ManifestRead, AtArtifact
  <2> QED
    BY <1>1, <2>2, <2>3, <2>4, <2>6, EntriesTyped, GoesOnWell
       DEF StoreInv, NothingPutBack, FoundIsThere
<1> QED
  BY <1>4, <1>5, <1>6, EntriesTyped

\* Resolving the directory keeps the invariant.
LEMMA ResolveDirectoryKeeps == ASSUME StoreInv, ResolveDirectory PROVE StoreInv'
<1>1. /\ Looking /\ verify.pc = "resolving" /\ ManifestRead /\ ~ DirectoryAhead /\ ListingAhead
      /\ UNCHANGED <<entry, subdir, asStored>>
  BY DEF Looking, ResolveDirectory, ManifestAhead, DirectoryAhead, ListingAhead, ManifestRead, onDisk
<1>2. CASE subdir = "absent"
  <2>1. verify' = [verify EXCEPT !.pc = "raised"]
    BY <1>2 DEF ResolveDirectory
  <2>2. ~ asStored.since
    BY <1>1, <1>2 DEF StoreInv, FoundIsThere, Found
  <2> QED
    BY <1>1, <2>1, <2>2, RaisesWell
<1>3. CASE subdir # "absent"
  <2>1. verify' = [verify EXCEPT !.pc = "listing", !.resolved = subdir]
    BY <1>3 DEF ResolveDirectory
  <2>2. /\ verify' \in Verification /\ verify'.pc = "listing" /\ verify'.verdict = verify.verdict
        /\ verify'.reasons = verify.reasons /\ verify'.unseen = verify.unseen
        /\ verify'.unsafe = verify.unsafe /\ verify'.listed = verify.listed /\ verify'.next = verify.next
        /\ verify'.claims = verify.claims /\ verify'.resolved = subdir
    BY <1>3, <2>1, EntriesTyped DEF Verification
  <2>3. Betrayed => Betrayed'
    BY <1>1, <2>2 DEF Betrayed, ManifestAhead, DirectoryAhead, ListingAhead, ArtifactAhead
  <2>4. NothingSkipped'
    BY <1>1, <2>2 DEF StoreInv, NothingPutBack, NothingSkipped, ManifestAhead, DirectoryAhead, ListingAhead,
                      AtArtifact, ManifestRead
  <2>5. Modified' = Modified
    BY <1>1 DEF Modified
  <2>6. Found => Found'
    BY <1>1, <2>2, <2>5 DEF Found, ManifestRead, AtArtifact
  <2> QED
    BY <1>1, <2>2, <2>3, <2>4, <2>6, EntriesTyped, GoesOnWell
       DEF StoreInv, NothingPutBack, FoundIsThere
<1> QED
  BY <1>2, <1>3

\* Listing the directory keeps the invariant.
LEMMA ListDirectoryKeeps == ASSUME StoreInv, ListDirectory PROVE StoreInv'
<1>1. /\ Looking /\ verify.pc = "listing" /\ ManifestRead /\ ~ ManifestAhead
      /\ UNCHANGED <<entry, subdir, asStored>>
  BY DEF Looking, ListDirectory, ManifestAhead, ManifestRead, onDisk, AtArtifact
<1>2. CASE ~ Listable
  <2>1. verify' = [verify EXCEPT !.pc = "raised"]
    BY <1>2 DEF ListDirectory
  <2>2. ~ asStored.since
    BY <1>1, <1>2 DEF Listable, StoreInv, FoundIsThere, Found, AtArtifact
  <2> QED
    BY <1>1, <2>1, <2>2, RaisesWell
<1>3. CASE Listable
  <2>1. verify' = [verify EXCEPT !.pc = "scanning", !.listed = Names, !.unseen = Names]
    BY <1>3 DEF ListDirectory, Names
  <2>2. Names \in SUBSET Entries /\ verify.unsafe = {} /\ verify.next = 1
    BY <1>1 DEF Names, StoreInv, NothingPutBack, NothingSkipped, DirectoryAhead, ListingAhead, AtArtifact
  <2>3. /\ verify' \in Verification /\ verify'.pc = "scanning" /\ verify'.verdict = verify.verdict
        /\ verify'.reasons = verify.reasons /\ verify'.unseen = Names
        /\ verify'.unsafe = {} /\ verify'.listed = Names /\ verify'.next = 1
        /\ verify'.claims = verify.claims /\ verify'.resolved = verify.resolved
    BY <2>1, <2>2, EntriesTyped DEF Verification
  <2>4. Betrayed => Betrayed'
    BY <1>1, <1>3, <2>3 DEF Betrayed, ManifestAhead, DirectoryAhead, ArtifactAhead,
           ListingAhead, AtArtifact
  <2>5. NothingSkipped'
    BY <1>1, <2>3 DEF StoreInv, NothingPutBack, NothingSkipped, ManifestAhead, ManifestRead, DirectoryAhead,
           ListingAhead, AtArtifact
  <2>6. Modified' = Modified /\ Names' = Names
    BY <1>1 DEF Modified, Names
  <2>7. Found => Found'
    BY <1>1, <1>3, <2>3, <2>6 DEF Found, ManifestRead, AtArtifact
  <2> QED
    BY <1>1, <2>3, <2>4, <2>5, <2>7, EntriesTyped, GoesOnWell
       DEF StoreInv, NothingPutBack, FoundIsThere
<1> QED
  BY <1>2, <1>3

\* A look at an entry of the listing keeps the invariant.
LEMMA ScanEntryKeeps == ASSUME StoreInv, NEW e \in Entries, ScanEntry(e) PROVE StoreInv'
<1> DEFINE bad == {f \in {e} : ~ Regular(entry[f])}
<1>1. /\ Looking /\ verify.pc = "scanning" /\ ManifestRead /\ ~ ManifestAhead /\ ~ DirectoryAhead /\ ~ ListingAhead
      /\ UNCHANGED <<entry, subdir, asStored>> /\ e \in verify.unseen
      /\ verify' = [verify EXCEPT !.unseen = @ \ {e}, !.unsafe = @ \cup bad]
  BY DEF Looking, ScanEntry, ManifestAhead, DirectoryAhead, ManifestRead, onDisk, ListingAhead, AtArtifact
<1> HIDE DEF bad
<1>2. bad \subseteq {e} /\ (e \in bad <=> ~ Regular(entry[e]))
  BY DEF bad
<1>3. /\ verify' \in Verification /\ verify'.pc = "scanning" /\ verify'.verdict = verify.verdict
      /\ verify'.reasons = verify.reasons /\ verify'.unseen = verify.unseen \ {e}
      /\ verify'.unsafe = verify.unsafe \cup bad /\ verify'.listed = verify.listed
      /\ verify'.next = verify.next /\ verify'.claims = verify.claims /\ verify'.resolved = verify.resolved
  BY <1>1, <1>2, EntriesTyped DEF Verification
<1>4. verify'.unseen \subseteq verify'.listed /\ verify'.unsafe \subseteq verify'.listed
  BY <1>1, <1>2, <1>3, EntriesTyped
<1>5. Betrayed => Betrayed'
  BY <1>1, <1>3 DEF Betrayed, ManifestAhead, DirectoryAhead, ArtifactAhead, ListingAhead, AtArtifact
<1>6. NothingSkipped'
  BY <1>1, <1>3 DEF StoreInv, NothingPutBack, NothingSkipped, ManifestAhead, ManifestRead, DirectoryAhead,
         ListingAhead, AtArtifact
<1>7. Modified' = Modified /\ Names' = Names
  BY <1>1 DEF Modified, Names
<1>8. Found => Found'
  <2>1. SUFFICES ASSUME Found PROVE Found'
    OBVIOUS
  <2>2. verify.listed = Names /\ verify.unsafe = {f \in Names \ verify.unseen : entry[f] = "link"} /\ e \in Names
    BY <1>1, <2>1, EntriesTyped DEF Found, AtArtifact
  <2>3. e \in bad <=> entry[e] = "link"
    BY <1>2, <2>2 DEF Names, Regular
  <2>4. verify'.unsafe = {f \in Names \ verify'.unseen : entry[f] = "link"}
    BY <1>1, <1>2, <1>3, <2>2, <2>3
  <2> QED
    BY <1>1, <1>3, <1>7, <2>1, <2>2, <2>4 DEF Found, ManifestAhead, ManifestRead, AtArtifact
<1> QED
  BY <1>1, <1>3, <1>4, <1>5, <1>6, <1>8, EntriesTyped, GoesOnWell
     DEF StoreInv, NothingPutBack, FoundIsThere

\* Judging the listing keeps the invariant.
LEMMA CompareListingKeeps == ASSUME StoreInv, CompareListing PROVE StoreInv'
<1> DEFINE listing == If(verify.unsafe # {}, "ARTIFACT_UNSAFE")
                      \cup If(~ Artifacts \subseteq verify.listed, "ARTIFACT_MISSING")
                      \cup If(Stray \in verify.listed, "ARTIFACT_EXTRA")
<1>1. /\ Looking /\ verify.pc = "scanning" /\ ManifestRead /\ ~ ManifestAhead /\ ~ DirectoryAhead /\ ~ ListingAhead
      /\ UNCHANGED <<entry, subdir, asStored>> /\ verify.unseen = {}
  BY DEF Looking, CompareListing, ManifestAhead, DirectoryAhead, ManifestRead, onDisk,
         ListingAhead, AtArtifact
<1>2. verify' = [verify EXCEPT !.pc = "artifact", !.reasons = verify.reasons \cup listing]
  <2>1. /\ {r \in {"ARTIFACT_UNSAFE"} : verify.unsafe # {}} = If(verify.unsafe # {}, "ARTIFACT_UNSAFE")
        /\ {r \in {"ARTIFACT_MISSING"} : ~ Artifacts \subseteq verify.listed}
             = If(~ Artifacts \subseteq verify.listed, "ARTIFACT_MISSING")
        /\ {r \in {"ARTIFACT_EXTRA"} : Stray \in verify.listed} = If(Stray \in verify.listed, "ARTIFACT_EXTRA")
    BY DEF If
  <2>2. verify' = [verify EXCEPT !.pc = "artifact", !.reasons =
                     verify.reasons \cup {r \in {"ARTIFACT_UNSAFE"} : verify.unsafe # {}}
                     \cup {r \in {"ARTIFACT_MISSING"} : ~ Artifacts \subseteq verify.listed}
                     \cup {r \in {"ARTIFACT_EXTRA"} : Stray \in verify.listed}]
    BY EntriesTyped DEF CompareListing, Verification
  <2>3. verify' = [verify EXCEPT !.pc = "artifact", !.reasons =
                     verify.reasons \cup If(verify.unsafe # {}, "ARTIFACT_UNSAFE")
                     \cup If(~ Artifacts \subseteq verify.listed, "ARTIFACT_MISSING")
                     \cup If(Stray \in verify.listed, "ARTIFACT_EXTRA")]
    BY <2>1, <2>2, Zenon
  <2>4. verify.reasons \cup If(verify.unsafe # {}, "ARTIFACT_UNSAFE")
          \cup If(~ Artifacts \subseteq verify.listed, "ARTIFACT_MISSING")
          \cup If(Stray \in verify.listed, "ARTIFACT_EXTRA")
        = verify.reasons \cup listing
    OBVIOUS
  <2> QED
    BY <2>3, <2>4
<1>3. listing \in SUBSET AllReasons
  BY DEF If, AllReasons
<1>4. listing = {} <=> verify.unsafe = {} /\ Artifacts \subseteq verify.listed /\ Stray \notin verify.listed
  BY DEF If
<1>5. asStored.since => Found /\ Modified \cup listing = Listing
  <2>1. SUFFICES ASSUME Found PROVE Modified \cup listing = Listing
    BY DEF StoreInv, FoundIsThere
  <2>2. verify.listed = Names /\ verify.unsafe = {f \in Names : entry[f] = "link"}
    BY <1>1, <2>1 DEF Found, AtArtifact
  <2>3. Stray \in Names <=> entry[Stray] # "absent"
    BY NamesAssumption DEF Names, Entries
  <2>4. verify.unsafe # {} <=> \E e \in Entries \ {"manifest"} : entry[e] = "link"
    BY <2>2 DEF Names
  <2> QED
    BY <2>2, <2>3, <2>4 DEF Listing, If
<1> HIDE DEF listing
<1>6. /\ verify' \in Verification /\ verify'.pc = "artifact" /\ verify'.verdict = verify.verdict
      /\ verify'.reasons = verify.reasons \cup listing /\ verify'.unseen = verify.unseen
      /\ verify'.unsafe = verify.unsafe /\ verify'.listed = verify.listed
      /\ verify'.next = verify.next /\ verify'.claims = verify.claims /\ verify'.resolved = verify.resolved
  BY <1>2, <1>3, EntriesTyped DEF Verification
<1>7. verify.next = 1
  BY <1>1 DEF StoreInv, NothingPutBack, NothingSkipped
<1>8. Betrayed => Betrayed'
  BY <1>1, <1>6, <1>7, ArtifactsListed DEF Betrayed, ManifestAhead, DirectoryAhead, ArtifactAhead,
         ListingAhead, AtArtifact
<1>9. NothingSkipped'
  BY <1>1, <1>4, <1>6 DEF StoreInv, NothingPutBack, NothingSkipped, ManifestAhead, ManifestRead, DirectoryAhead,
         ListingAhead, AtArtifact
<1>10. Modified' = Modified /\ Names' = Names /\ Listing' = Listing
  BY <1>1 DEF Modified, Names, Listing
<1>11. asStored.since => Found'
  <2>1. SUFFICES ASSUME Found, Modified \cup listing = Listing PROVE Found'
    BY <1>5
  <2>2. verify'.reasons = Listing
    BY <1>1, <1>6, <2>1 DEF Found, AtArtifact
  <2>3. 1..(verify'.next - 1) = {}
    BY <1>6, <1>7
  <2>4. If(\E k \in 1..(verify'.next - 1) : Wrong(k)', "ARTIFACT_MODIFIED") = {}
    BY <2>3 DEF If
  <2> QED
    BY <1>1, <1>6, <1>10, <2>1, <2>2, <2>4 DEF Found, ManifestAhead, ManifestRead, AtArtifact
<1> QED
  BY <1>1, <1>6, <1>8, <1>9, <1>11, EntriesTyped, GoesOnWell DEF StoreInv, NothingPutBack

\* Going on to the next artifact keeps the invariant, if the one left behind was as
\* stored unless there is a reason, and if its reason is the right one.
LEMMA NextArtifactKeeps ==
  ASSUME StoreInv, Looking, AtArtifact, verify.next <= Len(ArtifactTypes),
         NEW R \in SUBSET AllReasons,
         verify' = [verify EXCEPT !.pc = "artifact", !.next = verify.next + 1, !.reasons = verify.reasons \cup R],
         verify.reasons = {} /\ R = {} => entry[ArtifactTypes[verify.next]] = "stored",
         asStored.since => R = If(Wrong(verify.next), "ARTIFACT_MODIFIED")
  PROVE  StoreInv'
<1> DEFINE n == verify.next
<1>1. /\ UNCHANGED <<entry, subdir, asStored>> /\ n \in 1..Len(ArtifactTypes) /\ n \in Nat
      /\ Len(ArtifactTypes) \in Nat
  BY EntriesTyped, ArtifactsListed DEF Looking, onDisk, Verification
<1>2. /\ verify' \in Verification /\ verify'.pc = "artifact" /\ verify'.verdict = verify.verdict
      /\ verify'.reasons = verify.reasons \cup R /\ verify'.unseen = verify.unseen
      /\ verify'.unsafe = verify.unsafe /\ verify'.listed = verify.listed
      /\ verify'.next = n + 1 /\ verify'.claims = verify.claims /\ verify'.resolved = verify.resolved
  <2>1. n + 1 \in 1..(Len(ArtifactTypes) + 1)
    BY <1>1
  <2>2. verify \in Verification /\ verify.reasons \cup R \in SUBSET AllReasons
    BY EntriesTyped DEF Verification
  <2> QED
    BY <2>1, <2>2 DEF Verification
<1>3. Betrayed => Betrayed'
  <2>1. SUFFICES ASSUME Betrayed, verify'.reasons = {} PROVE Betrayed'
    BY DEF Betrayed
  <2>2. verify.reasons = {} /\ entry[ArtifactTypes[n]] = "stored"
    BY <1>2, <2>1
  <2>3. PICK k \in DOMAIN ArtifactTypes : k >= n /\ entry[ArtifactTypes[k]] # "stored"
    BY <2>1, <2>2 DEF Betrayed, ManifestAhead, DirectoryAhead, ArtifactAhead, ListingAhead, AtArtifact
  <2>4. k # n /\ k \in Int /\ k >= n + 1
    BY <1>1, <2>2, <2>3, ArtifactsListed
  <2> QED
    BY <1>1, <1>2, <2>3, <2>4 DEF Betrayed, ArtifactAhead, AtArtifact, ListingAhead
<1>4. NothingSkipped'
  BY <1>2 DEF StoreInv, NothingPutBack, NothingSkipped, ManifestAhead, ManifestRead, DirectoryAhead,
         ListingAhead, AtArtifact
<1>5. Listing' = Listing /\ Names' = Names /\ \A k : Wrong(k)' = Wrong(k)
  BY <1>1 DEF Modified, Names, Listing, Wrong
<1>6. asStored.since => Found'
  <2>1. SUFFICES ASSUME Found, R = If(Wrong(n), "ARTIFACT_MODIFIED") PROVE Found'
    BY DEF StoreInv, FoundIsThere
  <2>2. verify.reasons = Listing \cup If(\E k \in 1..(n - 1) : Wrong(k), "ARTIFACT_MODIFIED")
    BY <2>1 DEF Found, AtArtifact
  <2>3. (\E k \in 1..n : Wrong(k)) <=> (\E k \in 1..(n - 1) : Wrong(k)) \/ Wrong(n)
    <3>1. 1..n = 1..(n - 1) \cup {n}
      BY <1>1
    <3> QED
      BY <3>1
  <2>4. verify'.reasons = Listing \cup If(\E k \in 1..n : Wrong(k), "ARTIFACT_MODIFIED")
    <3>1. If((\E k \in 1..(n - 1) : Wrong(k)) \/ Wrong(n), "ARTIFACT_MODIFIED")
            = If(\E k \in 1..(n - 1) : Wrong(k), "ARTIFACT_MODIFIED") \cup If(Wrong(n), "ARTIFACT_MODIFIED")
      BY DEF If
    <3>2. If(\E k \in 1..n : Wrong(k), "ARTIFACT_MODIFIED")
            = If((\E k \in 1..(n - 1) : Wrong(k)) \/ Wrong(n), "ARTIFACT_MODIFIED")
      BY <2>3 DEF If
    <3> QED
      BY <1>2, <2>1, <2>2, <3>1, <3>2
  <2>5. verify'.next - 1 = n
    BY <1>1, <1>2
  <2>6. verify'.reasons = Listing' \cup If(\E k \in 1..(verify'.next - 1) : Wrong(k)', "ARTIFACT_MODIFIED")
    BY <1>5, <2>4, <2>5 DEF If
  <2> QED
    BY <1>1, <1>2, <1>5, <2>1, <2>6 DEF Found, ManifestAhead, ManifestRead, AtArtifact
<1> QED
  BY <1>1, <1>2, <1>3, <1>4, <1>6, EntriesTyped, GoesOnWell DEF Looking, StoreInv, NothingPutBack

\* Looking once more at a regular artifact keeps the invariant.
LEMMA StaysAtArtifact ==
  ASSUME StoreInv, Looking, AtArtifact, verify' \in Verification, verify'.pc \in {"again", "content"},
         verify.next <= Len(ArtifactTypes), Regular(entry[ArtifactTypes[verify.next]]),
         verify'.pc = "content" => verify'.looked = entry[ArtifactTypes[verify.next]],
         verify'.next = verify.next, verify'.verdict = verify.verdict, verify'.reasons = verify.reasons,
         verify'.unseen = verify.unseen, verify'.unsafe = verify.unsafe, verify'.listed = verify.listed,
         verify'.claims = verify.claims, verify'.resolved = verify.resolved
  PROVE  StoreInv'
<1>1. UNCHANGED <<entry, subdir, asStored>> /\ ManifestRead /\ ~ ManifestAhead /\ ~ ListingAhead
  BY DEF Looking, onDisk, AtArtifact, ManifestRead, ManifestAhead, DirectoryAhead, ListingAhead
<1>2. Betrayed => Betrayed'
  BY <1>1 DEF Betrayed, ManifestAhead, DirectoryAhead, ListingAhead, AtArtifact, ArtifactAhead
<1>3. NothingSkipped'
  BY <1>1 DEF StoreInv, NothingPutBack, NothingSkipped, ManifestAhead, ManifestRead, DirectoryAhead, ListingAhead,
              AtArtifact
<1>4. Listing' = Listing /\ Names' = Names /\ \A k : Wrong(k)' = Wrong(k)
  BY <1>1 DEF Modified, Names, Listing, Wrong
<1>5. Found => Found'
  BY <1>1, <1>4 DEF Found, ManifestAhead, ManifestRead, AtArtifact
<1> QED
  BY <1>1, <1>2, <1>3, <1>5, EntriesTyped, GoesOnWell
     DEF StoreInv, NothingPutBack, FoundIsThere, AtArtifact

\* The look at an artifact keeps the invariant: only what is listed and safe is
\* opened, and what is not has its reason already.
LEMMA LookAtArtifactKeeps == ASSUME StoreInv, LookAtArtifact PROVE StoreInv'
<1> DEFINE n == verify.next
           a == ArtifactTypes[n]
<1>1. /\ Looking /\ verify.pc = "artifact" /\ AtArtifact /\ ManifestRead /\ ~ ManifestAhead /\ ~ DirectoryAhead /\ ~ ListingAhead
      /\ UNCHANGED <<entry, subdir, asStored>>
      /\ n \in 1..Len(ArtifactTypes) /\ n <= Len(ArtifactTypes) /\ a \in Artifacts /\ a \in Entries /\ a # "manifest"
  BY EntriesTyped, ArtifactsListed, NamesAssumption
     DEF Looking, LookAtArtifact, ManifestAhead, DirectoryAhead, ManifestRead, onDisk, Verification, Entries,
            ListingAhead, AtArtifact
<1>2. asStored.since => /\ a \in verify.listed <=> entry[a] # "absent"
                        /\ a \in verify.unsafe <=> entry[a] = "link"
  <2>1. SUFFICES ASSUME Found PROVE /\ a \in verify.listed <=> entry[a] # "absent"
                                    /\ a \in verify.unsafe <=> entry[a] = "link"
    BY DEF StoreInv, FoundIsThere
  <2> QED
    BY <1>1, <2>1 DEF Found, Names, AtArtifact
<1>3. CASE a \notin verify.listed \ verify.unsafe
  <2>1. verify' = [verify EXCEPT !.pc = "artifact", !.next = n + 1, !.reasons = verify.reasons \cup {}]
    <3>1. verify' = [verify EXCEPT !.next = n + 1]
      BY <1>3, EntriesTyped DEF LookAtArtifact, Verification
    <3> QED
      BY <1>1, <3>1, EntriesTyped DEF Verification
  <2>2. verify.reasons # {}
    BY <1>1, <1>3 DEF StoreInv, NothingPutBack, NothingSkipped
  <2>3. asStored.since => ~ Wrong(n)
    BY <1>2, <1>3 DEF Wrong, Regular
  <2>4. asStored.since => {} = If(Wrong(n), "ARTIFACT_MODIFIED")
    BY <2>3 DEF If
  <2> QED
    BY <1>1, <2>1, <2>2, <2>4, NextArtifactKeeps
<1>4. CASE a \in verify.listed \ verify.unsafe /\ (~ Regular(entry[a]) \/ subdir # verify.resolved)
  <2>1. verify' = [verify EXCEPT !.pc = "artifact", !.next = n + 1,
                                 !.reasons = verify.reasons \cup {"ARTIFACT_UNSAFE"}]
    <3>1. verify' = [verify EXCEPT !.next = n + 1, !.reasons = verify.reasons \cup {"ARTIFACT_UNSAFE"}]
      BY <1>4, EntriesTyped DEF LookAtArtifact, Verification
    <3> QED
      BY <1>1, <3>1, EntriesTyped DEF Verification
  <2>2. ~ asStored.since
    BY <1>1, <1>2, <1>4 DEF Regular, StoreInv, FoundIsThere, Found
  <2> QED
    BY <1>1, <2>1, <2>2, NextArtifactKeeps DEF AllReasons
<1>5. CASE a \in verify.listed \ verify.unsafe /\ Regular(entry[a]) /\ subdir = verify.resolved
  <2>1. verify' = [verify EXCEPT !.pc = "again"]
    BY <1>5 DEF LookAtArtifact
  <2>2. /\ verify' \in Verification /\ verify'.pc = "again" /\ verify'.verdict = verify.verdict
        /\ verify'.reasons = verify.reasons /\ verify'.unseen = verify.unseen
        /\ verify'.unsafe = verify.unsafe /\ verify'.listed = verify.listed
        /\ verify'.next = n /\ verify'.claims = verify.claims /\ verify'.resolved = verify.resolved
    BY <1>1, <2>1, EntriesTyped DEF Verification
  <2> QED
    BY <1>1, <1>5, <2>2, StaysAtArtifact
<1> QED
  BY <1>3, <1>4, <1>5

\* The look of _open_regular_file keeps the invariant.
LEMMA LookAgainKeeps == ASSUME StoreInv, LookAgain PROVE StoreInv'
<1> DEFINE n == verify.next
           now == entry[ArtifactTypes[n]]
<1>1. /\ Looking /\ AtArtifact /\ verify.pc = "again" /\ UNCHANGED <<entry, subdir, asStored>>
      /\ n \in 1..Len(ArtifactTypes) /\ n <= Len(ArtifactTypes) /\ now \in States
  BY EntriesTyped, ArtifactsListed
     DEF Looking, LookAgain, AtArtifact, onDisk, Verification, Entries, StoreInv, Typed
<1>2. CASE ~ Regular(now)
  <2>1. verify' = [verify EXCEPT !.pc = "artifact", !.next = n + 1,
                                 !.reasons = verify.reasons \cup {"ARTIFACT_UNSAFE"}]
    BY <1>2, EntriesTyped DEF LookAgain, Verification
  <2>2. ~ asStored.since
    BY <1>1, <1>2 DEF StoreInv, FoundIsThere, Found
  <2> QED
    BY <1>1, <2>1, <2>2, NextArtifactKeeps DEF AllReasons
<1>3. CASE Regular(now)
  <2>1. verify' = [verify EXCEPT !.pc = "content", !.looked = now]
    BY <1>3 DEF LookAgain
  <2>2. /\ verify' \in Verification /\ verify'.pc = "content" /\ verify'.verdict = verify.verdict
        /\ verify'.reasons = verify.reasons /\ verify'.unseen = verify.unseen
        /\ verify'.unsafe = verify.unsafe /\ verify'.listed = verify.listed
        /\ verify'.next = n /\ verify'.claims = verify.claims /\ verify'.resolved = verify.resolved
        /\ verify'.looked = now
    BY <1>1, <2>1, EntriesTyped DEF Verification
  <2> QED
    BY <1>1, <1>3, <2>2, StaysAtArtifact
<1> QED
  BY <1>2, <1>3

\* Hashing an artifact keeps the invariant: a digest that agrees with a manifest
\* without a reason is that of the artifact as stored.
LEMMA HashArtifactKeeps == ASSUME StoreInv, HashArtifact PROVE StoreInv'
<1> DEFINE n == verify.next
           a == ArtifactTypes[n]
           now == entry[a]
           goOn(reasons) == [verify EXCEPT !.pc = "artifact", !.next = n + 1,
                                           !.reasons = verify.reasons \cup reasons]
<1>1. /\ Looking /\ verify.pc = "content" /\ AtArtifact /\ ManifestRead
      /\ UNCHANGED <<entry, subdir, asStored>>
      /\ n \in 1..Len(ArtifactTypes) /\ n <= Len(ArtifactTypes) /\ now \in States
  BY EntriesTyped, ArtifactsListed
     DEF Looking, HashArtifact, ManifestRead, onDisk, Verification, Entries, StoreInv, Typed, AtArtifact
<1>2. verify' = IF ~ Regular(now) \/ ~ SameFile(verify.looked, now)
                THEN goOn({"ARTIFACT_UNSAFE"})
                ELSE IF now = "big" THEN Concluded(verify, verify.reasons \cup {"ARTIFACT_MODIFIED"})
                ELSE goOn(IF Content(now) = verify.claims THEN {} ELSE {"ARTIFACT_MODIFIED"})
  BY EntriesTyped DEF HashArtifact, Verification
<1>3. asStored.since => /\ Found /\ Regular(now) /\ SameFile(verify.looked, now)
                        /\ Wrong(n) <=> Content(now) # verify.claims
                        /\ verify.claims # "big"
  <2>1. SUFFICES ASSUME Found PROVE /\ Regular(now) /\ SameFile(verify.looked, now)
                                    /\ Wrong(n) <=> Content(now) # verify.claims
                                    /\ verify.claims # "big"
    BY DEF StoreInv, FoundIsThere
  <2> QED
    BY <1>1, <2>1 DEF Found, SameFile, Wrong, Content, AtArtifact
<1>4. CASE ~ Regular(now) \/ ~ SameFile(verify.looked, now)
  BY <1>1, <1>2, <1>3, <1>4, NextArtifactKeeps DEF AllReasons
<1>5. CASE Regular(now) /\ SameFile(verify.looked, now) /\ now = "big"
  <2> DEFINE R == verify.reasons \cup {"ARTIFACT_MODIFIED"}
  <2>1. R \in SUBSET AllReasons /\ R # {}
    BY EntriesTyped DEF Verification, AllReasons
  <2>2. asStored.since => R = Reasons
    <3>1. SUFFICES ASSUME asStored.since PROVE R = Reasons
      OBVIOUS
    <3>2. Wrong(n) /\ Found
      BY <1>3, <1>5, <3>1 DEF Content
    <3>3. /\ verify.reasons = Listing \cup If(\E k \in 1..(n - 1) : Wrong(k), "ARTIFACT_MODIFIED")
          /\ entry["manifest"] \notin {"absent", "link", "big", "garbled"} /\ subdir = "directory"
      BY <1>1, <3>2 DEF Found, AtArtifact
    <3>4. Reasons = Listing \cup {"ARTIFACT_MODIFIED"}
      BY <1>1, <3>2, <3>3, ReasonsByManifest DEF If, StoreInv
    <3> QED
      BY <3>3, <3>4 DEF If
  <2> QED
    BY <1>1, <1>2, <1>5, <2>1, <2>2, EndsWell
<1>6. CASE Regular(now) /\ SameFile(verify.looked, now) /\ now # "big"
  <2> DEFINE R == IF Content(now) = verify.claims THEN {} ELSE {"ARTIFACT_MODIFIED"}
  <2>1. R \in SUBSET AllReasons /\ verify' = goOn(R)
    BY <1>2, <1>6 DEF AllReasons
  <2>2. verify.reasons = {} /\ R = {} => now = "stored"
    BY <1>1 DEF StoreInv, NothingPutBack, NothingSkipped, Content
  <2>3. asStored.since => R = If(Wrong(n), "ARTIFACT_MODIFIED")
    BY <1>3 DEF If
  <2> HIDE DEF R
  <2> QED
    BY <1>1, <2>1, <2>2, <2>3, NextArtifactKeeps
<1> QED
  BY <1>4, <1>5, <1>6

\* The end of a verification keeps the invariant: everything has been looked at.
LEMMA FinishVerifyKeeps == ASSUME StoreInv, FinishVerify PROVE StoreInv'
<1>1. /\ Looking /\ verify.pc = "artifact" /\ ManifestRead /\ verify.next - 1 = Len(ArtifactTypes)
      /\ verify' = Concluded(verify, verify.reasons) /\ Len(ArtifactTypes) \in Nat
      /\ verify.reasons \in SUBSET AllReasons
  BY EntriesTyped, ArtifactsListed DEF Looking, FinishVerify, ManifestRead, onDisk, Verification, AtArtifact
<1>2. ~ asStored.atStart => verify.reasons # {}
  <2>1. ~ \E k \in DOMAIN ArtifactTypes : ArtifactAhead(k)
    BY <1>1, ArtifactsListed, EntriesTyped DEF ArtifactAhead, DirectoryAhead, ManifestAhead, Verification,
           ListingAhead, AtArtifact
  <2> QED
    BY <1>1, <2>1 DEF StoreInv, NothingPutBack, Betrayed, DirectoryAhead, ManifestAhead,
           ListingAhead, AtArtifact
<1>3. asStored.since => verify.reasons = Reasons
  <2>1. SUFFICES ASSUME Found PROVE verify.reasons = Reasons
    BY DEF StoreInv, FoundIsThere
  <2>2. /\ verify.reasons = Listing \cup If(\E k \in 1..Len(ArtifactTypes) : Wrong(k), "ARTIFACT_MODIFIED")
        /\ entry["manifest"] \notin {"absent", "link", "big", "garbled"} /\ subdir = "directory"
    BY <1>1, <2>1 DEF Found, AtArtifact
  <2> QED
    BY <2>2, ReasonsByManifest DEF StoreInv
<1> QED
  BY <1>1, <1>2, <1>3, EndsWell
-----------------------------------------------------------------------------

\* Every step of storing, verifying and the disk keeps the invariant.
LEMMA StoreStepKeeps == ASSUME StoreInv, StoreNext PROVE StoreInv'
<1>1. CASE Storing
  <2>1. Typed' /\ StoreInOrder' /\ UNCHANGED unverified /\ verify = NotBegun
    BY <1>1, StoringStep DEF StoreInv
  <2>2. verify'.pc = "idle" /\ verify'.reasons = {} /\ verify' = verify
    BY <2>1 DEF unverified, NotBegun
  <2>3. NothingPutBack' /\ FoundIsThere'
    BY <2>2 DEF NothingPutBack, NothingSkipped, FoundIsThere, Found, ManifestAhead, DirectoryAhead, ManifestRead,
           ListingAhead, AtArtifact
  <2> QED
    BY <2>1, <2>3 DEF StoreInv
<1>2. CASE VerifyStep
  BY <1>2, BeginKeeps, StatManifestKeeps, LookAtManifestKeeps, OpenManifestKeeps, StatDirectoryKeeps,
     ResolveDirectoryKeeps, ListDirectoryKeeps, ScanEntryKeeps, CompareListingKeeps, LookAtArtifactKeeps,
     LookAgainKeeps, HashArtifactKeeps,
     FinishVerifyKeeps DEF VerifyStep
<1>3. CASE DiskStep
  BY <1>3, DiskStepKeeps
<1> QED
  BY <1>1, <1>2, <1>3 DEF StoreNext, Storing

\* So does a step that leaves the store alone.
LEMMA StoreStutterKeeps == ASSUME StoreInv, UNCHANGED storeVars PROVE StoreInv'
<1>1. UNCHANGED <<place, entry, subdir, store, verify, changes, asStored>>
  BY DEF storeVars
<1>2. Typed'
  BY <1>1 DEF StoreInv, Typed, StoreTypeOK
<1>3. StoreInOrder'
  BY <1>1 DEF StoreInv, StoreInOrder, Complete
<1>4. ManifestAhead' = ManifestAhead /\ DirectoryAhead' = DirectoryAhead /\ ManifestRead' = ManifestRead
  BY <1>1 DEF ManifestAhead, DirectoryAhead, ManifestRead, ListingAhead, AtArtifact
<1>5. NothingPutBack'
  BY <1>1, <1>4 DEF StoreInv, NothingPutBack, NothingSkipped, Betrayed, ArtifactAhead, AtArtifact, ListingAhead
<1>6. Modified' = Modified /\ Names' = Names /\ Listing' = Listing /\ Reasons' = Reasons
  BY <1>1 DEF Modified, Names, Listing, Reasons
<1>7. \A k : Wrong(k)' = Wrong(k)
  BY <1>1 DEF Wrong
<1>8. FoundIsThere'
  BY <1>1, <1>4, <1>6, <1>7 DEF StoreInv, FoundIsThere, Found, AtArtifact
<1> QED
  BY <1>2, <1>3, <1>5, <1>8 DEF StoreInv

\* The invariant gives verify_bundle's verdict its meaning.
LEMMA VerdictFollows == StoreInv => VerdictIsRight
<1> SUFFICES ASSUME StoreInv PROVE VerdictIsRight
  OBVIOUS
<1>1. verify.verdict = "PASS" => asStored.atStart
  <2>1. verify.verdict = "PASS" => verify.pc = "done" /\ verify.reasons = {}
    BY DEF StoreInv, Typed
  <2> QED
    BY <2>1 DEF StoreInv, NothingPutBack, Betrayed, ManifestAhead, DirectoryAhead, ArtifactAhead,
           ListingAhead, AtArtifact
<1>2. verify.pc = "raised" => ~ asStored.since
  BY DEF StoreInv, FoundIsThere, Found, AtArtifact
<1>3. verify.pc = "done" /\ asStored.since => verify.reasons = Reasons
  BY DEF StoreInv, FoundIsThere, Found, AtArtifact
<1>4. verify.pc = "done" => (verify.verdict = "PASS" <=> verify.reasons = {})
  BY DEF StoreInv, Typed
<1> QED
  BY <1>1, <1>2, <1>3, <1>4, IntactHasNoReasons DEF VerdictIsRight, StoreInv
=============================================================================
