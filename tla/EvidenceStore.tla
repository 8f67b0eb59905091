--------------------------- MODULE EvidenceStore --------------------------
(***************************************************************************)
(* One evidence bundle on disk: store_bundle writes it under a hidden name *)
(* and renames it, verify_bundle examines it look by look, and between any *)
(* two steps the disk may change or the process die.                       *)
(*                                                                         *)
(* An entry of the bundle's directory is absent; stored, as store_bundle   *)
(* wrote it; torn, by a write that failed half-way; edited in place;       *)
(* replaced by another regular file of the name; big, grown beyond the     *)
(* limit; garbled, a manifest the schema refuses; or a link: a symbolic    *)
(* one, a directory, one of several names of a file.  An edited or         *)
(* replaced manifest follows the schema and lists the edited artifacts.    *)
(* The directory "artifacts" may become a symbolic link, too: to where it  *)
(* was moved, or to another directory.                                     *)
(***************************************************************************)
EXTENDS Integers, Sequences, FiniteSets, Functions

CONSTANTS
  ArtifactTypes,  \* the names of the artifacts, in order
  Stray,          \* a file the manifest does not list
  MaxChanges      \* bound: how often the disk changes

Artifacts == Range(ArtifactTypes)
Entries == Artifacts \cup {"manifest", Stray}

ASSUME NamesAssumption ==
  /\ ArtifactTypes \in Seq(Artifacts) /\ IsInjective(ArtifactTypes)
  /\ Stray \notin Artifacts \cup {"manifest"}
  /\ "manifest" \notin Artifacts
ASSUME ChangesAssumption == MaxChanges \in Nat

VARIABLES
  place,      \* where the bundle's directory is: "none", "partial", "final", "removed"
  entry,      \* entry[e]: what is under the name e in it
  subdir,     \* its directory "artifacts": "absent", "directory", "file", "link"
  store,      \* store_bundle: where it is
  verify,     \* verify_bundle: where it is and what it has found
  changes,    \* how often the disk has changed
  asStored    \* were the files as stored when the verification began; has the
              \* disk been unchanged since?

storeVars == <<place, entry, subdir, store, verify, changes, asStored>>

States == {"absent", "stored", "torn", "edited", "replaced", "big", "garbled", "link"}

Unsafe(state) == state = "link"
Regular(state) == state \notin {"absent", "link"}

\* what a reader of the file gets: two regular files of one content are alike
Content(state) == IF state = "replaced" THEN "edited" ELSE state

Complete == subdir = "directory" /\ \A e \in Artifacts \cup {"manifest"} : entry[e] = "stored"
Intact == Complete /\ entry[Stray] = "absent"

\* what is under the directory's name can be listed
Listable == subdir \in {"directory", "link"}

NotBegun == [pc |-> "idle", next |-> 1, looked |-> "nothing", resolved |-> "nothing",
             listed |-> {}, unseen |-> {}, unsafe |-> {},
             claims |-> "nothing", reasons |-> {}, verdict |-> "pending"]

StoreTypeOK ==
  /\ place \in {"none", "partial", "final", "removed"}
  /\ entry \in [Entries -> States]
  /\ subdir \in {"absent", "directory", "file", "link"}
  /\ store \in [pc: {"idle", "writing", "renaming", "stored", "failed"},
                next: 1..(Len(ArtifactTypes) + 1)]
  /\ verify.pc \in {"idle", "manifest", "looking", "opening", "directory", "resolving", "listing",
                    "scanning", "artifact", "again", "content", "done", "raised"}
  /\ verify.listed \subseteq Entries
  /\ verify.unseen \subseteq verify.listed /\ verify.unsafe \subseteq verify.listed
  /\ verify.verdict \in {"PASS", "FAIL", "pending"}
  /\ (verify.verdict = "FAIL") <=> (verify.pc = "done" /\ verify.reasons # {})
  /\ changes \in 0..MaxChanges

StoreInit ==
  /\ place = "none"
  /\ entry = [e \in Entries |-> "absent"]
  /\ subdir = "absent"
  /\ store = [pc |-> "idle", next |-> 1]
  /\ verify = NotBegun
  /\ changes = 0
  /\ asStored = [atStart |-> FALSE, since |-> TRUE]

\* A verification that ends with what it has found.
Concluded(v, reasons) ==
  [v EXCEPT !.pc = "done", !.reasons = reasons,
            !.verdict = IF reasons = {} THEN "PASS" ELSE "FAIL"]

onDisk == <<place, entry, subdir>>
unverified == <<verify, changes, asStored>>

-----------------------------------------------------------------------------
(* Slips: what a plausible bug would turn an action below into.            *)

\* the directory gets its name before the manifest is in it
WriteManifestLate ==
  /\ store.pc = "writing"
  /\ store.next > Len(ArtifactTypes)
  /\ place' = "final"
  /\ store' = [store EXCEPT !.pc = "renaming"]
  /\ UNCHANGED <<entry, subdir, unverified>>

\* the digest the database keeps is not compared
OpenManifestSchemaOnly ==
  /\ verify.pc = "opening"
  /\ LET now == entry["manifest"] IN
       verify' = IF ~ Regular(now) THEN [verify EXCEPT !.pc = "raised"]
                 ELSE IF Content(now) \in {"stored", "edited"}
                 THEN [verify EXCEPT !.pc = "directory", !.claims = Content(now)]
                 ELSE Concluded(verify, {"MANIFEST_INVALID"})
  /\ UNCHANGED <<onDisk, store, changes, asStored>>

-----------------------------------------------------------------------------
(* store_bundle.                                                           *)

MakePartial ==
  /\ store.pc = "idle"
  /\ place' = "partial"
  /\ subdir' = "directory"
  /\ store' = [store EXCEPT !.pc = "writing"]
  /\ UNCHANGED <<entry, unverified>>

WriteArtifact ==
  /\ store.pc = "writing"
  /\ store.next <= Len(ArtifactTypes)
  /\ entry' = [entry EXCEPT ![ArtifactTypes[store.next]] = "stored"]
  /\ store' = [store EXCEPT !.next = @ + 1]
  /\ UNCHANGED <<place, subdir, unverified>>

WriteManifest ==
  /\ store.pc = "writing"
  /\ store.next > Len(ArtifactTypes)
  /\ entry' = [entry EXCEPT !["manifest"] = "stored"]
  /\ store' = [store EXCEPT !.pc = "renaming"]
  /\ UNCHANGED <<place, subdir, unverified>>

Rename ==
  /\ store.pc = "renaming"
  /\ place' = "final"
  /\ store' = [store EXCEPT !.pc = "stored"]
  /\ UNCHANGED <<entry, subdir, unverified>>

\* What a write that does not come to its end leaves.
HalfWritten ==
  IF store.pc = "renaming" THEN entry
  ELSE [entry EXCEPT ![IF store.next <= Len(ArtifactTypes) THEN ArtifactTypes[store.next]
                       ELSE "manifest"] = "torn"]

\* A directory cannot be made: that is before the try.
MakeFails ==
  /\ store.pc = "idle"
  /\ place' \in {"none", "partial"}
  /\ store' = [store EXCEPT !.pc = "failed"]
  /\ UNCHANGED <<entry, subdir, unverified>>

\* A write or the rename fails: rmtree(partial, ignore_errors=True), which may
\* not succeed either.
StoreFails ==
  /\ store.pc \in {"writing", "renaming"}
  /\ store' = [store EXCEPT !.pc = "failed"]
  /\ \/ place' = "removed" /\ entry' = [e \in Entries |-> "absent"] /\ subdir' = "absent"
     \/ entry' = HalfWritten /\ UNCHANGED <<place, subdir>>
  /\ UNCHANGED unverified

\* The process dies half-way: the partial directory is left behind.
CrashStoring ==
  /\ store.pc \in {"writing", "renaming"}
  /\ store' = [store EXCEPT !.pc = "failed"]
  /\ entry' = HalfWritten
  /\ UNCHANGED <<place, subdir, unverified>>

-----------------------------------------------------------------------------
(* Changes on disk, beside the program, once the bundle is there.  Nothing *)
(* puts back what was stored.                                              *)

Changed == /\ place = "final" /\ store.pc = "stored"
           /\ verify.pc \notin {"done", "raised"}
           /\ changes < MaxChanges
           /\ changes' = changes + 1
           /\ asStored' = [asStored EXCEPT !.since = verify.pc = "idle"]
           /\ UNCHANGED <<place, store, verify>>

ChangeEntry(e, state) ==
  /\ Changed
  /\ state # entry[e]
  /\ e # "manifest" => Listable /\ state # "garbled"
  /\ entry' = [entry EXCEPT ![e] = state]
  /\ UNCHANGED subdir

\* A link may lead to the very files.
ChangeDirectory(state) ==
  /\ Changed
  /\ Listable
  /\ state # subdir
  /\ subdir' = state
  /\ \/ entry' = [e \in Entries |-> IF e = "manifest" THEN entry[e] ELSE "absent"]
     \/ state = "link" /\ UNCHANGED entry

-----------------------------------------------------------------------------
(* verify_bundle.                                                          *)

Begin ==
  /\ verify.pc = "idle"
  /\ store.pc = "stored"
  /\ verify' = [verify EXCEPT !.pc = "manifest"]
  /\ asStored' = [atStart |-> Complete, since |-> TRUE]
  /\ UNCHANGED <<onDisk, store, changes>>

\* Line 586: the first lstat of the manifest.
StatManifest ==
  /\ verify.pc = "manifest"
  /\ verify' = CASE entry["manifest"] = "absent" -> Concluded(verify, {"MANIFEST_MISSING"})
                 [] Unsafe(entry["manifest"]) -> Concluded(verify, {"MANIFEST_UNSAFE"})
                 [] OTHER -> [verify EXCEPT !.pc = "looking"]
  /\ UNCHANGED <<onDisk, store, changes, asStored>>

\* _open_regular_file looks once more; a missing file is an exception now.
LookAtManifest ==
  /\ verify.pc = "looking"
  /\ verify' = CASE entry["manifest"] = "absent" -> [verify EXCEPT !.pc = "raised"]
                 [] Unsafe(entry["manifest"]) -> Concluded(verify, {"MANIFEST_UNSAFE"})
                 [] OTHER -> [verify EXCEPT !.pc = "opening", !.looked = entry["manifest"]]
  /\ UNCHANGED <<onDisk, store, changes, asStored>>

\* Is it the file that was looked at?
SameFile(looked, now) == (looked = "replaced") = (now = "replaced")

\* It opens the file (a symbolic link cannot be opened, a second hard link is
\* noticed by fstat) and compares it with the one it looked at; then size,
\* digest and schema.
OpenManifest ==
  /\ verify.pc = "opening"
  /\ LET now == entry["manifest"]
         modified == IF Content(now) = "stored" THEN {} ELSE {"MANIFEST_MODIFIED"}
     IN  \/ ~ Regular(now) /\ verify' = [verify EXCEPT !.pc = "raised"]
         \/ /\ Unsafe(now) \/ (Regular(now) /\ ~ SameFile(verify.looked, now))
            /\ verify' = Concluded(verify, {"MANIFEST_UNSAFE"})
         \/ /\ Regular(now) /\ SameFile(verify.looked, now)
            /\ verify' = CASE now = "big" -> Concluded(verify, {"MANIFEST_TOO_LARGE"})
                           [] now = "garbled" -> Concluded(verify, modified \cup {"MANIFEST_INVALID"})
                           [] OTHER -> [verify EXCEPT !.pc = "directory", !.reasons = modified,
                                                      !.claims = Content(now)]
  /\ UNCHANGED <<onDisk, store, changes, asStored>>

StatDirectory ==
  /\ verify.pc = "directory"
  /\ verify' = CASE subdir = "absent" -> Concluded(verify, verify.reasons \cup {"ARTIFACT_MISSING"})
                 [] subdir \in {"file", "link"} ->
                      Concluded(verify, verify.reasons \cup {"ARTIFACT_UNSAFE"})
                 [] OTHER -> [verify EXCEPT !.pc = "resolving"]
  /\ UNCHANGED <<onDisk, store, changes, asStored>>

\* resolve(strict=True) follows a link and raises if nothing is there any more.
ResolveDirectory ==
  /\ verify.pc = "resolving"
  /\ verify' = IF subdir = "absent" THEN [verify EXCEPT !.pc = "raised"]
               ELSE [verify EXCEPT !.pc = "listing", !.resolved = subdir]
  /\ UNCHANGED <<onDisk, store, changes, asStored>>

\* scandir follows one, too, and raises if it does not get to a directory.
ListDirectory ==
  /\ verify.pc = "listing"
  /\ verify' = IF ~ Listable THEN [verify EXCEPT !.pc = "raised"]
               ELSE LET names == {e \in Entries \ {"manifest"} : entry[e] # "absent"}
                    IN  [verify EXCEPT !.pc = "scanning", !.listed = names, !.unseen = names]
  /\ UNCHANGED <<onDisk, store, changes, asStored>>

\* The entries listed are looked at in the order scandir has them in.
ScanEntry(e) ==
  /\ verify.pc = "scanning"
  /\ e \in verify.unseen
  /\ verify' = [verify EXCEPT !.unseen = @ \ {e},
                              !.unsafe = @ \cup {f \in {e} : ~ Regular(entry[f])}]
  /\ UNCHANGED <<onDisk, store, changes, asStored>>

\* Lines 641-648.
CompareListing ==
  /\ verify.pc = "scanning"
  /\ verify.unseen = {}
  /\ verify' = [verify EXCEPT !.pc = "artifact", !.reasons =
                  @ \cup {r \in {"ARTIFACT_UNSAFE"} : verify.unsafe # {}}
                    \cup {r \in {"ARTIFACT_MISSING"} : ~ Artifacts \subseteq verify.listed}
                    \cup {r \in {"ARTIFACT_EXTRA"} : Stray \in verify.listed}]
  /\ UNCHANGED <<onDisk, store, changes, asStored>>

\* Lines 652-662: what is missing or unsafe is skipped, the rest looked at; it
\* must be in the directory that was resolved.
LookAtArtifact ==
  /\ verify.pc = "artifact"
  /\ verify.next <= Len(ArtifactTypes)
  /\ LET a == ArtifactTypes[verify.next] IN
       verify' = IF a \notin verify.listed \ verify.unsafe
                 THEN [verify EXCEPT !.next = @ + 1]
                 ELSE IF ~ Regular(entry[a]) \/ subdir # verify.resolved
                 THEN [verify EXCEPT !.next = @ + 1, !.reasons = @ \cup {"ARTIFACT_UNSAFE"}]
                 ELSE [verify EXCEPT !.pc = "again"]
  /\ UNCHANGED <<onDisk, store, changes, asStored>>

\* _open_regular_file, called by _stream_hash, looks once more: it is this look
\* that the opened file is compared with.
LookAgain ==
  /\ verify.pc = "again"
  /\ LET now == entry[ArtifactTypes[verify.next]] IN
       verify' = IF ~ Regular(now)
                 THEN [verify EXCEPT !.pc = "artifact", !.next = @ + 1,
                                     !.reasons = @ \cup {"ARTIFACT_UNSAFE"}]
                 ELSE [verify EXCEPT !.pc = "content", !.looked = now]
  /\ UNCHANGED <<onDisk, store, changes, asStored>>

\* It is opened and read.  A file too big ends the loop.
HashArtifact ==
  /\ verify.pc = "content"
  /\ LET now == entry[ArtifactTypes[verify.next]]
         goOn(reasons) == [verify EXCEPT !.pc = "artifact", !.next = @ + 1,
                                         !.reasons = @ \cup reasons]
     IN  verify' = IF ~ Regular(now) \/ ~ SameFile(verify.looked, now)
                   THEN goOn({"ARTIFACT_UNSAFE"})
                   ELSE IF now = "big" THEN Concluded(verify, verify.reasons \cup {"ARTIFACT_MODIFIED"})
                   ELSE goOn(IF Content(now) = verify.claims THEN {} ELSE {"ARTIFACT_MODIFIED"})
  /\ UNCHANGED <<onDisk, store, changes, asStored>>

FinishVerify ==
  /\ verify.pc = "artifact"
  /\ verify.next > Len(ArtifactTypes)
  /\ verify' = Concluded(verify, verify.reasons)
  /\ UNCHANGED <<onDisk, store, changes, asStored>>

StoreStep == MakePartial \/ WriteArtifact \/ WriteManifest \/ Rename

VerifyStep ==
  \/ Begin \/ StatManifest \/ LookAtManifest \/ OpenManifest
  \/ StatDirectory \/ ResolveDirectory \/ ListDirectory \/ (\E e \in Entries : ScanEntry(e)) \/ CompareListing
  \/ LookAtArtifact \/ LookAgain \/ HashArtifact \/ FinishVerify

DiskStep ==
  \/ \E e \in Entries, s \in States \ {"stored", "torn"} : ChangeEntry(e, s)
  \/ \E s \in {"absent", "file", "link"} : ChangeDirectory(s)

StoreNext == StoreStep \/ MakeFails \/ StoreFails \/ CrashStoring \/ VerifyStep \/ DiskStep

-----------------------------------------------------------------------------
(* Properties.                                                             *)

\* The reasons for which verify_bundle should refuse what is on disk.
Reasons ==
  LET there == {e \in Artifacts : entry[e] # "absent"}
      claims == Content(entry["manifest"])
      modified == IF claims = "stored" THEN {} ELSE {"MANIFEST_MODIFIED"}
      wrong == {k \in DOMAIN ArtifactTypes :
                  /\ Regular(entry[ArtifactTypes[k]])
                  /\ Content(entry[ArtifactTypes[k]]) # claims}
      artifacts ==  \* what its directory says of the artifacts
        CASE subdir = "absent" -> {"ARTIFACT_MISSING"}
          [] subdir \in {"file", "link"} -> {"ARTIFACT_UNSAFE"}
          [] OTHER ->
               (IF there # Artifacts THEN {"ARTIFACT_MISSING"} ELSE {})
               \cup (IF entry[Stray] # "absent" THEN {"ARTIFACT_EXTRA"} ELSE {})
               \cup (IF \E e \in Entries \ {"manifest"} : Unsafe(entry[e]) THEN {"ARTIFACT_UNSAFE"} ELSE {})
               \cup (IF wrong # {} THEN {"ARTIFACT_MODIFIED"} ELSE {})
  IN  CASE claims = "absent" -> {"MANIFEST_MISSING"}
        [] claims = "link" -> {"MANIFEST_UNSAFE"}
        [] claims = "big" -> {"MANIFEST_TOO_LARGE"}
        [] claims = "garbled" -> {"MANIFEST_MODIFIED", "MANIFEST_INVALID"}
        [] OTHER -> modified \cup artifacts

\* A PASS means that manifest and artifacts were as store_bundle left them when
\* verify_bundle began, even if the disk changes between its looks and reads;
\* and as long as nothing changes in between, an intact bundle passes, any other is refused
\* for exactly the reasons that apply, and nothing is raised.
VerdictIsRight ==
  /\ verify.verdict = "PASS" => asStored.atStart
  /\ verify.pc = "raised" => ~ asStored.since
  /\ verify.pc = "done" /\ asStored.since =>
       /\ verify.reasons = Reasons
       /\ (verify.verdict = "PASS") <=> Intact
=============================================================================
