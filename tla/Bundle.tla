------------------------------- MODULE Bundle -------------------------------
(***************************************************************************)
(* Artifact bundles (shiroe/transfer/bundle.py).  create_artifact_bundle   *)
(* hashes every file of a directory into a manifest and then reads every   *)
(* file again into the tar; extract_artifact_bundle checks the tar against *)
(* its manifest in a private directory and swaps that directory in.        *)
(*                                                                         *)
(* The directory may be written to while it is bundled, several processes  *)
(* may extract to one destination, a rename or a write may fail, and a     *)
(* process may be killed between two steps.                                *)
(***************************************************************************)
EXTENDS Naturals, Sequences, FiniteSets

CONSTANTS Files,        \* relative paths, in sorted order 1..N
          Extractors,   \* processes extracting to the one destination
          MaxWrites,    \* bound: writes to the source directory
          MaxErrors,    \* bound: failing file-system calls
          MaxCrashes    \* bound: killed extractors

\* There is something to bundle to begin with.
ASSUME FilesAssumption ==
  /\ IsFiniteSet(Files) /\ Files = 1..Cardinality(Files) /\ Files # {}
  /\ MaxWrites \in Nat /\ MaxErrors \in Nat /\ MaxCrashes \in Nat

\* What a file can hold: two texts of one length, and the first one with
\* more appended.  A payload cut to the manifest's size is a Prefix.
Contents == {"a", "b", "a+"}
Missing == "missing"
Held == Contents \cup {Missing}     \* a path with its content, or without a file
Size(c) == IF c = "a+" THEN 2 ELSE 1
Prefix(c, size) == IF c = "a+" /\ size = 1 THEN "a" ELSE c

Absent == <<>>                    \* no such directory
Original == [f \in Files |-> "original"]
Partial == [f \in Files |-> "partial"]    \* what a failed rmtree leaves
Empty == [f \in Files |-> Missing]        \* a directory without files

\* Where os.replace can put a directory.
Vacant(d) == d \in {Absent, Empty}

VARIABLES dir,      \* file -> content, or Missing
          tar,      \* the bundle: manifest, payloads, and the files in it
          maker,    \* where create_artifact_bundle is
          dest,     \* the destination directory, or Absent
          ex,       \* per extractor: stage, the directory tmp, backup
          writes, errors, crashes

bvars == <<dir, tar, maker, dest, ex, writes, errors, crashes>>

NoTar == [manifest |-> <<>>, payload |-> <<>>]
IdleEx == [stage |-> "idle", tmp |-> Absent, backup |-> Absent]

BundleInit ==
  /\ dir = [f \in Files |-> "a"]
  /\ tar = NoTar
  /\ maker = [stage |-> "list", listed |-> {}, hashed |-> <<>>]
  /\ dest \in {Absent, Original}
  /\ ex = [e \in Extractors |-> IdleEx]
  /\ writes = 0 /\ errors = 0 /\ crashes = 0
-----------------------------------------------------------------------------
(* create_artifact_bundle                                                    *)

\* _source_entries lists the files there are; one that comes later is not
\* bundled.
ListSource ==
  /\ maker.stage = "list"
  /\ maker' = [maker EXCEPT !.stage = "scan",
                            !.listed = {f \in Files : dir[f] # Missing}]
  /\ UNCHANGED <<dir, tar, dest, ex, writes, errors, crashes>>

\* The next file is read and hashed; the content stands for its digest and
\* size.  A file that was listed and is gone raises.
_source_entries ==
  LET f == Len(maker.hashed) + 1
  IN  /\ maker.stage = "scan"
      /\ f \in Files
      /\ \/ /\ f \in maker.listed /\ dir[f] = Missing
            /\ maker' = [maker EXCEPT !.stage = "failed"]
         \/ /\ f \in maker.listed /\ dir[f] # Missing
            /\ maker' = [maker EXCEPT !.hashed = Append(@, dir[f])]
         \/ /\ f \notin maker.listed
            /\ maker' = [maker EXCEPT !.hashed = Append(@, Missing)]
      /\ UNCHANGED <<dir, tar, dest, ex, writes, errors, crashes>>

\* The target is truncated and the manifest added.
OpenTar ==
  /\ maker.stage = "scan"
  /\ Len(maker.hashed) = Cardinality(Files)
  /\ maker' = [maker EXCEPT !.stage = "pack"]
  /\ tar' = [manifest |-> maker.hashed, payload |-> <<>>]
  /\ UNCHANGED <<dir, dest, ex, writes, errors, crashes>>

\* addfile copies exactly the size the manifest says: a file that shrank or
\* is gone raises, one that grew is cut.
AddFile ==
  LET f == Len(tar.payload) + 1
      size == Size(tar.manifest[f])
  IN  /\ maker.stage = "pack"
      /\ f \in Files
      /\ \/ /\ tar.manifest[f] = Missing
            /\ tar' = [tar EXCEPT !.payload = Append(@, Missing)]
            /\ UNCHANGED maker
         \/ /\ tar.manifest[f] # Missing
            /\ dir[f] = Missing \/ Size(dir[f]) < size
            /\ maker' = [maker EXCEPT !.stage = "failed"]
            /\ UNCHANGED tar
         \/ /\ tar.manifest[f] # Missing
            /\ dir[f] # Missing /\ Size(dir[f]) >= size
            /\ tar' = [tar EXCEPT !.payload = Append(@, Prefix(dir[f], size))]
            /\ UNCHANGED maker
      /\ UNCHANGED <<dir, dest, ex, writes, errors, crashes>>

CloseTar ==
  /\ maker.stage = "pack"
  /\ Len(tar.payload) = Cardinality(Files)
  /\ maker' = [maker EXCEPT !.stage = "made"]
  /\ UNCHANGED <<dir, tar, dest, ex, writes, errors, crashes>>

\* Whoever owns the source directory changes a file in it.
WriteSource(f, c) ==
  /\ writes < MaxWrites
  /\ maker.stage \in {"list", "scan", "pack"}
  /\ dir[f] # c
  /\ writes' = writes + 1
  /\ dir' = [dir EXCEPT ![f] = c]
  /\ UNCHANGED <<tar, maker, dest, ex, errors, crashes>>
-----------------------------------------------------------------------------
(* extract_artifact_bundle                                                   *)

\* Mutant: the payload set is compared, its contents are not.
PayloadsPresent(t) == DOMAIN t.payload = DOMAIN t.manifest

\* _read_bundle and the checks of the extraction loop: the payloads are
\* those of the manifest, each with its size and its digest.
Verified(t) ==
  /\ DOMAIN t.payload = DOMAIN t.manifest
  /\ \A f \in DOMAIN t.manifest : t.payload[f] = t.manifest[f]

\* The bundle is read and checked and every payload is written into tmp, or
\* an exception is raised, before anything outside tmp was touched.
Unpack(e) ==
  /\ ex[e].stage = "idle"
  /\ tar # NoTar
  /\ ex' = [ex EXCEPT ![e] =
              IF Verified(tar)
              THEN [stage |-> "check", tmp |-> tar.payload, backup |-> Absent]
              ELSE [IdleEx EXCEPT !.stage = "raised"]]
  /\ UNCHANGED <<dir, tar, maker, dest, writes, errors, crashes>>

\* dest.exists()
CheckDest(e) ==
  /\ ex[e].stage = "check"
  /\ ex' = [ex EXCEPT ![e].stage = IF dest = Absent THEN "swap" ELSE "aside"]
  /\ UNCHANGED <<dir, tar, maker, dest, writes, errors, crashes>>

\* os.replace(dest, backup); it raises when somebody moved dest first.
MoveAside(e) ==
  /\ ex[e].stage = "aside"
  /\ \/ /\ dest # Absent
        /\ ex' = [ex EXCEPT ![e].stage = "swap", ![e].backup = dest]
        /\ dest' = Absent
     \/ /\ dest = Absent
        /\ ex' = [ex EXCEPT ![e].stage = "except"]
        /\ UNCHANGED dest
  /\ UNCHANGED <<dir, tar, maker, writes, errors, crashes>>

\* Mutant: the backup is deleted before the new directory is in place.
SwapDropsFirst(e) ==
  /\ ex[e].stage = "swap"
  /\ IF ex[e].backup # Absent
       THEN /\ ex' = [ex EXCEPT ![e].backup = Absent]
            /\ UNCHANGED dest
       ELSE /\ dest' = ex[e].tmp
            /\ ex' = [ex EXCEPT ![e].stage = "sweep", ![e].tmp = Absent]
  /\ UNCHANGED <<dir, tar, maker, writes, errors, crashes>>

\* os.replace(tmp, dest); it raises when dest is a directory with files.
Swap(e) ==
  /\ ex[e].stage = "swap"
  /\ \/ /\ Vacant(dest)
        /\ dest' = ex[e].tmp
        /\ ex' = [ex EXCEPT ![e].stage = "sweep", ![e].tmp = Absent]
     \/ /\ ~Vacant(dest)
        /\ ex' = [ex EXCEPT ![e].stage = "except"]
        /\ UNCHANGED dest
  /\ UNCHANGED <<dir, tar, maker, writes, errors, crashes>>

\* rmtree(backup) if it exists, and return.
Sweep(e) ==
  /\ ex[e].stage = "sweep"
  /\ ex' = [ex EXCEPT ![e].stage = "done", ![e].backup = Absent]
  /\ UNCHANGED <<dir, tar, maker, dest, writes, errors, crashes>>

\* A call of the swap fails for a reason of the file system; a failing rmtree
\* may have removed some of the backup.
FailCall(e) ==
  /\ errors < MaxErrors
  /\ \/ ex[e].stage \in {"aside", "swap"}
     \/ ex[e].stage = "sweep" /\ ex[e].backup # Absent
  /\ errors' = errors + 1
  /\ ex' = [ex EXCEPT ![e].stage = "except",
                      ![e].backup = IF ex[e].stage = "sweep" THEN Partial ELSE @]
  /\ UNCHANGED <<dir, tar, maker, dest, writes, crashes>>

\* So does one of the handler, and its exception leaves the call at once: a
\* backup that was to be restored stays where it is.
FailHandler(e) ==
  /\ errors < MaxErrors
  /\ \/ ex[e].stage = "except" /\ ex[e].tmp # Absent
     \/ ex[e].stage \in {"restore", "discard"}
  /\ errors' = errors + 1
  /\ ex' = [ex EXCEPT ![e].stage = "left",
                      ![e].tmp = IF @ = Absent THEN @ ELSE Partial,
                      ![e].backup = IF ex[e].stage = "discard" THEN Partial ELSE @]
  /\ UNCHANGED <<dir, tar, maker, dest, writes, crashes>>

\* Mutant: the handler cleans up tmp and forgets the backup.
HandleTmpOnly(e) ==
  /\ ex[e].stage = "except"
  /\ ex' = [ex EXCEPT ![e].tmp = Absent, ![e].stage = "raised"]
  /\ UNCHANGED <<dir, tar, maker, dest, writes, errors, crashes>>

\* The handler: tmp goes, and the tests on backup and dest decide what to do
\* with the backup.
HandleError(e) ==
  /\ ex[e].stage = "except"
  /\ ex' = [ex EXCEPT ![e].tmp = Absent,
                      ![e].stage = IF ex[e].backup = Absent THEN "raised"
                                   ELSE IF dest = Absent THEN "restore"
                                   ELSE "discard"]
  /\ UNCHANGED <<dir, tar, maker, dest, writes, errors, crashes>>

\* os.replace(backup, dest), which raises when dest has files again.
RestoreBackup(e) ==
  /\ ex[e].stage = "restore"
  /\ \/ /\ Vacant(dest)
        /\ dest' = ex[e].backup
        /\ ex' = [ex EXCEPT ![e].stage = "raised", ![e].backup = Absent]
     \/ /\ ~Vacant(dest)
        /\ ex' = [ex EXCEPT ![e].stage = "raised"]
        /\ UNCHANGED dest
  /\ UNCHANGED <<dir, tar, maker, writes, errors, crashes>>

DiscardBackup(e) ==
  /\ ex[e].stage = "discard"
  /\ ex' = [ex EXCEPT ![e].stage = "raised", ![e].backup = Absent]
  /\ UNCHANGED <<dir, tar, maker, dest, writes, errors, crashes>>

\* No handler runs: tmp and backup stay where they are.
KillExtractor(e) ==
  /\ crashes < MaxCrashes
  /\ ex[e].stage \notin {"idle", "done", "raised", "left", "killed"}
  /\ crashes' = crashes + 1
  /\ ex' = [ex EXCEPT ![e].stage = "killed"]
  /\ UNCHANGED <<dir, tar, maker, dest, writes, errors>>

Extract(e) ==
  \/ Unpack(e) \/ CheckDest(e) \/ MoveAside(e) \/ Swap(e) \/ Sweep(e)
  \/ HandleError(e) \/ RestoreBackup(e) \/ DiscardBackup(e)

BundleNext ==
  \/ ListSource \/ _source_entries \/ OpenTar \/ AddFile \/ CloseTar
  \/ \E f \in Files, c \in Held : WriteSource(f, c)
  \/ \E e \in Extractors : Extract(e) \/ FailCall(e) \/ FailHandler(e) \/ KillExtractor(e)

BundleSpec == BundleInit /\ [][BundleNext]_bvars
-----------------------------------------------------------------------------
Trees == {Absent, Original, Partial} \cup [Files -> Held]

\* Directories are whole trees or absent, and stages are the code's.
BundleTypeOK ==
  /\ dir \in [Files -> Held]
  /\ dest \in Trees
  /\ \A e \in Extractors :
       /\ ex[e].tmp \in Trees /\ ex[e].backup \in Trees
       /\ ex[e].stage \in {"idle", "check", "aside", "swap", "sweep", "except",
                           "restore", "discard", "done", "raised", "left",
                           "killed"}
  /\ maker.stage \in {"list", "scan", "pack", "made", "failed"}
  /\ maker.listed \subseteq Files /\ maker.hashed \in Seq(Held)
  /\ tar.manifest \in Seq(Held) /\ tar.payload \in Seq(Held)

\* Whatever was written to the source while it was bundled, a destination
\* that is no longer the old one is exactly the directory the manifest
\* describes: never a file from after the hashing among files from before it,
\* never half a bundle.  Half a directory gets there only when rmtree failed
\* on a backup and another process had moved the destination away.
InstalledIsManifest ==
  \A t \in {dest} \cup {ex[e].backup : e \in Extractors} :
    t \notin {Absent, Original} => t = tar.manifest \/ (t = Partial /\ errors > 0)

\* Once there was a destination there is one, or a backup of it next to it,
\* in every state and after every kill or failing call: the swap never deletes
\* the last copy.  (What a failing rmtree left of one counts as a copy: it may
\* be restored, and the whole one discarded for it.)
LastCopySurvives ==
  [][dest # Absent \/ (\E e \in Extractors : ex[e].backup # Absent)
       => \/ dest' # Absent
          \/ \E e \in Extractors : ex'[e].backup # Absent]_bvars

\* When no extraction is under way and none was killed, the destination is
\* there if it was there before or if one returned; it is missing only after a
\* call of an error handler failed, and then its backup is still next to it.
QuietMeansInstalled ==
  crashes = 0 /\ (\A e \in Extractors : ex[e].stage \in {"idle", "done", "raised", "left"})
    => \/ dest # Absent
       \/ \E e \in Extractors : ex[e].stage = "left" /\ ex[e].backup # Absent
       \/ \A e \in Extractors : ex[e].stage # "done" /\ ex[e].backup = Absent

\* What is found at the destination, and that something is
\* (create_artifact_bundle, extract_artifact_bundle).
BundleInv == BundleTypeOK /\ InstalledIsManifest /\ QuietMeansInstalled
=============================================================================
