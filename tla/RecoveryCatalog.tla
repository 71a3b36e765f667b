---------------------------- MODULE RecoveryCatalog ----------------------------
(***************************************************************************)
(* The recovery store on the Mac's disk (internal/recovery): one directory *)
(* per conflict resolution, named by its time, with the backups of the     *)
(* losing copies and a manifest that records their digests.  These are the *)
(* pure parts: what a listing, a digest, a selection for pruning and a     *)
(* power loss make of it.  ConflictRecovery has the commands.              *)
(*                                                                         *)
(* An object is a regular file or a directory of files; a file's bytes     *)
(* are the number of the version its user wrote.  Archives are numbered in *)
(* the order of their names, which are times.                              *)
(***************************************************************************)
EXTENDS Integers, Sequences, FiniteSets

CONSTANTS
  Paths,         \* the project-relative paths in conflict
  MaxArchives,   \* bound: resolutions, those before this behaviour included
  MaxVersion     \* bound: versions of files

ASSUME CatalogAssumption == MaxArchives \in Nat /\ MaxVersion \in Nat \ {0} /\ IsFiniteSet(Paths)

Files == 2                        \* bound: files of a directory
Kinds == {"regular", "directory"}
FilesOf(kind) == IF kind = "regular" THEN 1 ELSE Files

Torn == 0                         \* a file of which only some bytes were written
Rot  == -1                        \* a file damaged since, at the same size
Short == -2                       \* a file damaged since, with another size
Bytes == {Torn, Rot, Short} \cup 1..MaxVersion
Copies == [kind : Kinds, files : UNION {[1..n -> Bytes] : n \in 0..Files}]
NoCopy == [kind |-> "none", files |-> <<>>]

\* A tombstone is an archive renamed out of sight by a prune.
Places == {"absent", "visible", "tombstone"}

Archive == [place : Places, durable : Places,   \* where it is, and would be after a power loss
            winner : {"local", "remote"},
            copy : [Paths -> Copies \cup {NoCopy}], synced : SUBSET Paths,
            entry : [Paths -> Copies \cup {NoCopy}], filed : SUBSET Paths,  \* the manifest
            parents : SUBSET Paths]             \* paths whose parent directories were made

Unused == [place |-> "absent", durable |-> "absent", winner |-> "local",
           copy |-> [p \in Paths |-> NoCopy], synced |-> {},
           entry |-> [p \in Paths |-> NoCopy], filed |-> {}, parents |-> {}]

\* describe: the structural metadata of a copy, which shows a file of the
\* wrong size and not one of the wrong bytes.
Described(c) == [kind |-> c.kind, items |-> Len(c.files),
                 short |-> {i \in 1..Len(c.files) : c.files[i] \in {Torn, Short}}]

\* Digest, WriteArchive: the deterministic tar of a copy identifies it.
Digest(c) == c

\* RecordSummary up to the write: the copy must have the summary's metadata and its path
\* must not be in the manifest yet.
MayRecord(a, p, summary) ==
  /\ a.copy[p] # NoCopy
  /\ Described(a.copy[p]) = Described(summary)
  /\ a.entry[p] = NoCopy

Catalogued(a) == {p \in Paths : a.entry[p] # NoCopy}

\* An inventory entry: one recorded path, or one leaf of an archive without a manifest.
Entry == [archive : 1..MaxArchives, path : Paths, leaf : 0..Files, digest : Copies \cup {NoCopy}]

ManifestEntries(n, a) ==
  {[archive |-> n, path |-> p, leaf |-> 0, digest |-> a.entry[p]] : p \in Catalogued(a)}

\* legacyEntries: the files below the winner directory, and the empty directories.
LegacyEntries(n, a) ==
  (UNION {{[archive |-> n, path |-> p, leaf |-> i, digest |-> NoCopy] : i \in 1..Len(a.copy[p].files)} :
            p \in Paths})
  \cup {[archive |-> n, path |-> p, leaf |-> 0, digest |-> NoCopy] :
           p \in {r \in Paths : \/ a.copy[r].kind = "directory" /\ a.copy[r].files = <<>>
                                \/ a.copy[r] = NoCopy /\ r \in a.parents}}

EntriesOf(n, a) ==
  IF a.place # "visible" THEN {}
  ELSE IF Catalogued(a) # {} THEN ManifestEntries(n, a) ELSE LegacyEntries(n, a)

\* list with requireCurrentMetadata FALSE, and the condition on which it succeeds with TRUE.
ListForVerification(store) == UNION {EntriesOf(n, store[n]) : n \in 1..MaxArchives}
MetadataCurrent(store) ==
  \A e \in ListForVerification(store) :
    e.digest # NoCopy => /\ store[e.archive].copy[e.path] # NoCopy
                         /\ Described(store[e.archive].copy[e.path]) = Described(e.digest)

ListArchives(store) == {n \in 1..MaxArchives : EntriesOf(n, store[n]) # {}}

\* selectRecoveryArchivesForPrune on the archives, newest first.
SelectForPrune(store, keep) ==
  {n \in ListArchives(store) : Cardinality({m \in ListArchives(store) : m > n}) >= keep}

\* VerifyProgress and the classification of its error.
VerifyStatus(store, e) ==
  IF e.digest = NoCopy THEN "unverified"
  ELSE IF Digest(store[e.archive].copy[e.path]) = e.digest THEN "verified" ELSE "failed"

\* What a power loss may leave of an archive.  Files and their directories are synced one by
\* one, but a copy is reachable for certain only once the chain of its parents is synced.
CopiesLeft(a) ==
  {[p \in Paths |-> IF p \in gone THEN NoCopy ELSE a.copy[p]] : gone \in SUBSET (Paths \ a.synced)}
EntriesLeft(a) == {a.entry, [p \in Paths |-> IF p \in a.filed THEN a.entry[p] ELSE NoCopy]}
LeftOf(a, place, copy, entry) ==
  [a EXCEPT !.place = place, !.durable = place, !.copy = copy, !.entry = entry,
            !.synced = {p \in Paths : copy[p] # NoCopy}, !.filed = {p \in Paths : entry[p] # NoCopy}]
AfterPowerLoss(a) ==
  {LeftOf(a, place, copy, entry) :
     place \in {a.place, a.durable}, copy \in CopiesLeft(a), entry \in EntriesLeft(a)}
=============================================================================
