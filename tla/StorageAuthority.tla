--------------------------- MODULE StorageAuthority ---------------------------
(* The Storage Authority (core/storage_authority): a registry of managed      *)
(* locations over directories that outlive their entries, retention that      *)
(* deletes their oldest files and archives that copy them. Every operation is *)
(* synchronous; what happens on the disk otherwise is an external step.       *)
EXTENDS Naturals, Sequences, SequencesExt, FiniteSetsExt

CONSTANTS
  Locations,    \* (domain, purpose) pairs
  ArchiveOf,    \* location -> the one its archives are kept in, for those that are archived
  Files,        \* files: a name with a content
  Policies,     \* retention policies: [ages, keep], keep is None for any number of files
  None,
  MaxEntries, MaxArchives, MaxFiles    \* bounds of the model

VARIABLES
  entries,      \* StorageRegistry.byId, in order: [location, isFile, policy, stage, backup]
  index,        \* byDomainPurpose: location -> the number of its entry, or None
  directories,  \* location -> its files by age [file, old], None when there is no directory
  archives,     \* [source, location, checksums, validated]
  stored        \* archive -> the files of its directory

vars == <<entries, index, directories, archives, stored>>

File == [file : Files, old : BOOLEAN]

StorageAssumption ==
  /\ DOMAIN ArchiveOf \subseteq Locations /\ Range(ArchiveOf) \subseteq Locations
  /\ \A p \in Policies : p = None \/ (p.ages \in BOOLEAN /\ p.keep \in Nat \union {None})
  /\ None \notin Nat \union Seq(File)
  /\ MaxEntries \in Nat /\ MaxArchives \in Nat /\ MaxFiles \in Nat

Init ==
  /\ entries = <<>>
  /\ index = [l \in Locations |-> None]
  /\ directories = [l \in Locations |-> None]
  /\ archives = <<>> /\ stored = <<>>

Stages == {"allocated", "active", "archived", "retained", "expired", "deleted"}
Entry == [location : Locations, isFile : BOOLEAN, policy : Policies \union {None}, stage : Stages,
          backup : {"none", "backed-up"}]

\* An entry that was released is out of the registry, which is the deleted stage here.
Live == {id \in DOMAIN entries : entries[id].stage # "deleted"}

Transitions ==
  [allocated |-> {"active", "deleted"}, active |-> {"archived", "expired", "deleted"},
   archived  |-> {"retained", "deleted"}, retained |-> {"expired", "deleted"},
   expired   |-> {"deleted"}, deleted |-> {}]
MayMove(id, stage) == id \in Live /\ stage \in Transitions[entries[id].stage]

-----------------------------------------------------------------------------
(* Allocation. *)

Registered(location, isFile, policy) ==
  Append(entries, [location |-> location, isFile |-> isFile, policy |-> policy, stage |-> "allocated", backup |-> "none"])
Made(location) == [directories EXCEPT ![location] = IF @ = None THEN <<>> ELSE @]

\* Where a location has an entry it is returned, whatever the options are. A new one takes
\* over what is in the directory.
Allocate(location, isFile, policy) ==
  /\ index[location] = None /\ Len(entries) < MaxEntries
  /\ entries' = Registered(location, isFile, policy)
  /\ index' = [index EXCEPT ![location] = Len(entries) + 1]
  /\ directories' = Made(location)
  /\ UNCHANGED <<archives, stored>>

Activate(id) ==
  /\ MayMove(id, "active")
  /\ entries' = [entries EXCEPT ![id].stage = "active"]
  /\ UNCHANGED <<index, directories, archives, stored>>

\* Mutant: the index keeps an entry that is released.
MutRelease(id) ==
  /\ MayMove(id, "deleted")
  /\ entries' = [entries EXCEPT ![id].stage = "deleted"]
  /\ UNCHANGED <<index, directories, archives, stored>>

\* The files stay.
Release(id) ==
  /\ MayMove(id, "deleted")
  /\ entries' = [entries EXCEPT ![id].stage = "deleted"]
  /\ index' = [index EXCEPT ![entries[id].location] = None]
  /\ UNCHANGED <<directories, archives, stored>>

-----------------------------------------------------------------------------
(* Retention. *)

\* The files are gone through from the oldest on.
Survivors(policy, files) ==
  FoldLeft(LAMBDA kept, f : IF policy.ages /\ f.old THEN kept ELSE Append(kept, f), <<>>, files)

\* Mutant: the newest files are deleted.
MutRetained(policy, files) ==
  LET survivors == Survivors(policy, files) IN
  SubSeq(survivors, 1, IF policy.keep = None THEN Len(survivors) ELSE Min({policy.keep, Len(survivors)}))

\* The files of a directory are counted without its subdirectories, where archives are.
Retained(policy, files) ==
  LET survivors == Survivors(policy, files) IN
  IF policy.keep = None \/ Len(survivors) <= policy.keep THEN survivors
  ELSE SubSeq(survivors, Len(survivors) - policy.keep + 1, Len(survivors))

Swept(id) == id \in Live /\ ~entries[id].isFile /\ entries[id].policy # None

EnforceRetention(id) ==
  /\ Swept(id) /\ directories[entries[id].location] # None
  /\ directories' = [directories EXCEPT ![entries[id].location] = Retained(entries[id].policy, @)]
  /\ UNCHANGED <<entries, index, archives, stored>>

\* The entries in the order of the registry. A directory that is missing makes the sweep throw,
\* and the entries after it are left as they are.
EnforceAllRetention ==
  LET gone == {id \in Live : Swept(id) /\ directories[entries[id].location] = None}
      reached(l) == index[l] # None /\ Swept(index[l]) /\ \A id \in gone : index[l] < id IN
  /\ directories' = [l \in Locations |-> IF reached(l) THEN Retained(entries[index[l]].policy, directories[l])
                                         ELSE directories[l]]
  /\ UNCHANGED <<entries, index, archives, stored>>

-----------------------------------------------------------------------------
(* Archives. *)

\* The files of a directory and of the archives below it.
CollectFiles(location) ==
  {f.file : f \in ToSet(directories[location])}
  \union UNION {{<<a, f>> : f \in stored[a]} : a \in {x \in DOMAIN archives : archives[x].location = location}}

\* The location of the archives is allocated before anything can go wrong, and its directory is
\* made again where it is missing, unless the archive is refused before that.
Opened(location, refused) ==
  /\ index[location] # None \/ Len(entries) < MaxEntries
  /\ index' = [index EXCEPT ![location] = IF @ = None THEN Len(entries) + 1 ELSE @]
  /\ directories' = IF refused /\ index[location] # None THEN directories ELSE Made(location)
AfterOpening(location) == IF index[location] = None THEN Registered(location, FALSE, None) ELSE entries

Archivable(id) == MayMove(id, "archived") /\ entries[id].location \in DOMAIN ArchiveOf

Archive(id) ==
  LET source == entries[id].location  root == ArchiveOf[source] IN
  /\ Archivable(id) /\ ~entries[id].isFile /\ directories[source] # None /\ Len(archives) < MaxArchives
  /\ Opened(root, FALSE)
  /\ stored' = Append(stored, CollectFiles(source))
  /\ archives' = Append(archives, [source |-> id, location |-> root, checksums |-> CollectFiles(source), validated |-> None])
  /\ entries' = [AfterOpening(root) EXCEPT ![id].stage = "archived", ![id].backup = "backed-up"]

\* A file, or a directory that is missing.
ArchiveFails(id) ==
  LET source == entries[id].location IN
  /\ Archivable(id) /\ (entries[id].isFile \/ directories[source] = None)
  /\ Opened(ArchiveOf[source], entries[id].isFile) /\ entries' = AfterOpening(ArchiveOf[source])
  /\ UNCHANGED <<archives, stored>>

Valid(a) == archives[a].checksums \subseteq stored[a]

ValidateArchive(a) ==
  /\ archives' = [archives EXCEPT ![a].validated = Valid(a)]
  /\ UNCHANGED <<entries, index, directories, stored>>

-----------------------------------------------------------------------------
(* What else happens on the disk (external). *)

\* Whoever owns a location writes a file.
Without(files, file) ==
  IF \E i \in DOMAIN files : files[i].file = file
  THEN RemoveAt(files, CHOOSE i \in DOMAIN files : files[i].file = file) ELSE files
Write(location, file) ==
  /\ directories[location] # None
  /\ LET others == Without(directories[location], file) IN
       /\ Len(others) < MaxFiles
       /\ directories' = [directories EXCEPT ![location] = Append(others, [file |-> file, old |-> FALSE])]
  /\ UNCHANGED <<entries, index, archives, stored>>

\* Time passes for the oldest file that is not too old yet.
GrowOld(location) ==
  /\ directories[location] # None
  /\ \E i \in DOMAIN directories[location] :
       /\ ~directories[location][i].old /\ \A j \in 1..(i - 1) : directories[location][j].old
       /\ directories' = [directories EXCEPT ![location][i].old = TRUE]
  /\ UNCHANGED <<entries, index, archives, stored>>

\* Somebody deletes a directory, with the archives in it.
RemoveDirectory(location) ==
  /\ directories[location] # None
  /\ directories' = [directories EXCEPT ![location] = None]
  /\ stored' = [a \in DOMAIN stored |-> IF archives[a].location = location THEN {} ELSE stored[a]]
  /\ UNCHANGED <<entries, index, archives>>

\* Archives are written by the authority only.
External ==
  \E l \in Locations :
    \/ RemoveDirectory(l)
    \/ l \notin Range(ArchiveOf) /\ (GrowOld(l) \/ \E f \in Files : Write(l, f))

Next ==
  \/ \E l \in Locations, isFile \in BOOLEAN, p \in Policies : Allocate(l, isFile, p)
  \/ \E id \in DOMAIN entries : Activate(id) \/ Release(id) \/ EnforceRetention(id) \/ Archive(id) \/ ArchiveFails(id)
  \/ EnforceAllRetention
  \/ \E a \in DOMAIN archives : ValidateArchive(a)
  \/ External

Spec == Init /\ [][Next]_vars

-----------------------------------------------------------------------------
(* Properties. *)

\* The registry, the directories and the archives keep their types.
TypeOK ==
  /\ entries \in Seq(Entry) /\ index \in [Locations -> DOMAIN entries \union {None}]
  /\ \A l \in Locations : directories[l] # None => \A i \in DOMAIN directories[l] : directories[l][i] \in File
  /\ Len(archives) = Len(stored) /\ \A a \in DOMAIN archives : archives[a].source \in DOMAIN entries

\* A location has one entry, and the two maps of the registry agree, with entries released and
\* locations allocated again, by archives too.
IndexAgrees ==
  /\ \A id \in Live : index[entries[id].location] = id
  /\ \A l \in Locations : index[l] # None => index[l] \in Live /\ entries[index[l]].location = l

\* What counts as backed up has an archive, made of it and not of an earlier entry of its location.
BackedUpIsArchived ==
  \A id \in Live : (entries[id].stage = "archived" \/ entries[id].backup = "backed-up") =>
    \E a \in DOMAIN archives : archives[a].source = id /\ archives[a].location = ArchiveOf[entries[id].location]

\* No operation of the authority takes a file out of an archive, or any but the oldest out of a
\* directory, or a directory out of an earlier entry's hands when it is allocated again.
OldestGo ==
  \/ External
  \/ /\ \A a \in DOMAIN archives : Valid(a) => Valid(a)'
     /\ \A l \in Locations : directories[l] # None =>
          directories'[l] # None /\ IsSuffix(directories'[l], directories[l])
OldestGoFirst == [][OldestGo]_vars

\* What the code does not keep.
\* "sweeps every entry that has a retention policy" (StorageAuthority.test.ts:68): not behind a
\* directory that is missing.
SweepIsWhole ==
  [][EnforceAllRetention => \A id \in Live : Swept(id) /\ directories[entries[id].location] # None =>
       directories'[entries[id].location] = Retained(entries[id].policy, directories[entries[id].location])]_vars
\* An archive that fails changes nothing: its location stays allocated.
FailureIsClean == [][(\E id \in DOMAIN entries : ArchiveFails(id)) => UNCHANGED entries]_vars
=============================================================================
