----------------------------- MODULE Downloads -----------------------------
(***************************************************************************)
(* The files of the player: RequiredFilesDownloader and XmdsFileDownloader *)
(* fetch what the CMS requires, FileCacheImpl writes it to the disk and    *)
(* records its hash, and XiboApp checks the records when the player starts *)
(* and removes the files when it is told to.                               *)
(*                                                                         *)
(* A regular file (a layout, a medium, a dependency) comes in chunks and   *)
(* is compared with the hash the CMS gave; a resource (the page of a       *)
(* widget) comes whole and has only the time of its last update.           *)
(*                                                                         *)
(* Each file of each session is a task of its own, on threads of its own.  *)
(* A session is one answer to RequiredFiles; after a request that failed   *)
(* two of them may run at once (see Collection).                           *)
(***************************************************************************)
EXTENDS Integers, FiniteSets

CONSTANTS
  Regular,       \* names of the regular files
  Resources,     \* names of the resources
  Chunks,        \* how many chunks a file comes in
  Requirements,  \* the sets of files that the CMS may require
  Sessions,      \* the sessions that may run at once
  MaxVersion,    \* bound on the versions of a file
  MaxTimestamp,  \* the last time that an int holds
  MaxFaults      \* bound on all that goes wrong, purges included

Files    == Regular \cup Resources
Versions == 1..MaxVersion

ASSUME DownloadsAssumption ==
  /\ Regular \cap Resources = {}
  /\ Chunks \in [Files -> Nat \ {0}]
  /\ \A f \in Resources : Chunks[f] = 1
  /\ Requirements \subseteq SUBSET Files
  /\ MaxVersion \in Nat \ {0}
  /\ MaxTimestamp \in Nat
  /\ MaxFaults \in Nat

VARIABLES
  required,   \* the CMS: the version of each file, NoVersion if not required
  disk,       \* what is in the directory of resources
  entries,    \* fileCache_, the entry of each file
  saved,      \* cacheFile_, the same on the disk
  tasks,      \* the download of each file in each session
  purging,    \* the files that purgeAll has still to mark
  disturbed,  \* files that a race, a full disk or a crash has spoiled
  faults      \* how much may still go wrong

vars == <<required, disk, entries, saved, tasks, purging, disturbed, faults>>

-----------------------------------------------------------------------------
(* Contents, hashes and entries                                            *)

Absent  == -2
Garbled == -1   \* neither empty nor any version
Empty   == 0
Contents == {Absent, Garbled, Empty} \cup Versions
Hashes   == Contents \ {Absent}

(* Fault to be caught: a file that is missing has no hash.                 *)
HashOfFile(content) == content

(* A file that cannot be read hashes like an empty one.                    *)
HashOf(content) == IF content = Absent THEN Empty ELSE content

NoVersion == 0
NoDate    == 0

Entry == [known : BOOLEAN, md5 : Hashes, updated : Versions \cup {NoDate},
          valid : BOOLEAN]

NoEntry == [known |-> FALSE, md5 |-> Empty, updated |-> NoDate, valid |-> FALSE]
NoEntries == [f \in Files |-> NoEntry]

MarkAsInvalid(entry) == [entry EXCEPT !.valid = FALSE]

(* A time that does not fit an int counts as none.                         *)
ParseTimestamp(date) == IF date > MaxTimestamp THEN NoDate ELSE date

(* Fault to be caught: a file must be newer than it is.                    *)
CachedLater(entry, f, version) ==
  IF f \in Regular
  THEN entry.known /\ entry.md5 = version
  ELSE entry.updated > version

(* cached: the hash that is wanted, or an update that is not older.        *)
Cached(entry, f, version) ==
  IF f \in Regular
  THEN entry.known /\ entry.md5 = version
  ELSE /\ ParseTimestamp(entry.updated) # NoDate
       /\ entry.updated >= version

(* Fault to be caught: a file that was purged is not missed.               *)
ShouldBeDownloadedAnew(f, version) == ~Cached(entries[f], f, version)

ShouldBeDownloaded(f, version) ==
  ~entries[f].valid \/ ~Cached(entries[f], f, version)

(* Fault to be caught: the hash is not compared with the one required.     *)
NewEntryUncompared(f, hash, version) ==
  [known |-> TRUE, md5 |-> hash, valid |-> TRUE,
   updated |-> IF f \in Regular THEN NoDate ELSE version]

(* addToCache: of a resource nothing is compared.                          *)
NewEntry(f, hash, version) ==
  IF f \in Regular
  THEN [known |-> TRUE, md5 |-> hash, updated |-> NoDate, valid |-> hash = version]
  ELSE [known |-> TRUE, md5 |-> hash, updated |-> version, valid |-> TRUE]

-----------------------------------------------------------------------------
(* Tasks                                                                   *)

Stages == {"done", "listed", "waiting", "received", "opened", "unlinked",
           "written", "hashed"}

Task == [stage : Stages, version : Versions \cup {NoDate}, left : Nat,
         content : Contents, hash : Hashes, spoiled : BOOLEAN]

NoTask == [stage |-> "done", version |-> NoDate, left |-> 0,
           content |-> Absent, hash |-> Empty, spoiled |-> FALSE]

NoTasks == [s \in Sessions |-> [f \in Files |-> NoTask]]

(* From the opening of the file to the end of addToCache.                  *)
IsSaving(task) == task.stage \in {"opened", "unlinked", "written", "hashed"}
BeingSaved(f)  == \E s \in Sessions : IsSaving(tasks[s][f])
Active(s)      == \E f \in Files : tasks[s][f].stage # "done"

(* Something happens to the file that other tasks are saving.              *)
Spoil(task) == IF IsSaving(task) THEN [task EXCEPT !.spoiled = TRUE] ELSE task

(* The tasks when that of s becomes task and has touched the file.         *)
Touching(s, f, task) ==
  [t \in Sessions |->
     [tasks[t] EXCEPT ![f] = IF t = s THEN task ELSE Spoil(@)]]

Becomes(s, f, task) == tasks' = [tasks EXCEPT ![s][f] = task]

Faulty == faults > 0 /\ faults' = faults - 1

(* The CMS has a new version of a file.                                    *)
Publish(f) ==
  /\ required[f] # NoVersion
  /\ required[f] < MaxVersion
  /\ required' = [required EXCEPT ![f] = @ + 1]
  /\ UNCHANGED <<disk, entries, saved, tasks, purging, disturbed, faults>>

(* onRequiredFiles: a session gets its list.  One that runs beside another *)
(* counts as a fault: it takes a request that failed.                      *)
RequiredFiles(s) ==
  /\ ~Active(s)
  /\ IF \E t \in Sessions : Active(t) THEN Faulty ELSE UNCHANGED faults
  /\ tasks' = [tasks EXCEPT ![s] =
                 [f \in Files |->
                    IF required[f] = NoVersion THEN NoTask
                    ELSE [NoTask EXCEPT !.stage = "listed",
                                        !.version = required[f]]]]
  /\ UNCHANGED <<required, disk, entries, saved, purging, disturbed>>

(* downloadAll, of one file.                                               *)
Download(s, f) ==
  LET task == tasks[s][f]
  IN  /\ task.stage = "listed"
      /\ IF ShouldBeDownloaded(f, task.version)
         THEN Becomes(s, f, [task EXCEPT !.stage = "waiting", !.left = Chunks[f]])
         ELSE Becomes(s, f, NoTask)
      /\ UNCHANGED <<required, disk, entries, saved, purging, disturbed, faults>>

(* Chunks that come from two versions make up neither.                     *)
Combine(task, f, chunk) ==
  IF task.left = Chunks[f] \/ task.content = chunk THEN chunk ELSE Garbled

(* A chunk, of the version the CMS has at that time.                       *)
Answer(s, f) ==
  LET task == tasks[s][f]
  IN  /\ task.stage = "waiting"
      /\ \/ UNCHANGED faults
            /\ Becomes(s, f, [task EXCEPT
                 !.left = @ - 1,
                 !.content = Combine(task, f, required[f]),
                 !.stage = IF task.left = 1 THEN "received" ELSE @])
         \/ f \in Regular /\ Faulty
            /\ Becomes(s, f, [task EXCEPT
                 !.left = @ - 1,
                 !.content = Garbled,
                 !.stage = IF task.left = 1 THEN "received" ELSE @])
      /\ UNCHANGED <<required, disk, entries, saved, purging, disturbed>>

(* Fault to be caught: the error is not looked at.                         *)
FailUnnoticed(s, f) ==
  /\ tasks[s][f].stage = "waiting"
  /\ Faulty
  /\ Becomes(s, f, [tasks[s][f] EXCEPT !.stage = "received", !.content = Empty])
  /\ UNCHANGED <<required, disk, entries, saved, purging, disturbed>>

(* A request of it fails: combineAllChunks gives up, nothing is saved.     *)
Fail(s, f) ==
  /\ tasks[s][f].stage = "waiting"
  /\ Faulty
  /\ Becomes(s, f, NoTask)
  /\ UNCHANGED <<required, disk, entries, saved, purging, disturbed>>

-----------------------------------------------------------------------------
(* FileCacheImpl::save                                                     *)

(* writeToFile opens the file, which empties it; a file that cannot be     *)
(* opened is not noticed.                                                  *)
Open(s, f) ==
  LET task == tasks[s][f]
  IN  /\ task.stage = "received"
      /\ \/ /\ disk' = [disk EXCEPT ![f] = Empty]
            /\ tasks' = Touching(s, f, [task EXCEPT !.stage = "opened",
                                                    !.spoiled = BeingSaved(f)])
            /\ UNCHANGED faults
         \/ /\ Faulty
            /\ Becomes(s, f, [task EXCEPT !.stage = "written", !.spoiled = TRUE])
            /\ UNCHANGED disk
      /\ UNCHANGED <<required, entries, saved, purging, disturbed>>

(* What is on the disk when content is written from the start of it.       *)
Written(old, content) ==
  IF old \in {Empty, content} THEN {content} ELSE {content, Garbled}

(* A disk that is full is not noticed either.  A file that was removed     *)
(* after it was opened is written and nobody sees it.                      *)
Write(s, f) ==
  LET task    == tasks[s][f]
      written == [task EXCEPT !.stage = "written"]
  IN  /\ \/ /\ task.stage = "opened"
            /\ \E content \in Written(disk[f], task.content) :
                 disk' = [disk EXCEPT ![f] = content]
            /\ tasks' = Touching(s, f, written)
            /\ UNCHANGED faults
         \/ /\ task.stage = "opened"
            /\ Faulty
            /\ disk' = [disk EXCEPT ![f] = Garbled]
            /\ tasks' = Touching(s, f, [written EXCEPT !.spoiled = TRUE])
         \/ /\ task.stage = "unlinked"
            /\ Becomes(s, f, written)
            /\ UNCHANGED <<disk, faults>>
      /\ UNCHANGED <<required, entries, saved, purging, disturbed>>

(* The hash is that of the file on the disk, whoever wrote it.             *)
Hash(s, f) ==
  LET task == tasks[s][f]
  IN  /\ task.stage = "written"
      /\ Becomes(s, f, [task EXCEPT !.stage = "hashed",
                                    !.hash = HashOf(disk[f]),
                                    !.spoiled = @ /\ f \in Resources])
      /\ UNCHANGED <<required, disk, entries, saved, purging, disturbed, faults>>

(* addToCache, with saveFileHashes under the same lock.  A cache file that *)
(* could not be written whole cannot be read again.                        *)
AddToCache(s, f) ==
  LET task == tasks[s][f]
  IN  /\ task.stage = "hashed"
      /\ entries' = [entries EXCEPT ![f] = NewEntry(f, task.hash, task.version)]
      /\ \/ saved' = entries' /\ UNCHANGED faults
         \/ saved' = NoEntries /\ Faulty
      /\ disturbed' = IF task.spoiled THEN disturbed \cup {f} ELSE disturbed \ {f}
      /\ Becomes(s, f, NoTask)
      /\ UNCHANGED <<required, disk, purging>>

-----------------------------------------------------------------------------
(* purgeAllCachedResources: the files of the cache are removed, and their  *)
(* entries marked, which is not saved.                                     *)

Unlink(task) ==
  IF task.stage = "opened" THEN [task EXCEPT !.stage = "unlinked"] ELSE task

PurgeAll ==
  /\ purging = {}
  /\ Faulty
  /\ purging' = {f \in Files : entries[f].known}
  /\ disk' = [f \in Files |-> IF f \in purging' THEN Absent ELSE disk[f]]
  /\ tasks' = [s \in Sessions |-> [f \in Files |->
                IF f \in purging' THEN Unlink(Spoil(tasks[s][f])) ELSE tasks[s][f]]]
  /\ UNCHANGED <<required, entries, saved, disturbed>>

PurgeMarks ==
  /\ purging # {}
  /\ entries' = [f \in Files |-> IF f \in purging THEN MarkAsInvalid(entries[f])
                                 ELSE entries[f]]
  /\ purging' = {}
  /\ UNCHANGED <<required, disk, saved, tasks, disturbed, faults>>

-----------------------------------------------------------------------------
(* The start of the player                                                 *)

(* checkResourceDirectory, of one file.                                    *)
Checked(entry, f, content) ==
  IF entry.valid
     /\ \/ content = Absent
        \/ entry.updated = NoDate /\ entry.md5 # HashOf(content)
  THEN MarkAsInvalid(entry) ELSE entry

(* loadFrom and the check of what was loaded.                              *)
Loaded(cacheFile, contents) ==
  [f \in Files |-> Checked(cacheFile[f], f, contents[f])]

(* The cache file of an older player: one whose root is missing is read as *)
(* it is, of one that is no XML each entry is recovered by itself.  A file *)
(* that is neither is lost.                                                *)
Formats == {"missing root", "invalid", "unreadable"}

Recovered(entry) == [entry EXCEPT !.updated = ParseTimestamp(@)]

Migrated(format, cacheFile) ==
  CASE format = "missing root" -> cacheFile
    [] format = "invalid"      -> [f \in Files |-> Recovered(cacheFile[f])]
    [] format = "unreadable"   -> NoEntries

(* What may happen to the files while the player is off: one of them is    *)
(* removed, or a regular one is damaged.                                   *)
Meddled(contents) ==
  {contents} \cup {[contents EXCEPT ![f] = Absent] : f \in Files}
             \cup {[contents EXCEPT ![f] = Garbled] : f \in Regular}

(* The player dies at any point, and the watchdog starts it again.  Dead   *)
(* in the middle of saveFileHashes it leaves an unreadable cache file.     *)
Restart ==
  /\ Faulty
  /\ disk' \in Meddled(disk)
  /\ \/ saved' = saved
     \/ /\ \E s \in Sessions, f \in Files : tasks[s][f].stage = "hashed"
        /\ saved' = NoEntries
  /\ entries' = Loaded(saved', disk')
  /\ tasks' = NoTasks
  /\ purging' = {}
  /\ disturbed' = {f \in Resources : f \in disturbed \/ BeingSaved(f)}
  /\ UNCHANGED required

-----------------------------------------------------------------------------
Init ==
  /\ \E files \in Requirements :
       required = [f \in Files |-> IF f \in files THEN 1 ELSE NoVersion]
  /\ \/ /\ disk = [f \in Files |-> Absent]
        /\ saved = NoEntries
     \/ \E format \in Formats :
          /\ disk \in Meddled([f \in Files |->
                IF required[f] = NoVersion THEN Absent ELSE required[f]])
          /\ saved = Migrated(format, [f \in Files |->
                IF required[f] = NoVersion THEN NoEntry
                ELSE NewEntry(f, required[f], required[f])])
  /\ entries = Loaded(saved, disk)
  /\ tasks = NoTasks
  /\ purging = {}
  /\ disturbed = {}
  /\ faults = MaxFaults

Save(s, f) == Open(s, f) \/ Write(s, f) \/ Hash(s, f) \/ AddToCache(s, f)
Work(s, f) == Download(s, f) \/ Answer(s, f) \/ Save(s, f)

Next ==
  \/ \E f \in Files : Publish(f)
  \/ \E s \in Sessions : RequiredFiles(s)
  \/ \E s \in Sessions, f \in Files : Work(s, f) \/ Fail(s, f)
  \/ PurgeAll
  \/ PurgeMarks
  \/ Restart

Spec == Init /\ [][Next]_vars

(* Threads run, requests are answered or fail, and another collection      *)
(* follows each.                                                           *)
Fairness ==
  /\ \A s \in Sessions, f \in Files : WF_vars(Work(s, f))
  /\ WF_vars(\E s \in Sessions : RequiredFiles(s))
  /\ WF_vars(PurgeMarks)

FairSpec == Spec /\ Fairness

-----------------------------------------------------------------------------
(* Properties                                                              *)

DownloadsTypeOK ==
  /\ required \in [Files -> Versions \cup {NoVersion}]
  /\ disk \in [Files -> Contents]
  /\ entries \in [Files -> Entry]
  /\ saved \in [Files -> Entry]
  /\ tasks \in [Sessions -> [Files -> Task]]
  /\ purging \subseteq Files
  /\ disturbed \subseteq Files
  /\ faults \in 0..MaxFaults

(* The player holds f to be complete, and no thread is replacing it.       *)
Trusted(f) ==
  entries[f].valid /\ ~BeingSaved(f) /\ f \notin purging \cup disturbed

(* FileCacheImpl::valid, of a regular file: the scheduler and the media    *)
(* inventory take its file to be the one whose hash the cache has, and one *)
(* whole version, whatever the chunks were, whatever happened to the file  *)
(* before the player was started.                                          *)
RegularFilesAreWhole ==
  \A f \in Regular : Trusted(f) => disk[f] = entries[f].md5 /\ disk[f] \in Versions

(* A resource is passed over by a collection only if its entry has the     *)
(* very time that is required, whatever failed before.  Its file is at     *)
(* least as new as that if it was saved undisturbed: nothing is compared,  *)
(* so a full disk, a file that was not opened, a purge or a crash in the   *)
(* middle of the saving, or another session that saves it too, leaves a    *)
(* file that is taken for what it is not.                                  *)
ResourcesAreNew ==
  \A f \in Resources :
    /\ ~ShouldBeDownloaded(f, required[f]) => entries[f].updated = required[f]
    /\ Trusted(f) => disk[f] \in Versions /\ disk[f] >= entries[f].updated

(* RequiredFilesDownloader: once nothing goes wrong any more, every file   *)
(* arrives and stays, of the version that is required.                     *)
Arrived(f) ==
  required[f] # NoVersion =>
    entries[f].valid /\ disk[f] = required[f] /\ ~BeingSaved(f)

FilesArrive == \A f \in Files : <>[](f \in disturbed \/ Arrived(f))

(* shouldBeDownloaded: what has arrived is not fetched again.              *)
DownloadsCease == <>[](\A s \in Sessions, f \in Files :
                         tasks[s][f].stage \in {"done", "listed"})
=============================================================================
