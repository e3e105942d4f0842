-------------------------- MODULE Downloads_proofs --------------------------
(***************************************************************************)
(* What the cache calls valid is whole and new, for every set of files,    *)
(* any number of chunks, sessions, versions and faults.                    *)
(***************************************************************************)
EXTENDS Downloads, TLAPS

(* A content that is one version of a resource, not older than `version'.  *)
NewEnough(content, version) == content \in Versions /\ content >= version

(* One task for the file f, of which the CMS has version `newest' and the  *)
(* disk `content'.  Of a regular file only the hash matters; a resource    *)
(* has none that is compared, so each step up to the hash must keep that   *)
(* what it carries is new enough, unless the task is spoiled.              *)
TaskInv(task, f, newest, content) ==
  /\ task \in Task
  /\ task.stage # "done" => task.version \in Versions /\ task.version <= newest
  /\ task.stage = "waiting" => task.left > 0 /\ (f \in Resources => task.left = 1)
  /\ task.stage = "unlinked" => task.spoiled
  /\ f \in Regular /\ task.stage = "hashed" /\ ~task.spoiled =>
       task.hash = HashOf(content)
  /\ f \in Resources =>
       /\ task.stage \in {"received", "opened", "unlinked"} =>
            NewEnough(task.content, task.version)
       /\ task.stage = "opened" /\ ~task.spoiled => content = Empty
       /\ task.stage \in {"written", "hashed"} /\ ~task.spoiled =>
            NewEnough(content, task.version)

TasksInv ==
  \A s \in Sessions, f \in Files : TaskInv(tasks[s][f], f, required[f], disk[f])

(* What an entry says of its file by itself.                               *)
EntryInv(entry, f) ==
  f \in Regular => entry.updated = NoDate /\ (entry.valid => entry.md5 \in Versions)

(* An entry of a resource, on the disk or in memory: if its file is there  *)
(* at all, it is new enough.  This holds of files that purgeAll has        *)
(* removed and not marked yet, so it survives a crash in between.          *)
Backed(entry, f) ==
  entry.valid /\ ~BeingSaved(f) /\ f \notin disturbed /\ disk[f] # Absent =>
    NewEnough(disk[f], entry.updated)

EntriesInv ==
  \A f \in Files :
    /\ EntryInv(entries[f], f) /\ EntryInv(saved[f], f)
    /\ f \in Resources => Backed(entries[f], f) /\ Backed(saved[f], f)

(* What the player trusts is there.                                        *)
TrustedIsThere ==
  /\ RegularFilesAreWhole
  /\ \A f \in Resources : Trusted(f) => disk[f] # Absent

DownloadsInv == DownloadsTypeOK /\ TasksInv /\ EntriesInv /\ TrustedIsThere

-----------------------------------------------------------------------------
(* Lemmas about one task                                                   *)

LEMMA FilesAreOfOneKind ==
  ASSUME NEW f \in Files
  PROVE  f \in Regular <=> f \notin Resources
BY DownloadsAssumption DEF Files

LEMMA NoTaskHolds ==
  ASSUME NEW f, NEW newest, NEW content
  PROVE  TaskInv(NoTask, f, newest, content) /\ ~IsSaving(NoTask)
BY DEF TaskInv, NoTask, Task, Stages, Contents, Hashes, Absent, Empty, Garbled, NoDate, IsSaving

(* A task that is spoiled does not care what is on the disk, and one that  *)
(* is not saving never looks at it.                                        *)
LEMMA SpoilKeeps ==
  ASSUME NEW task, NEW f, NEW newest, NEW old, NEW new, TaskInv(task, f, newest, old)
  PROVE  /\ TaskInv(Spoil(task), f, newest, new)
         /\ IsSaving(Spoil(task)) <=> IsSaving(task)
<1>1. CASE IsSaving(task)
  <2>1. Spoil(task) = [task EXCEPT !.spoiled = TRUE]
    BY <1>1 DEF Spoil
  <2> QED BY <2>1 DEF TaskInv, Task, IsSaving
<1>2. CASE ~IsSaving(task)
  BY <1>2, SMT DEF TaskInv, Spoil, IsSaving
<1> QED BY <1>1, <1>2

(* A file that is removed does not disturb a task that is spoiled anyhow.  *)
LEMMA UnlinkKeeps ==
  ASSUME NEW task, NEW f, NEW newest, NEW content, TaskInv(task, f, newest, content),
         IsSaving(task) => task.spoiled
  PROVE  /\ TaskInv(Unlink(task), f, newest, content)
         /\ IsSaving(Unlink(task)) <=> IsSaving(task)
<1>1. CASE task.stage = "opened"
  <2>1. Unlink(task) = [task EXCEPT !.stage = "unlinked"]
    BY <1>1 DEF Unlink
  <2> QED BY <1>1, <2>1 DEF TaskInv, Task, Stages, IsSaving
<1>2. CASE task.stage # "opened"
  BY <1>2 DEF Unlink
<1> QED BY <1>1, <1>2

(* A newer version at the CMS changes nothing for a task.                  *)
LEMMA NewerKeeps ==
  ASSUME NEW task, NEW f, NEW newest \in Int, NEW newer \in Int, NEW content,
         newest <= newer, TaskInv(task, f, newest, content)
  PROVE  TaskInv(task, f, newer, content)
<1>1. task.version \in Versions => task.version \in Int
  BY DEF Versions
<1> QED BY <1>1 DEF TaskInv

-----------------------------------------------------------------------------
(* Lemmas about the steps of a task                                        *)

(* A step of a task that leaves the disk alone.                            *)
LEMMA BecomesKeeps ==
  ASSUME DownloadsTypeOK, TasksInv, NEW s \in Sessions, NEW f \in Files, NEW task,
         Becomes(s, f, task), TaskInv(task, f, required[f], disk[f]),
         UNCHANGED <<required, disk>>
  PROVE  /\ TasksInv' /\ tasks' \in [Sessions -> [Files -> Task]]
         /\ \A g \in Files : g # f => (BeingSaved(g)' <=> BeingSaved(g))
         /\ IsSaving(task) => BeingSaved(f)'
         /\ (IsSaving(task) <=> IsSaving(tasks[s][f])) =>
              (BeingSaved(f)' <=> BeingSaved(f))
<1>1. tasks \in [Sessions -> [Files -> Task]]
  BY DEF DownloadsTypeOK
<1>2. task \in Task
  BY DEF TaskInv
<1>3. \A t \in Sessions, g \in Files :
        tasks'[t][g] = IF t = s /\ g = f THEN task ELSE tasks[t][g]
  BY <1>1 DEF Becomes
<1>4. tasks' \in [Sessions -> [Files -> Task]]
  BY <1>1, <1>2 DEF Becomes
<1>5. TasksInv'
  BY <1>3 DEF TasksInv
<1>6. ASSUME NEW g \in Files, g # f PROVE BeingSaved(g)' <=> BeingSaved(g)
  BY <1>3, <1>6 DEF BeingSaved
<1>7. IsSaving(task) => BeingSaved(f)'
  BY <1>3 DEF BeingSaved
<1>8. ASSUME IsSaving(task) <=> IsSaving(tasks[s][f])
      PROVE  BeingSaved(f)' <=> BeingSaved(f)
  BY <1>3, <1>8 DEF BeingSaved
<1> QED BY <1>4, <1>5, <1>6, <1>7, <1>8

(* A step of a task that has changed what is on the disk.                  *)
LEMMA TouchingKeeps ==
  ASSUME DownloadsTypeOK, TasksInv, NEW s \in Sessions, NEW f \in Files, NEW task,
         NEW content \in Contents, disk' = [disk EXCEPT ![f] = content],
         tasks' = Touching(s, f, task), TaskInv(task, f, required[f], content),
         IsSaving(task), UNCHANGED required
  PROVE  /\ TasksInv' /\ tasks' \in [Sessions -> [Files -> Task]]
         /\ disk' \in [Files -> Contents]
         /\ \A g \in Files : g # f => (BeingSaved(g)' <=> BeingSaved(g)) /\ disk'[g] = disk[g]
         /\ BeingSaved(f)'
<1>1. tasks \in [Sessions -> [Files -> Task]] /\ disk \in [Files -> Contents]
  BY DEF DownloadsTypeOK
<1>2. \A t \in Sessions, g \in Files :
        tasks'[t][g] = IF g # f THEN tasks[t][g]
                       ELSE IF t = s THEN task ELSE Spoil(tasks[t][f])
  BY <1>1 DEF Touching
<1>3. \A t \in Sessions : TaskInv(Spoil(tasks[t][f]), f, required[f], content)
  BY SpoilKeeps DEF TasksInv
<1>4. /\ disk' \in [Files -> Contents]
      /\ \A g \in Files : disk'[g] = IF g = f THEN content ELSE disk[g]
  BY <1>1
<1>5. TasksInv'
  BY <1>2, <1>3, <1>4 DEF TasksInv
<1>6. tasks' \in [Sessions -> [Files -> Task]]
  <2>1. \A t \in Sessions, g \in Files : tasks'[t][g] \in Task
    BY <1>5 DEF TasksInv, TaskInv
  <2>2. /\ tasks' = [t \in Sessions |-> tasks'[t]]
        /\ \A t \in Sessions : tasks'[t] = [g \in Files |-> tasks'[t][g]]
    BY <1>1 DEF Touching
  <2> QED BY <2>1, <2>2
<1>7. ASSUME NEW g \in Files, g # f PROVE BeingSaved(g)' <=> BeingSaved(g)
  BY <1>2, <1>7 DEF BeingSaved
<1>8. BeingSaved(f)'
  BY <1>2 DEF BeingSaved
<1> QED BY <1>4, <1>5, <1>6, <1>7, <1>8

(* What holds of a file is kept by a step that leaves it and its entries   *)
(* alone, or that is saving it.                                            *)
LEMMA SavingKeeps ==
  ASSUME EntriesInv, TrustedIsThere, UNCHANGED <<entries, saved, purging, disturbed>>,
         \A g \in Files : BeingSaved(g)' \/ (~BeingSaved(g) /\ disk'[g] = disk[g])
  PROVE  EntriesInv' /\ TrustedIsThere'
<1>1. EntriesInv'
  BY DEF EntriesInv, EntryInv, Backed
<1>2. TrustedIsThere'
  BY DEF TrustedIsThere, RegularFilesAreWhole, Trusted, Files
<1> QED BY <1>1, <1>2

-----------------------------------------------------------------------------
(* The initial states                                                      *)

LEMMA EntryOfVersion ==
  ASSUME NEW f \in Files, NEW hash \in Hashes, NEW version \in Versions
  PROVE  /\ NewEntry(f, hash, version) \in Entry /\ EntryInv(NewEntry(f, hash, version), f)
         /\ NewEntry(f, hash, version).known
BY FilesAreOfOneKind DEF NewEntry, Entry, EntryInv

LEMMA NoEntryHolds ==
  ASSUME NEW f \in Files
  PROVE  NoEntry \in Entry /\ EntryInv(NoEntry, f) /\ ~NoEntry.valid
BY DEF NoEntry, Entry, EntryInv, Hashes, Contents, Absent, Garbled, Empty, NoDate

(* checkResourceDirectory only takes away.                                 *)
LEMMA CheckedHolds ==
  ASSUME NEW f \in Files, NEW entry \in Entry, NEW content \in Contents, EntryInv(entry, f)
  PROVE  /\ Checked(entry, f, content) \in Entry /\ EntryInv(Checked(entry, f, content), f)
         /\ Checked(entry, f, content).updated = entry.updated
         /\ Checked(entry, f, content).valid =>
              /\ entry.valid /\ content # Absent
              /\ f \in Regular => /\ content \in Versions
                                  /\ content = Checked(entry, f, content).md5
BY DEF Checked, MarkAsInvalid, HashOf, EntryInv, Entry, Versions, Empty, NoDate

(* What an older player leaves behind.                                     *)
LEMMA MigratedHolds ==
  ASSUME NEW format \in Formats, NEW cacheFile \in [Files -> Entry],
         \A f \in Files : EntryInv(cacheFile[f], f)
  PROVE  /\ Migrated(format, cacheFile) \in [Files -> Entry]
         /\ \A f \in Files :
              /\ EntryInv(Migrated(format, cacheFile)[f], f)
              /\ Migrated(format, cacheFile)[f].valid => cacheFile[f].valid
              /\ Migrated(format, cacheFile)[f].updated \in {NoDate, cacheFile[f].updated}
<1>1. CASE format = "missing root"
  <2>1. Migrated(format, cacheFile) = cacheFile
    BY <1>1 DEF Migrated
  <2> QED BY <2>1
<1>2. CASE format = "unreadable"
  <2>1. Migrated(format, cacheFile) = NoEntries
    BY <1>2 DEF Migrated
  <2>2. NoEntry.updated = NoDate
    BY DEF NoEntry
  <2> QED BY <2>1, <2>2, NoEntryHolds DEF NoEntries
<1>3. CASE format = "invalid"
  <2>1. Migrated(format, cacheFile) = [f \in Files |-> Recovered(cacheFile[f])]
    BY <1>3 DEF Migrated
  <2>2. ASSUME NEW entry \in Entry
        PROVE  /\ Recovered(entry) \in Entry
               /\ Recovered(entry).updated \in {NoDate, entry.updated}
               /\ Recovered(entry).valid = entry.valid /\ Recovered(entry).md5 = entry.md5
    BY DEF Recovered, ParseTimestamp, Entry
  <2> QED BY <2>1, <2>2 DEF EntryInv
<1> QED BY <1>1, <1>2, <1>3 DEF Formats

LEMMA MeddledHolds ==
  ASSUME NEW contents \in [Files -> Contents], NEW left \in Meddled(contents)
  PROVE  /\ left \in [Files -> Contents]
         /\ \A f \in Resources : left[f] \in {Absent, contents[f]}
<1>1. CASE left = contents
  BY <1>1 DEF Files
<1>2. ASSUME NEW f \in Files, left = [contents EXCEPT ![f] = Absent]
      PROVE  /\ left \in [Files -> Contents]
             /\ \A g \in Resources : left[g] \in {Absent, contents[g]}
  BY <1>2 DEF Files, Contents
<1>3. ASSUME NEW f \in Regular, left = [contents EXCEPT ![f] = Garbled]
      PROVE  /\ left \in [Files -> Contents]
             /\ \A g \in Resources : left[g] \in {Absent, contents[g]}
  BY <1>3, DownloadsAssumption DEF Files, Contents
<1> QED BY <1>1, <1>2, <1>3 DEF Meddled

LEMMA InitHolds ==
  ASSUME Init
  PROVE  DownloadsInv
<1>1. /\ required \in [Files -> Versions \cup {NoVersion}]
      /\ \A f \in Files : required[f] = NoVersion \/ required[f] \in Versions
  BY DownloadsAssumption DEF Init, Versions
<1>2. /\ tasks = NoTasks /\ purging = {} /\ disturbed = {} /\ faults = MaxFaults
      /\ entries = Loaded(saved, disk)
  BY DEF Init
<1>3. /\ disk \in [Files -> Contents] /\ saved \in [Files -> Entry]
      /\ \A f \in Files : EntryInv(saved[f], f)
      /\ \A f \in Resources : saved[f].valid /\ disk[f] # Absent =>
           NewEnough(disk[f], saved[f].updated)
  <2>1. CASE disk = [f \in Files |-> Absent] /\ saved = NoEntries
    BY <2>1, NoEntryHolds DEF NoEntries, Contents, Files
  <2>2. ASSUME NEW format \in Formats,
               disk \in Meddled([f \in Files |->
                  IF required[f] = NoVersion THEN Absent ELSE required[f]]),
               saved = Migrated(format, [f \in Files |->
                  IF required[f] = NoVersion THEN NoEntry
                  ELSE NewEntry(f, required[f], required[f])])
        PROVE  /\ disk \in [Files -> Contents] /\ saved \in [Files -> Entry]
               /\ \A f \in Files : EntryInv(saved[f], f)
               /\ \A f \in Resources : saved[f].valid /\ disk[f] # Absent =>
                    NewEnough(disk[f], saved[f].updated)
    <3> DEFINE before == [f \in Files |-> IF required[f] = NoVersion THEN Absent ELSE required[f]]
               file   == [f \in Files |-> IF required[f] = NoVersion THEN NoEntry
                                          ELSE NewEntry(f, required[f], required[f])]
    <3>1. before \in [Files -> Contents]
      BY <1>1 DEF Contents
    <3>2. disk \in [Files -> Contents] /\ \A f \in Resources : disk[f] \in {Absent, before[f]}
      <4> HIDE DEF before
      <4>1. disk \in Meddled(before)
        BY <2>2 DEF before
      <4> QED BY <3>1, <4>1, MeddledHolds
    <3>3. \A f \in Files : required[f] # NoVersion => required[f] \in Hashes /\ required[f] \in Versions
      BY <1>1 DEF Hashes, Contents, Absent, Versions
    <3>4. /\ file \in [Files -> Entry]
          /\ \A f \in Files :
               /\ EntryInv(file[f], f)
               /\ file[f].valid => required[f] # NoVersion
               /\ f \in Resources /\ file[f].valid => file[f].updated = required[f]
      <4>1. ASSUME NEW f \in Files
            PROVE  /\ file[f] \in Entry /\ EntryInv(file[f], f)
                   /\ file[f].valid => required[f] # NoVersion
                   /\ f \in Resources /\ file[f].valid => file[f].updated = required[f]
        <5>1. CASE required[f] = NoVersion
          BY <5>1, NoEntryHolds
        <5>2. CASE required[f] # NoVersion
          <6>1. file[f] = NewEntry(f, required[f], required[f])
            BY <5>2
          <6>2. f \in Resources => file[f].updated = required[f]
            BY <6>1, FilesAreOfOneKind DEF NewEntry
          <6> QED BY <3>3, <5>2, <6>1, <6>2, EntryOfVersion
        <5> QED BY <5>1, <5>2
      <4> QED BY <4>1
    <3>5. /\ saved \in [Files -> Entry]
          /\ \A f \in Files :
               /\ EntryInv(saved[f], f)
               /\ saved[f].valid => file[f].valid /\ saved[f].updated \in {NoDate, file[f].updated}
      <4> HIDE DEF file
      <4>1. saved = Migrated(format, file)
        BY <2>2 DEF file
      <4> QED BY <3>4, <4>1, MigratedHolds
    <3>6. ASSUME NEW f \in Resources, saved[f].valid, disk[f] # Absent
          PROVE  NewEnough(disk[f], saved[f].updated)
      <4>1. f \in Files /\ required[f] \in Versions
        BY <1>1, <3>4, <3>5, <3>6 DEF Files
      <4>2. disk[f] = required[f]
        BY <3>2, <3>6, <4>1 DEF Versions, NoVersion
      <4>3. saved[f].updated \in {NoDate, required[f]}
        BY <3>4, <3>5, <3>6, <4>1
      <4> QED BY <4>1, <4>2, <4>3 DEF NewEnough, Versions, NoDate
    <3> QED BY <3>2, <3>5, <3>6
  <2> QED BY <2>1, <2>2 DEF Init
<1>4. \A f \in Files : entries[f] = Checked(saved[f], f, disk[f])
  BY <1>2 DEF Loaded
<1>5. \A f \in Files : ~BeingSaved(f)
  BY <1>2, NoTaskHolds DEF BeingSaved, NoTasks
<1>6. DownloadsTypeOK
  <2>1. entries \in [Files -> Entry]
    BY <1>2, <1>3, CheckedHolds DEF Loaded
  <2>2. tasks \in [Sessions -> [Files -> Task]]
    BY <1>2, NoTaskHolds DEF NoTasks, TaskInv
  <2>3. faults \in 0..MaxFaults
    BY <1>2, DownloadsAssumption
  <2> QED BY <1>1, <1>2, <1>3, <2>1, <2>2, <2>3 DEF DownloadsTypeOK
<1>7. TasksInv
  BY <1>2, NoTaskHolds DEF TasksInv, NoTasks
<1>8. EntriesInv
  BY <1>3, <1>4, CheckedHolds DEF EntriesInv, Backed
<1>9. TrustedIsThere
  BY <1>3, <1>4, CheckedHolds DEF TrustedIsThere, RegularFilesAreWhole, Trusted, Files
<1> QED BY <1>6, <1>7, <1>8, <1>9 DEF DownloadsInv

-----------------------------------------------------------------------------
(* The steps                                                               *)

LEMMA FaultyType ==
  ASSUME DownloadsTypeOK, Faulty \/ UNCHANGED faults
  PROVE  faults' \in 0..MaxFaults
BY DownloadsAssumption DEF DownloadsTypeOK, Faulty

LEMMA PublishKeeps ==
  ASSUME DownloadsInv, NEW f \in Files, Publish(f)
  PROVE  DownloadsInv'
<1> USE DEF DownloadsInv
<1>1. /\ required \in [Files -> Versions \cup {NoVersion}]
      /\ \A g \in Files : required[g] \in Int
      /\ required' = [required EXCEPT ![f] = @ + 1] /\ required[f] # NoVersion
      /\ required[f] < MaxVersion
      /\ UNCHANGED <<disk, entries, saved, tasks, purging, disturbed, faults>>
  BY DEF Publish, DownloadsTypeOK, Versions, NoVersion
<1>2. \A g \in Files : required'[g] \in Int /\ required[g] <= required'[g]
  BY <1>1
<1>3. required' \in [Files -> Versions \cup {NoVersion}]
  <2>1. required[f] + 1 \in Versions
    BY <1>1, DownloadsAssumption DEF Versions, NoVersion
  <2> QED BY <1>1, <2>1
<1>4. DownloadsTypeOK'
  BY <1>1, <1>3 DEF DownloadsTypeOK
<1>5. TasksInv'
  BY <1>1, <1>2, NewerKeeps DEF TasksInv
<1>6. \A g \in Files : BeingSaved(g)' <=> BeingSaved(g)
  BY <1>1 DEF BeingSaved
<1> QED BY <1>1, <1>4, <1>5, <1>6, SavingKeeps

LEMMA RequiredFilesKeeps ==
  ASSUME DownloadsInv, NEW s \in Sessions, RequiredFiles(s)
  PROVE  DownloadsInv'
<1> USE DEF DownloadsInv
<1> DEFINE listed == [f \in Files |-> IF required[f] = NoVersion THEN NoTask
                                      ELSE [NoTask EXCEPT !.stage = "listed", !.version = required[f]]]
<1>1. /\ tasks' = [tasks EXCEPT ![s] = listed]
      /\ UNCHANGED <<required, disk, entries, saved, purging, disturbed>>
      /\ \A f \in Files : tasks[s][f].stage = "done"
  BY DEF RequiredFiles, Active
<1>2. \A f \in Files : required[f] = NoVersion \/ required[f] \in Versions
  BY DEF DownloadsTypeOK
<1>3. ASSUME NEW f \in Files
      PROVE  TaskInv(listed[f], f, required[f], disk[f]) /\ ~IsSaving(listed[f])
  <2>1. CASE required[f] = NoVersion
    BY <2>1, NoTaskHolds
  <2>2. CASE required[f] # NoVersion
    <3>1. listed[f] = [NoTask EXCEPT !.stage = "listed", !.version = required[f]]
      BY <2>2
    <3>2. listed[f].stage = "listed" /\ listed[f].version = required[f] /\ listed[f] \in Task
      <4>1. NoTask \in Task
        BY NoTaskHolds DEF TaskInv
      <4> QED BY <1>2, <2>2, <3>1, <4>1 DEF Task, Stages
    <3>3. required[f] \in Versions /\ required[f] <= required[f]
      BY <1>2, <2>2 DEF Versions
    <3> HIDE DEF listed
    <3> QED BY <3>2, <3>3 DEF TaskInv, IsSaving
  <2> QED BY <2>1, <2>2
<1>4. tasks' \in [Sessions -> [Files -> Task]]
  <2>1. listed \in [Files -> Task]
    BY <1>3 DEF TaskInv
  <2> HIDE DEF listed
  <2> QED BY <1>1, <2>1 DEF DownloadsTypeOK
<1>5. \A t \in Sessions, f \in Files :
        tasks'[t][f] = IF t = s THEN listed[f] ELSE tasks[t][f]
  <2> HIDE DEF listed
  <2> QED BY <1>1 DEF DownloadsTypeOK
<1> HIDE DEF listed
<1>6. TasksInv'
  BY <1>1, <1>3, <1>5 DEF TasksInv
<1>7. \A f \in Files : BeingSaved(f)' <=> BeingSaved(f)
  BY <1>1, <1>3, <1>5 DEF BeingSaved, IsSaving
<1>8. faults' \in 0..MaxFaults
  BY FaultyType DEF RequiredFiles
<1>9. DownloadsTypeOK'
  BY <1>1, <1>4, <1>8 DEF DownloadsTypeOK
<1> QED BY <1>1, <1>6, <1>7, <1>9, SavingKeeps

(* A step of a task that does not begin to save.                           *)
LEMMA QuietStepKeeps ==
  ASSUME DownloadsInv, NEW s \in Sessions, NEW f \in Files, NEW task,
         Becomes(s, f, task), TaskInv(task, f, required[f], disk[f]),
         IsSaving(task) \/ ~IsSaving(tasks[s][f]), Faulty \/ UNCHANGED faults,
         UNCHANGED <<required, disk, entries, saved, purging, disturbed>>
  PROVE  DownloadsInv'
<1> USE DEF DownloadsInv
<1>1. /\ TasksInv' /\ tasks' \in [Sessions -> [Files -> Task]]
      /\ \A g \in Files : g # f => (BeingSaved(g)' <=> BeingSaved(g))
      /\ IsSaving(task) => BeingSaved(f)'
      /\ (IsSaving(task) <=> IsSaving(tasks[s][f])) => (BeingSaved(f)' <=> BeingSaved(f))
  BY BecomesKeeps
<1>2. DownloadsTypeOK'
  BY <1>1, FaultyType DEF DownloadsTypeOK
<1>3. \A g \in Files : BeingSaved(g)' \/ (~BeingSaved(g) /\ disk'[g] = disk[g])
  BY <1>1
<1> QED BY <1>1, <1>2, <1>3, SavingKeeps

LEMMA DownloadKeeps ==
  ASSUME DownloadsInv, NEW s \in Sessions, NEW f \in Files, Download(s, f)
  PROVE  DownloadsInv'
<1> DEFINE task == tasks[s][f]
<1>1. /\ task.stage = "listed" /\ TaskInv(task, f, required[f], disk[f])
      /\ UNCHANGED <<required, disk, entries, saved, purging, disturbed, faults>>
  BY DEF Download, DownloadsInv, TasksInv
<1>2. CASE Becomes(s, f, NoTask)
  BY <1>1, <1>2, NoTaskHolds, QuietStepKeeps DEF IsSaving
<1>3. CASE Becomes(s, f, [task EXCEPT !.stage = "waiting", !.left = Chunks[f]])
  <2> DEFINE waits == [task EXCEPT !.stage = "waiting", !.left = Chunks[f]]
  <2>1. Chunks[f] \in Nat /\ Chunks[f] > 0 /\ (f \in Resources => Chunks[f] = 1)
    BY DownloadsAssumption DEF Files
  <2>2. /\ waits \in Task /\ waits.stage = "waiting" /\ waits.left = Chunks[f]
        /\ waits.version = task.version
    BY <1>1, <2>1 DEF TaskInv, Task, Stages
  <2>3. Becomes(s, f, waits)
    BY <1>3
  <2> HIDE DEF waits
  <2>4. TaskInv(waits, f, required[f], disk[f]) /\ ~IsSaving(waits)
    BY <1>1, <2>1, <2>2 DEF TaskInv, IsSaving
  <2> QED BY <1>1, <2>3, <2>4, QuietStepKeeps DEF IsSaving
<1> QED BY <1>2, <1>3 DEF Download

LEMMA AnswerKeeps ==
  ASSUME DownloadsInv, NEW s \in Sessions, NEW f \in Files, Answer(s, f)
  PROVE  DownloadsInv'
<1> DEFINE task == tasks[s][f]
<1>1. /\ task.stage = "waiting" /\ TaskInv(task, f, required[f], disk[f])
      /\ UNCHANGED <<required, disk, entries, saved, purging, disturbed>>
      /\ Faulty \/ UNCHANGED faults
  BY DEF Answer, DownloadsInv, TasksInv
<1>2. /\ required[f] \in Versions /\ task.version \in Versions /\ task.version <= required[f]
      /\ task.left \in Nat /\ task.left > 0 /\ task \in Task
  BY <1>1 DEF DownloadsInv, DownloadsTypeOK, TaskInv, Task, Versions, NoVersion
<1>3. PICK content \in Contents :
        /\ Becomes(s, f, [task EXCEPT !.left = @ - 1, !.content = content,
                                      !.stage = IF task.left = 1 THEN "received" ELSE @])
        /\ f \in Resources => content = required[f]
  <2>1. ASSUME Becomes(s, f, [task EXCEPT
                 !.left = @ - 1,
                 !.content = Combine(task, f, required[f]),
                 !.stage = IF task.left = 1 THEN "received" ELSE @])
        PROVE  \E content \in Contents :
                 /\ Becomes(s, f, [task EXCEPT !.left = @ - 1, !.content = content,
                                      !.stage = IF task.left = 1 THEN "received" ELSE @])
                 /\ f \in Resources => content = required[f]
    <3>1. Combine(task, f, required[f]) \in Contents
      BY <1>2 DEF Combine, Contents
    <3>2. f \in Resources => Combine(task, f, required[f]) = required[f]
      BY <1>1, DownloadsAssumption DEF Combine, TaskInv
    <3> QED BY <2>1, <3>1, <3>2
  <2>2. ASSUME f \in Regular,
               Becomes(s, f, [task EXCEPT
                 !.left = @ - 1,
                 !.content = Garbled,
                 !.stage = IF task.left = 1 THEN "received" ELSE @])
        PROVE  \E content \in Contents :
                 /\ Becomes(s, f, [task EXCEPT !.left = @ - 1, !.content = content,
                                      !.stage = IF task.left = 1 THEN "received" ELSE @])
                 /\ f \in Resources => content = required[f]
    BY <2>2, FilesAreOfOneKind DEF Contents
  <2> QED BY <2>1, <2>2 DEF Answer
<1> DEFINE next == [task EXCEPT !.left = @ - 1, !.content = content,
                                !.stage = IF task.left = 1 THEN "received" ELSE @]
<1>4. /\ next.left = task.left - 1 /\ next.content = content /\ next.version = task.version
      /\ next.stage = IF task.left = 1 THEN "received" ELSE "waiting"
      /\ next \in Task
  <2>1. task.left - 1 \in Nat /\ (IF task.left = 1 THEN "received" ELSE "waiting") \in Stages
    BY <1>2 DEF Stages
  <2>2. next = [task EXCEPT !.left = task.left - 1, !.content = content,
                            !.stage = IF task.left = 1 THEN "received" ELSE "waiting"]
    BY <1>1
  <2> HIDE DEF next, task
  <2> QED BY <1>2, <2>1, <2>2 DEF Task
<1>5. Becomes(s, f, next)
  BY <1>3
<1> HIDE DEF next
<1>6. TaskInv(next, f, required[f], disk[f]) /\ ~IsSaving(next)
  <2>1. CASE task.left = 1
    BY <1>2, <1>3, <1>4, <2>1 DEF TaskInv, IsSaving, NewEnough, Versions
  <2>2. CASE task.left # 1
    <3>1. next.left > 0 /\ f \notin Resources
      BY <1>1, <1>2, <1>4, <2>2 DEF TaskInv
    <3> QED BY <1>2, <1>4, <2>2, <3>1 DEF TaskInv, IsSaving
  <2> QED BY <2>1, <2>2
<1> QED BY <1>1, <1>5, <1>6, QuietStepKeeps DEF IsSaving

LEMMA FailKeeps ==
  ASSUME DownloadsInv, NEW s \in Sessions, NEW f \in Files, Fail(s, f)
  PROVE  DownloadsInv'
BY NoTaskHolds, QuietStepKeeps DEF Fail, IsSaving

(* A step that writes to the disk.                                         *)
LEMMA WritingStepKeeps ==
  ASSUME DownloadsInv, NEW s \in Sessions, NEW f \in Files, NEW task,
         NEW content \in Contents, disk' = [disk EXCEPT ![f] = content],
         tasks' = Touching(s, f, task), TaskInv(task, f, required[f], content),
         IsSaving(task), Faulty \/ UNCHANGED faults,
         UNCHANGED <<required, entries, saved, purging, disturbed>>
  PROVE  DownloadsInv'
<1> USE DEF DownloadsInv
<1>1. /\ TasksInv' /\ tasks' \in [Sessions -> [Files -> Task]]
      /\ disk' \in [Files -> Contents]
      /\ \A g \in Files : g # f => (BeingSaved(g)' <=> BeingSaved(g)) /\ disk'[g] = disk[g]
      /\ BeingSaved(f)'
  BY TouchingKeeps
<1>2. DownloadsTypeOK'
  BY <1>1, FaultyType DEF DownloadsTypeOK
<1> QED BY <1>1, <1>2, SavingKeeps

LEMMA OpenKeeps ==
  ASSUME DownloadsInv, NEW s \in Sessions, NEW f \in Files, Open(s, f)
  PROVE  DownloadsInv'
<1> DEFINE task == tasks[s][f]
<1>1. /\ task.stage = "received" /\ TaskInv(task, f, required[f], disk[f])
      /\ UNCHANGED <<required, entries, saved, purging, disturbed>>
  BY DEF Open, DownloadsInv, TasksInv
<1>2. ASSUME disk' = [disk EXCEPT ![f] = Empty], UNCHANGED faults,
             NEW spoiled \in BOOLEAN,
             tasks' = Touching(s, f, [task EXCEPT !.stage = "opened", !.spoiled = spoiled])
      PROVE  DownloadsInv'
  <2> DEFINE next == [task EXCEPT !.stage = "opened", !.spoiled = spoiled]
  <2>1. /\ next \in Task /\ next.stage = "opened" /\ next.spoiled = spoiled
        /\ next.version = task.version /\ next.content = task.content
    BY <1>1 DEF TaskInv, Task, Stages
  <2>2. tasks' = Touching(s, f, next)
    BY <1>2
  <2> HIDE DEF next
  <2>3. TaskInv(next, f, required[f], Empty) /\ IsSaving(next)
    BY <1>1, <2>1 DEF TaskInv, IsSaving
  <2>4. Empty \in Contents
    BY DEF Contents
  <2> QED BY <1>1, <1>2, <2>2, <2>3, <2>4, WritingStepKeeps
<1>3. ASSUME Faulty, UNCHANGED disk,
             Becomes(s, f, [task EXCEPT !.stage = "written", !.spoiled = TRUE])
      PROVE  DownloadsInv'
  <2> DEFINE next == [task EXCEPT !.stage = "written", !.spoiled = TRUE]
  <2>1. /\ next \in Task /\ next.stage = "written" /\ next.spoiled
        /\ next.version = task.version
    BY <1>1 DEF TaskInv, Task, Stages
  <2>2. Becomes(s, f, next)
    BY <1>3
  <2> HIDE DEF next
  <2>3. TaskInv(next, f, required[f], disk[f]) /\ IsSaving(next)
    BY <1>1, <2>1 DEF TaskInv, IsSaving
  <2> QED BY <1>1, <1>3, <2>2, <2>3, QuietStepKeeps
<1>4. BeingSaved(f) \in BOOLEAN
  BY DEF BeingSaved
<1> QED BY <1>2, <1>3, <1>4 DEF Open

LEMMA WriteKeeps ==
  ASSUME DownloadsInv, NEW s \in Sessions, NEW f \in Files, Write(s, f)
  PROVE  DownloadsInv'
<1> DEFINE task    == tasks[s][f]
           written == [task EXCEPT !.stage = "written"]
           spoiled == [written EXCEPT !.spoiled = TRUE]
<1>1. /\ TaskInv(task, f, required[f], disk[f])
      /\ UNCHANGED <<required, entries, saved, purging, disturbed>>
  BY DEF Write, DownloadsInv, TasksInv
<1>2. /\ written \in Task /\ written.stage = "written" /\ written.spoiled = task.spoiled
      /\ written.version = task.version
      /\ spoiled \in Task /\ spoiled.stage = "written" /\ spoiled.spoiled
      /\ spoiled.version = task.version
  BY <1>1 DEF TaskInv, Task, Stages
<1>3. IsSaving(written) /\ IsSaving(spoiled)
  BY <1>2 DEF IsSaving
<1>4. task.content \in Contents /\ Garbled \in Contents
  BY <1>1 DEF TaskInv, Task, Contents
<1>5. ASSUME task.stage = "opened", UNCHANGED faults, tasks' = Touching(s, f, written),
             NEW content \in Written(disk[f], task.content),
             disk' = [disk EXCEPT ![f] = content]
      PROVE  DownloadsInv'
  <2>1. content \in Contents
    BY <1>4, <1>5 DEF Written
  <2>2. f \in Resources /\ ~task.spoiled => NewEnough(content, task.version)
    BY <1>1, <1>5 DEF TaskInv, Written
  <2> HIDE DEF written, spoiled
  <2>3. TaskInv(written, f, required[f], content)
    BY <1>1, <1>2, <1>5, <2>2 DEF TaskInv
  <2> QED BY <1>1, <1>3, <1>5, <2>1, <2>3, WritingStepKeeps
<1>6. ASSUME task.stage = "opened", Faulty, tasks' = Touching(s, f, spoiled),
             disk' = [disk EXCEPT ![f] = Garbled]
      PROVE  DownloadsInv'
  <2> HIDE DEF written, spoiled
  <2>1. TaskInv(spoiled, f, required[f], Garbled)
    BY <1>1, <1>2, <1>6 DEF TaskInv
  <2> QED BY <1>1, <1>3, <1>4, <1>6, <2>1, WritingStepKeeps
<1>7. ASSUME task.stage = "unlinked", Becomes(s, f, written), UNCHANGED <<disk, faults>>
      PROVE  DownloadsInv'
  <2> HIDE DEF written, spoiled
  <2>1. TaskInv(written, f, required[f], disk[f])
    BY <1>1, <1>2, <1>7 DEF TaskInv
  <2> QED BY <1>1, <1>3, <1>7, <2>1, QuietStepKeeps
<1> QED BY <1>5, <1>6, <1>7 DEF Write

LEMMA HashKeeps ==
  ASSUME DownloadsInv, NEW s \in Sessions, NEW f \in Files, Hash(s, f)
  PROVE  DownloadsInv'
<1> DEFINE task == tasks[s][f]
           next == [task EXCEPT !.stage = "hashed", !.hash = HashOf(disk[f]),
                                !.spoiled = @ /\ f \in Resources]
<1>1. /\ task.stage = "written" /\ TaskInv(task, f, required[f], disk[f])
      /\ Becomes(s, f, next) /\ disk[f] \in Contents
      /\ UNCHANGED <<required, disk, entries, saved, purging, disturbed, faults>>
  BY DEF Hash, DownloadsInv, DownloadsTypeOK, TasksInv
<1>2. HashOf(disk[f]) \in Hashes
  BY <1>1 DEF HashOf, Hashes, Contents, Absent, Empty
<1>3. /\ next \in Task /\ next.stage = "hashed" /\ next.hash = HashOf(disk[f])
      /\ next.version = task.version /\ (f \in Resources => (next.spoiled <=> task.spoiled))
  BY <1>1, <1>2 DEF TaskInv, Task, Stages
<1> HIDE DEF next
<1>4. TaskInv(next, f, required[f], disk[f]) /\ IsSaving(next)
  BY <1>1, <1>3 DEF TaskInv, IsSaving
<1> QED BY <1>1, <1>4, QuietStepKeeps

LEMMA AddToCacheKeeps ==
  ASSUME DownloadsInv, NEW s \in Sessions, NEW f \in Files, AddToCache(s, f)
  PROVE  DownloadsInv'
<1> USE DEF DownloadsInv
<1> DEFINE task == tasks[s][f]
           entry == NewEntry(f, task.hash, task.version)
<1>1. /\ task.stage = "hashed" /\ TaskInv(task, f, required[f], disk[f])
      /\ entries' = [entries EXCEPT ![f] = entry]
      /\ saved' = entries' \/ saved' = NoEntries
      /\ disturbed' = IF task.spoiled THEN disturbed \cup {f} ELSE disturbed \ {f}
      /\ Becomes(s, f, NoTask) /\ UNCHANGED <<required, disk, purging>>
      /\ Faulty \/ UNCHANGED faults
  BY DEF AddToCache, TasksInv
<1>2. /\ TasksInv' /\ tasks' \in [Sessions -> [Files -> Task]]
      /\ \A g \in Files : g # f => (BeingSaved(g)' <=> BeingSaved(g))
  BY <1>1, NoTaskHolds, BecomesKeeps
<1>3. task.hash \in Hashes /\ task.version \in Versions
  BY <1>1 DEF TaskInv, Task
<1>4. entry \in Entry /\ EntryInv(entry, f)
  BY <1>3, EntryOfVersion
<1>5. /\ f \in Regular => (entry.valid <=> task.hash = task.version) /\ entry.md5 = task.hash
      /\ f \in Resources => entry.updated = task.version
  BY FilesAreOfOneKind DEF NewEntry
<1>6. /\ entries' \in [Files -> Entry] /\ entries'[f] = entry
      /\ \A g \in Files : g # f => entries'[g] = entries[g]
  <2> HIDE DEF entry
  <2> QED BY <1>1, <1>4 DEF DownloadsTypeOK
<1> HIDE DEF entry
<1>7. saved' \in [Files -> Entry]
      /\ \A g \in Files : saved'[g] = entries'[g] \/ saved'[g] = NoEntry
  BY <1>1, <1>6, NoEntryHolds DEF NoEntries
<1>8. DownloadsTypeOK'
  BY <1>1, <1>2, <1>6, <1>7, FaultyType DEF DownloadsTypeOK
<1>9. f \notin disturbed' => ~task.spoiled
  BY <1>1
<1>10. \A g \in Files : g # f => (g \in disturbed' <=> g \in disturbed)
  BY <1>1
<1>11. \A g \in Files : EntryInv(entries'[g], g)
  BY <1>4, <1>6 DEF EntriesInv
<1>12. ASSUME NEW g \in Resources PROVE Backed(entries[g], g)'
  <2>1. g \in Files
    BY DEF Files
  <2>2. CASE g = f
    <3>1. f \notin disturbed' => NewEnough(disk[f], task.version)
      BY <1>1, <1>9, <2>2 DEF TaskInv
    <3> QED BY <1>1, <1>5, <1>6, <2>2, <3>1 DEF Backed
  <2>3. CASE g # f
    BY <1>1, <1>2, <1>6, <1>10, <2>1, <2>3 DEF Backed, EntriesInv
  <2> QED BY <2>2, <2>3
<1>13. EntriesInv'
  <2>1. ASSUME NEW g \in Files
        PROVE  EntryInv(saved'[g], g) /\ (g \in Resources => Backed(saved[g], g)')
    BY <1>7, <1>11, <1>12, NoEntryHolds DEF Backed
  <2> QED BY <1>11, <1>12, <2>1 DEF EntriesInv
<1>14. RegularFilesAreWhole'
  <2>1. ASSUME NEW g \in Regular, Trusted(g)' PROVE disk'[g] = entries'[g].md5 /\ disk'[g] \in Versions
    <3>1. g \in Files
      BY DEF Files
    <3>2. CASE g = f
      <4>1. ~task.spoiled /\ task.hash = task.version
        BY <1>5, <1>6, <1>9, <2>1, <3>2 DEF Trusted
      <4>2. HashOf(disk[f]) = task.version
        BY <1>1, <3>2, <4>1 DEF TaskInv
      <4>3. disk[f] = task.version
        BY <1>3, <4>2 DEF HashOf, Empty, Versions
      <4> QED BY <1>1, <1>3, <1>5, <1>6, <3>2, <4>1, <4>3
    <3>3. CASE g # f
      BY <1>1, <1>2, <1>6, <1>10, <2>1, <3>1, <3>3 DEF TrustedIsThere, RegularFilesAreWhole, Trusted
    <3> QED BY <3>2, <3>3
  <2> QED BY <2>1 DEF RegularFilesAreWhole
<1>15. ASSUME NEW g \in Resources, Trusted(g)' PROVE disk'[g] # Absent
  <2>1. g \in Files
    BY DEF Files
  <2>2. CASE g = f
    <3>1. NewEnough(disk[f], task.version)
      BY <1>1, <1>9, <1>15, <2>2 DEF TaskInv, Trusted
    <3> QED BY <1>1, <2>2, <3>1 DEF NewEnough, Versions, Absent
  <2>3. CASE g # f
    BY <1>1, <1>2, <1>6, <1>10, <1>15, <2>1, <2>3 DEF TrustedIsThere, Trusted
  <2> QED BY <2>2, <2>3
<1> QED BY <1>2, <1>8, <1>13, <1>14, <1>15 DEF TrustedIsThere

LEMMA PurgeAllKeeps ==
  ASSUME DownloadsInv, PurgeAll
  PROVE  DownloadsInv'
<1> USE DEF DownloadsInv
<1> DEFINE purged(s, f) == Unlink(Spoil(tasks[s][f]))
<1>1. /\ purging = {} /\ Faulty
      /\ purging' = {f \in Files : entries[f].known}
      /\ disk' = [f \in Files |-> IF f \in purging' THEN Absent ELSE disk[f]]
      /\ tasks' = [s \in Sessions |-> [f \in Files |->
                     IF f \in purging' THEN purged(s, f) ELSE tasks[s][f]]]
      /\ UNCHANGED <<required, entries, saved, disturbed>>
  BY DEF PurgeAll
<1>2. ASSUME NEW s \in Sessions, NEW f \in Files
      PROVE  /\ TaskInv(purged(s, f), f, required[f], Absent)
             /\ IsSaving(purged(s, f)) <=> IsSaving(tasks[s][f])
  <2>1. /\ TaskInv(Spoil(tasks[s][f]), f, required[f], Absent)
        /\ IsSaving(Spoil(tasks[s][f])) <=> IsSaving(tasks[s][f])
    BY SpoilKeeps DEF TasksInv
  <2>2. IsSaving(Spoil(tasks[s][f])) => Spoil(tasks[s][f]).spoiled
    <3>1. tasks[s][f] \in Task
      BY DEF DownloadsTypeOK
    <3>2. CASE IsSaving(tasks[s][f])
      <4>1. Spoil(tasks[s][f]) = [tasks[s][f] EXCEPT !.spoiled = TRUE]
        BY <3>2 DEF Spoil
      <4> QED BY <3>1, <4>1 DEF Task
    <3> QED BY <2>1, <3>2
  <2> QED BY <2>1, <2>2, UnlinkKeeps
<1> HIDE DEF purged
<1>3. /\ \A f \in Files : disk'[f] = IF f \in purging' THEN Absent ELSE disk[f]
      /\ \A s \in Sessions, f \in Files :
           tasks'[s][f] = IF f \in purging' THEN purged(s, f) ELSE tasks[s][f]
  BY <1>1
<1>4. TasksInv'
  BY <1>1, <1>2, <1>3 DEF TasksInv
<1>5. \A f \in Files : BeingSaved(f)' <=> BeingSaved(f)
  BY <1>2, <1>3 DEF BeingSaved
<1>6. DownloadsTypeOK'
  <2>1. disk' \in [Files -> Contents]
    BY <1>1 DEF DownloadsTypeOK, Contents
  <2>2. \A s \in Sessions, f \in Files : tasks'[s][f] \in Task
    BY <1>4 DEF TasksInv, TaskInv
  <2>3. tasks' \in [Sessions -> [Files -> Task]]
    <3>1. /\ tasks' = [s \in Sessions |-> tasks'[s]]
          /\ \A s \in Sessions : tasks'[s] = [f \in Files |-> tasks'[s][f]]
      BY <1>1
    <3> QED BY <2>2, <3>1
  <2>4. purging' \subseteq Files
    BY <1>1
  <2> QED BY <1>1, <2>1, <2>3, <2>4, FaultyType DEF DownloadsTypeOK
<1>7. EntriesInv'
  <2>1. ASSUME NEW f \in Resources PROVE Backed(entries[f], f)' /\ Backed(saved[f], f)'
    BY <1>1, <1>3, <1>5 DEF EntriesInv, Backed, Files
  <2> QED BY <1>1, <2>1 DEF EntriesInv
<1>8. TrustedIsThere'
  BY <1>1, <1>3, <1>5 DEF TrustedIsThere, RegularFilesAreWhole, Trusted, Files
<1> QED BY <1>4, <1>6, <1>7, <1>8

LEMMA PurgeMarksKeeps ==
  ASSUME DownloadsInv, PurgeMarks
  PROVE  DownloadsInv'
<1> USE DEF DownloadsInv
<1>1. /\ entries' = [f \in Files |-> IF f \in purging THEN MarkAsInvalid(entries[f])
                                     ELSE entries[f]]
      /\ purging' = {}
      /\ UNCHANGED <<required, disk, saved, tasks, disturbed, faults>>
  BY DEF PurgeMarks
<1>2. ASSUME NEW f \in Files
      PROVE  /\ entries'[f] \in Entry /\ EntryInv(entries'[f], f)
             /\ f \in purging => ~entries'[f].valid
             /\ f \notin purging => entries'[f] = entries[f]
  <2>1. entries[f] \in Entry
    BY DEF DownloadsTypeOK
  <2>2. /\ MarkAsInvalid(entries[f]) \in Entry /\ ~MarkAsInvalid(entries[f]).valid
        /\ MarkAsInvalid(entries[f]).updated = entries[f].updated
    BY <2>1 DEF MarkAsInvalid, Entry
  <2> QED BY <1>1, <2>1, <2>2 DEF EntriesInv, EntryInv
<1>3. \A f \in Files : BeingSaved(f)' <=> BeingSaved(f)
  BY <1>1 DEF BeingSaved
<1>4. DownloadsTypeOK'
  BY <1>1, <1>2 DEF DownloadsTypeOK
<1>5. TasksInv'
  BY <1>1 DEF TasksInv
<1>6. EntriesInv'
  <2>1. ASSUME NEW f \in Resources PROVE Backed(entries[f], f)' /\ Backed(saved[f], f)'
    BY <1>1, <1>2, <1>3 DEF EntriesInv, Backed, Files
  <2> QED BY <1>1, <1>2, <2>1 DEF EntriesInv
<1>7. TrustedIsThere'
  BY <1>1, <1>2, <1>3 DEF TrustedIsThere, RegularFilesAreWhole, Trusted, Files
<1> QED BY <1>4, <1>5, <1>6, <1>7

LEMMA RestartKeeps ==
  ASSUME DownloadsInv, Restart
  PROVE  DownloadsInv'
<1> USE DEF DownloadsInv
<1>1. /\ Faulty /\ disk' \in Meddled(disk)
      /\ saved' = saved \/ saved' = NoEntries
      /\ entries' = Loaded(saved', disk')
      /\ tasks' = NoTasks /\ purging' = {}
      /\ disturbed' = {f \in Resources : f \in disturbed \/ BeingSaved(f)}
      /\ UNCHANGED required
  BY DEF Restart
<1>2. disk' \in [Files -> Contents] /\ \A f \in Resources : disk'[f] \in {Absent, disk[f]}
  BY <1>1, MeddledHolds DEF DownloadsTypeOK
<1>3. saved' \in [Files -> Entry]
      /\ \A f \in Files : EntryInv(saved'[f], f) /\ (saved'[f].valid => saved'[f] = saved[f])
  BY <1>1, NoEntryHolds DEF NoEntries, DownloadsTypeOK, EntriesInv
<1>4. \A f \in Files : entries'[f] = Checked(saved'[f], f, disk'[f])
  BY <1>1 DEF Loaded
<1>5. \A f \in Files : ~BeingSaved(f)'
  BY <1>1, NoTaskHolds DEF BeingSaved, NoTasks
<1>6. ASSUME NEW f \in Resources, saved'[f].valid, f \notin disturbed', disk'[f] # Absent
      PROVE  NewEnough(disk'[f], saved'[f].updated)
  BY <1>1, <1>2, <1>3, <1>6 DEF EntriesInv, Backed, Files
<1>7. DownloadsTypeOK'
  <2>1. entries' \in [Files -> Entry]
    BY <1>1, <1>2, <1>3, CheckedHolds DEF Loaded
  <2>2. tasks' \in [Sessions -> [Files -> Task]]
    BY <1>1, NoTaskHolds DEF NoTasks, TaskInv
  <2> QED BY <1>1, <1>2, <1>3, <2>1, <2>2, FaultyType DEF DownloadsTypeOK, Files
<1>8. TasksInv'
  BY <1>1, NoTaskHolds DEF TasksInv, NoTasks
<1>9. EntriesInv'
  BY <1>2, <1>3, <1>4, <1>6, CheckedHolds DEF EntriesInv, Backed, Files
<1>10. TrustedIsThere'
  BY <1>2, <1>3, <1>4, CheckedHolds DEF TrustedIsThere, RegularFilesAreWhole, Trusted, Files
<1> QED BY <1>7, <1>8, <1>9, <1>10

(* A resource that is trusted is there, so its entry is backed.            *)
LEMMA TrustedIsNew ==
  ASSUME DownloadsInv
  PROVE  \A f \in Resources : Trusted(f) => NewEnough(disk[f], entries[f].updated)
BY DEF DownloadsInv, EntriesInv, TrustedIsThere, Backed, Trusted, NewEnough, Files

-----------------------------------------------------------------------------
(* The times of resources                                                  *)

(* No entry has a time that the CMS has not given.                         *)
TimesFromTheCms ==
  \A f \in Resources :
    entries[f].updated <= required[f] /\ saved[f].updated <= required[f]

(* What an older player leaves behind has no other times either.           *)
LEMMA TimesAtStart ==
  ASSUME Init
  PROVE  TimesFromTheCms
<1> DEFINE file == [f \in Files |-> IF required[f] = NoVersion THEN NoEntry
                                    ELSE NewEntry(f, required[f], required[f])]
<1>1. \A f \in Files : required[f] = NoVersion \/ required[f] \in Versions
  BY DownloadsAssumption DEF Init, Versions
<1>2. ASSUME NEW f \in Files
      PROVE  /\ file[f] \in Entry /\ EntryInv(file[f], f)
             /\ f \in Resources => file[f].updated = required[f]
  <2>1. CASE required[f] = NoVersion
    BY <2>1, NoEntryHolds DEF NoEntry, NoVersion, NoDate
  <2>2. CASE required[f] # NoVersion
    <3>1. file[f] = NewEntry(f, required[f], required[f])
      BY <2>2
    <3>2. required[f] \in Versions /\ required[f] \in Hashes
      BY <1>1, <2>2 DEF Hashes, Contents, Absent, Versions
    <3>3. f \in Resources => file[f].updated = required[f]
      BY <3>1, FilesAreOfOneKind DEF NewEntry
    <3> QED BY <3>1, <3>2, <3>3, EntryOfVersion
  <2> QED BY <2>1, <2>2
<1>3. \A f \in Resources : saved[f].updated \in {NoDate, required[f]}
  <2>1. CASE saved = NoEntries
    BY <2>1 DEF NoEntries, NoEntry, Files
  <2>2. ASSUME NEW format \in Formats, saved = Migrated(format, file)
        PROVE  \A f \in Resources : saved[f].updated \in {NoDate, required[f]}
    <3>1. file \in [Files -> Entry]
      BY <1>2
    <3> HIDE DEF file
    <3>2. \A f \in Files : Migrated(format, file)[f].updated \in {NoDate, file[f].updated}
      BY <1>2, <3>1, MigratedHolds
    <3> QED BY <1>2, <2>2, <3>2 DEF Files
  <2> QED BY <2>1, <2>2 DEF Init
<1>4. \A f \in Resources : entries[f].updated = saved[f].updated
  <2>1. saved \in [Files -> Entry]
    BY InitHolds DEF DownloadsInv, DownloadsTypeOK
  <2>2. entries = Loaded(saved, disk)
    BY DEF Init
  <2> QED BY <2>1, <2>2 DEF Loaded, Checked, MarkAsInvalid, Entry, Files
<1> QED BY <1>1, <1>3, <1>4 DEF TimesFromTheCms, Versions, NoVersion, NoDate, Files

(* An entry that is made has the time of its task.                         *)
LEMMA TimesKept ==
  ASSUME DownloadsInv, TimesFromTheCms, [Next]_vars
  PROVE  TimesFromTheCms'
<1>1. /\ \A f \in Files : required[f] \in Nat
      /\ entries \in [Files -> Entry] /\ saved \in [Files -> Entry]
      /\ \A entry \in Entry : entry.updated \in Nat
  BY DEF DownloadsInv, DownloadsTypeOK, Entry, Versions, NoVersion, NoDate
<1>2. ASSUME UNCHANGED <<required, entries, saved>>
      PROVE  TimesFromTheCms'
  BY <1>2 DEF TimesFromTheCms
<1>3. ASSUME NEW f \in Files, Publish(f)
      PROVE  TimesFromTheCms'
  <2>1. UNCHANGED <<entries, saved>> /\ \A g \in Files : required'[g] >= required[g]
    BY <1>1, <1>3 DEF Publish, DownloadsInv, DownloadsTypeOK
  <2>2. \A g \in Files : required'[g] \in Nat
    BY <1>1, <1>3 DEF Publish, DownloadsInv, DownloadsTypeOK
  <2> QED BY <1>1, <2>1, <2>2 DEF TimesFromTheCms, Files
<1>4. ASSUME NEW s \in Sessions, NEW f \in Files, AddToCache(s, f)
      PROVE  TimesFromTheCms'
  <2>1. /\ entries' = [entries EXCEPT ![f] = NewEntry(f, tasks[s][f].hash, tasks[s][f].version)]
        /\ saved' = entries' \/ saved' = NoEntries
        /\ UNCHANGED required
    BY <1>4 DEF AddToCache
  <2>2. tasks[s][f].version <= required[f]
    BY <1>4 DEF AddToCache, DownloadsInv, TasksInv, TaskInv
  <2>3. f \in Resources =>
          NewEntry(f, tasks[s][f].hash, tasks[s][f].version).updated = tasks[s][f].version
    BY FilesAreOfOneKind DEF NewEntry
  <2>4. \A g \in Resources : entries'[g].updated <= required'[g]
    BY <1>1, <2>1, <2>2, <2>3 DEF TimesFromTheCms, Files
  <2>5. \A g \in Resources : NoEntries[g].updated <= required'[g]
    BY <1>1, <2>1 DEF NoEntries, NoEntry, NoDate, Files
  <2> QED BY <2>1, <2>4, <2>5 DEF TimesFromTheCms
<1>5. ASSUME NEW s \in Sessions, NEW f \in Files, Work(s, f) \/ Fail(s, f), ~AddToCache(s, f)
      PROVE  TimesFromTheCms'
  BY <1>2, <1>5 DEF Work, Save, Download, Answer, Fail, Open, Write, Hash
<1>6. CASE PurgeAll \/ (\E s \in Sessions : RequiredFiles(s)) \/ UNCHANGED vars
  BY <1>2, <1>6 DEF PurgeAll, RequiredFiles, vars
<1>7. CASE PurgeMarks
  <2>1. \A entry \in Entry : MarkAsInvalid(entry).updated = entry.updated
    BY DEF MarkAsInvalid, Entry
  <2>2. \A f \in Files : entries'[f].updated = entries[f].updated
    BY <1>1, <1>7, <2>1 DEF PurgeMarks
  <2> QED BY <1>7, <2>2 DEF PurgeMarks, TimesFromTheCms, Files
<1>8. CASE Restart
  <2>1. saved' = saved \/ saved' = NoEntries
    BY <1>8 DEF Restart
  <2>2. \A f \in Resources : saved'[f].updated <= required[f]
    BY <1>1, <2>1 DEF TimesFromTheCms, NoEntries, NoEntry, NoDate, Files
  <2>3. \A f \in Resources : entries'[f].updated = saved'[f].updated
    BY <1>8 DEF Restart, Loaded, Checked, MarkAsInvalid, Files
  <2> QED BY <1>8, <2>2, <2>3 DEF Restart, TimesFromTheCms
<1> QED BY <1>3, <1>4, <1>5, <1>6, <1>7, <1>8 DEF Next, Work, Save

(* shouldBeDownloaded: an entry that is as new as is required is no newer. *)
LEMMA PassedOverIsRequired ==
  ASSUME DownloadsInv, TimesFromTheCms
  PROVE  ResourcesAreNew
<1>1. ASSUME NEW f \in Resources, ~ShouldBeDownloaded(f, required[f])
      PROVE  entries[f].updated = required[f]
  <2>1. f \in Files /\ f \notin Regular
    BY FilesAreOfOneKind DEF Files
  <2>2. entries[f].updated >= required[f]
    BY <1>1, <2>1 DEF ShouldBeDownloaded, Cached
  <2>3. entries[f].updated \in Int /\ required[f] \in Int
    BY <2>1 DEF DownloadsInv, DownloadsTypeOK, Entry, Versions, NoVersion, NoDate
  <2> QED BY <2>2, <2>3 DEF TimesFromTheCms
<1> QED BY <1>1, TrustedIsNew DEF ResourcesAreNew, NewEnough

-----------------------------------------------------------------------------
(* The theorems                                                            *)

LEMMA NextKeeps ==
  ASSUME DownloadsInv, [Next]_vars
  PROVE  DownloadsInv'
<1>1. ASSUME NEW s \in Sessions, NEW f \in Files, Work(s, f) PROVE DownloadsInv'
  BY <1>1, DownloadKeeps, AnswerKeeps, OpenKeeps, WriteKeeps, HashKeeps, AddToCacheKeeps
     DEF Work, Save
<1>2. CASE UNCHANGED vars
  BY <1>2 DEF vars, DownloadsInv, DownloadsTypeOK, TasksInv, EntriesInv, Backed, BeingSaved,
              TrustedIsThere, RegularFilesAreWhole, Trusted
<1> QED BY <1>1, <1>2, PublishKeeps, RequiredFilesKeeps, FailKeeps, PurgeAllKeeps,
           PurgeMarksKeeps, RestartKeeps DEF Next

LEMMA DownloadsInvariant == Spec => []DownloadsInv
<1>1. Init => DownloadsInv
  BY InitHolds
<1>2. DownloadsInv /\ [Next]_vars => DownloadsInv'
  BY NextKeeps
<1> QED BY <1>1, <1>2, PTL DEF Spec

(* Every variable of the downloads keeps its type, whatever fails, however *)
(* often the player dies and is started again.                             *)
THEOREM DownloadsTypeCorrect == Spec => []DownloadsTypeOK
<1>1. DownloadsInv => DownloadsTypeOK
  BY DEF DownloadsInv
<1> QED BY <1>1, DownloadsInvariant, PTL

(* FileCacheImpl::valid never vouches for a regular file that is not one   *)
(* whole version with the hash of its entry, but while it is being         *)
(* replaced or was spoiled by a race that the model names.                 *)
THEOREM RegularFilesAlwaysWhole == Spec => []RegularFilesAreWhole
<1>1. DownloadsInv => RegularFilesAreWhole
  BY DEF DownloadsInv, TrustedIsThere
<1> QED BY <1>1, DownloadsInvariant, PTL

(* shouldBeDownloaded: a resource is passed over only if its entry has the *)
(* time that is required, through every fault, crash, race and migration.  *)
(* Its file is as new as that unless its saving was disturbed: by a full   *)
(* disk, a file that could not be opened, a purge, a crash or another      *)
(* session in the middle of it.                                            *)
THEOREM ResourcesAlwaysNew == Spec => []ResourcesAreNew
<1>1. Init => TimesFromTheCms
  BY TimesAtStart
<1>2. DownloadsInv /\ TimesFromTheCms /\ [Next]_vars => TimesFromTheCms'
  BY TimesKept
<1>3. DownloadsInv /\ TimesFromTheCms => ResourcesAreNew
  BY PassedOverIsRequired
<1> QED BY <1>1, <1>2, <1>3, DownloadsInvariant, PTL DEF Spec
=============================================================================
