----------------------------- MODULE FolderAgent -----------------------------
(***************************************************************************)
(* The folder agent (crates/sync-agent-core): it keeps a local folder and  *)
(* a prefix of the store in step.  One runtime thread reconciles the two   *)
(* sides at startup, then applies the snapshots that a poller thread       *)
(* queues and uploads what its scans of the folder find.  The user and     *)
(* other clients change files at any time, a resolution of a conflict runs *)
(* beside the thread, the agent stops anywhere, and what it knows of       *)
(* earlier runs is the baseline in its SQLite database.                    *)
(*                                                                         *)
(* A file is its bytes and its LocalEntryState (size and modification      *)
(* time), of which the agent only asks whether two are equal: a stamp.     *)
(* Every write gives a file a stamp that no record of the path mentions.   *)
(* Stamps and remote versions that nothing mentions any more are used      *)
(* again, which keeps them few.  Directories, the second reading of a file *)
(* that is being uploaded, and the modification log are left out.          *)
(***************************************************************************)
EXTENDS Naturals, Sequences, FiniteSets

CONSTANTS Paths,         \* the files in scope
          None,          \* Option::None
          MaxMoves,      \* bound: steps of the user and of other clients
          MaxStops,      \* bound: crashes, errors that end the agent, failed loads
          MaxQueue       \* bound: snapshots that wait to be applied

ASSUME BoundsAssumption == MaxMoves \in Nat /\ MaxStops \in Nat /\ MaxQueue \in Nat

Contents == 1..MaxMoves
Stamps == 1..6
Versions == 1..(MaxQueue + 4)

File == [content : Contents, stamp : Stamps]
RemoteFile == [content : Contents, version : Versions]
Row == [stamp : Stamps, hash : Contents \cup {None}]
Reasons == {"dual", "delete"}
Steps == {"preserved", "applied", "uploaded", "removed", "deleted", "recorded"}

\* None is no Some(..).
ASSUME NoneAssumption ==
    None \notin Stamps \cup Versions \cup Contents \cup File \cup RemoteFile \cup Row \cup Reasons \cup Steps

VARIABLES
    disk,      \* the local folder
    remote,    \* the store
    baseline,  \* baseline_entries, with content_hash
    conflicts, \* the conflicts table: a reason, or None
    copies,    \* .berrykeep-conflicts/remote: the newest copy of a path, or None
    pc,        \* where the runtime thread is
    starting,  \* it is in its startup phase
    local_state,
    remote_index,
    suppressed_uploads,
    snapshot,          \* the snapshot that is being applied
    loaded,            \* the baseline that a startup has loaded
    preserve_local_files,
    matching_remote_files,
    remote_delete_wins_paths,
    startup_conflicts,
    todo,      \* the paths that the current loop has still to visit
    current,   \* the scan of sync_local_changes
    call,      \* the path at hand, the bytes on their way, and the hash to record
    known,     \* current_snapshot of the poller
    queue,     \* the updates it sent
    resolver   \* the keep-remote resolution: its path, its last step, its bytes

\* What the properties remember; no action reads it.
VARIABLES
    held,        \* the bytes that the store has held
    offline,     \* the bytes that the user wrote while the agent was down
    seen,        \* the bytes that have been in the local folder
    lost,        \* bytes the agent took off the disk that nobody else has
    remover,     \* who last took a file away from a path
    misrecorded, \* the paths whose row has the hash of other bytes than the file had
    uncertain,   \* the rows of this startup that have no hash, or are misrecorded
    uncopied,    \* the conflicts of this startup whose copy failed or was deleted
    quiet,       \* nobody but the agent has acted since it started
    moves,       \* counts what MaxMoves bounds
    stops        \* counts what MaxStops bounds

fileVars == <<disk, seen, lost, remover>>
storeVars == <<remote, held>>
rowVars == <<baseline, misrecorded>>
copyVars == <<copies, uncopied, uncertain>>
treeVars == <<local_state, remote_index, suppressed_uploads>>
planVars == <<loaded, preserve_local_files, matching_remote_files, remote_delete_wins_paths,
              startup_conflicts>>
threadVars == <<pc, starting, treeVars, snapshot, planVars, todo, current, call>>
pollVars == <<known, queue>>
counterVars == <<offline, quiet, moves, stops>>
folderVars == <<fileVars, storeVars, rowVars, conflicts, copyVars, threadVars, pollVars, resolver,
                counterVars>>

Nothing == [p \in Paths |-> None]
NoCall == [path |-> None, content |-> None, hash |-> None]
NoResolution == [path |-> None, step |-> None, content |-> None]

\* LocalEntryState of what is on disk, by path.
Stat(p) == IF disk[p] = None THEN None ELSE disk[p].stamp
Scan == [p \in Paths |-> Stat(p)]
Hash(p) == disk[p].content
Files(s) == {p \in Paths : s[p] # None}
RemoteHash(p) == snapshot[p].content

StampsOf(p) ==
    {Stat(p), local_state[p], suppressed_uploads[p], current[p],
     IF baseline[p] = None THEN None ELSE baseline[p].stamp}
FreshStamp(p) == CHOOSE s \in Stamps : s \notin StampsOf(p)

VersionOf(s, p) == IF s[p] = None THEN None ELSE s[p].version
VersionsOf(p) ==
    {VersionOf(remote, p), VersionOf(snapshot, p), VersionOf(known, p)}
        \cup {VersionOf(queue[i].snapshot, p) : i \in DOMAIN queue}
FreshVersion(p) == CHOOSE v \in Versions : v \notin VersionsOf(p)

FolderInit ==
    /\ disk = Nothing /\ remote = Nothing /\ baseline = Nothing /\ conflicts = Nothing
    /\ copies = Nothing /\ uncopied = {} /\ uncertain = {} /\ misrecorded = {}
    /\ pc = "down" /\ starting = FALSE
    /\ local_state = Nothing /\ remote_index = {} /\ suppressed_uploads = Nothing
    /\ snapshot = Nothing /\ loaded = Nothing
    /\ preserve_local_files = {} /\ matching_remote_files = {}
    /\ remote_delete_wins_paths = {} /\ startup_conflicts = Nothing
    /\ todo = {} /\ current = Nothing /\ call = NoCall
    /\ known = Nothing /\ queue = <<>> /\ resolver = NoResolution
    /\ held = {} /\ offline = {} /\ seen = {} /\ lost = {}
    /\ remover = [p \in Paths |-> "user"]
    /\ quiet = FALSE /\ moves = 0 /\ stops = 0

-------------------------------------------------------------------------------
(***************************************************************************)
(* The rows of the baseline; each of these is a transaction                *)
(***************************************************************************)

\* A file that has gone cannot be hashed.
HashIs(p, hash) == disk[p] # None /\ hash = Hash(p)

\* upsert_baseline_entry_with_hash.
RecordRow(p, stamp, hash) ==
    /\ baseline' = [baseline EXCEPT ![p] = [stamp |-> stamp, hash |-> hash]]
    /\ misrecorded' = IF HashIs(p, hash) THEN misrecorded \ {p} ELSE misrecorded \cup {p}

\* remove_baseline_entry.
RemoveRow(p) ==
    /\ baseline' = [baseline EXCEPT ![p] = None]
    /\ misrecorded' = misrecorded \ {p}

\* persist_local_baseline: the table is rewritten, content hashes stay with
\* their paths.
Persisted(state) ==
    [p \in Paths |-> IF state[p] = None THEN None
                     ELSE [stamp |-> state[p],
                           hash |-> IF baseline[p] = None THEN None ELSE baseline[p].hash]]

-------------------------------------------------------------------------------
(***************************************************************************)
(* The user of the folder and the other clients of the store               *)
(***************************************************************************)

agentVars == <<rowVars, conflicts, copyVars, threadVars, pollVars, stops>>

\* The n-th step writes the bytes n.
Move == moves < MaxMoves /\ moves' = moves + 1 /\ quiet' = FALSE

\* A resolution has uploaded the file and is about to record it.
BeingRecorded(p) == resolver.path = p /\ resolver.step = "uploaded"

Write(p) ==
    /\ Move
    /\ disk' = [disk EXCEPT ![p] = [content |-> moves', stamp |-> FreshStamp(p)]]
    /\ seen' = seen \cup {moves'}
    /\ offline' = IF pc = "down" /\ ~BeingRecorded(p) THEN offline \cup {moves'} ELSE offline
    /\ UNCHANGED <<lost, remover, storeVars, agentVars, resolver>>

\* The modification time changes and the bytes do not.
Touch(p) ==
    /\ Move
    /\ disk[p] # None
    /\ disk' = [disk EXCEPT ![p].stamp = FreshStamp(p)]
    /\ UNCHANGED <<seen, lost, remover, storeVars, agentVars, resolver, offline>>

Delete(p) ==
    /\ Move
    /\ disk[p] # None
    /\ disk' = [disk EXCEPT ![p] = None]
    /\ remover' = [remover EXCEPT ![p] = "user"]
    /\ UNCHANGED <<seen, lost, storeVars, agentVars, resolver, offline>>

\* Another client writes new bytes, or bytes that the store had before.
RemotePut(p) ==
    /\ Move
    /\ \E c \in held \cup {moves'} :
        /\ remote' = [remote EXCEPT ![p] = [content |-> c, version |-> FreshVersion(p)]]
        /\ held' = held \cup {c}
    /\ UNCHANGED <<fileVars, agentVars, resolver, offline>>

RemoteDelete(p) ==
    /\ Move
    /\ remote[p] # None
    /\ remote' = [remote EXCEPT ![p] = None]
    /\ UNCHANGED <<fileVars, held, agentVars, resolver, offline>>

-------------------------------------------------------------------------------
(***************************************************************************)
(* resolve_conflict_action, in a thread of the UI server or in the CLI, at *)
(* any time; one at a time (operation_lock).                               *)
(***************************************************************************)

\* The last step of a resolution, which may delete the copies of the path.
ClearConflict(p) ==
    /\ conflicts' = [conflicts EXCEPT ![p] = None]
    /\ \/ UNCHANGED <<copies, uncopied>>
       \/ copies' = [copies EXCEPT ![p] = None] /\ uncopied' = uncopied \cup {p}

\* Whether or not there is a row.
KeepLocal(p) ==
    /\ Move /\ resolver = NoResolution
    /\ ClearConflict(p)
    /\ UNCHANGED <<fileVars, storeVars, rowVars, uncertain, threadVars, pollVars, resolver, offline, stops>>

\* preserve_local_conflict_copy: the local file becomes a conflict copy of its
\* own; if it cannot be renamed it is copied and stays.
KeepRemote(p) ==
    /\ Move /\ resolver = NoResolution
    /\ conflicts[p] # None /\ (conflicts[p] = "dual" => copies[p] # None)
    /\ resolver' = [path |-> p, step |-> "preserved",
                    content |-> IF conflicts[p] = "dual" THEN copies[p] ELSE None]
    /\ \/ UNCHANGED fileVars
       \/ /\ disk[p] # None
          /\ disk' = [disk EXCEPT ![p] = None]
          /\ remover' = [remover EXCEPT ![p] = "resolver"]
          /\ UNCHANGED <<seen, lost>>
    /\ UNCHANGED <<storeVars, agentVars, offline>>

Resolve(last, next) ==
    /\ resolver.step = last
    /\ resolver' = [resolver EXCEPT !.step = next]
    /\ quiet' = FALSE
    /\ UNCHANGED <<threadVars, pollVars, offline, moves, stops>>

\* After a dual modification the copy of the remote bytes takes the place of the
\* local file ...
ApplyRemoteCopy ==
    LET p == resolver.path
    IN  /\ Resolve("preserved", "applied") /\ resolver.content # None
        /\ disk' = [disk EXCEPT ![p] = [content |-> resolver.content, stamp |-> FreshStamp(p)]]
        /\ seen' = seen \cup {resolver.content}
        /\ UNCHANGED <<lost, remover, storeVars, rowVars, conflicts, copyVars>>

\* ... what the path has by then is uploaded ...
UploadResolved ==
    LET p == resolver.path
    IN  /\ resolver.step = "applied" /\ disk[p] # None
        /\ remote' = [remote EXCEPT ![p] = [content |-> Hash(p), version |-> FreshVersion(p)]]
        /\ held' = held \cup {Hash(p)}
        /\ resolver' = [resolver EXCEPT !.step = "uploaded", !.content = Hash(p)]
        /\ quiet' = FALSE
        /\ UNCHANGED <<fileVars, agentVars, offline, moves>>

\* ... and recorded, with the state that the file has after the upload.
RecordResolved ==
    LET p == resolver.path
    IN  /\ Resolve("uploaded", "recorded")
        /\ IF disk[p] = None THEN UNCHANGED rowVars ELSE RecordRow(p, Stat(p), resolver.content)
        /\ UNCHANGED <<fileVars, storeVars, conflicts, copyVars>>

\* After a modification against a delete the file is deleted on both sides.
RemoveResolved ==
    LET p == resolver.path
    IN  /\ Resolve("preserved", "removed") /\ resolver.content = None
        /\ disk' = [disk EXCEPT ![p] = None]
        /\ remover' = IF disk[p] # None THEN [remover EXCEPT ![p] = "resolver"] ELSE remover
        /\ UNCHANGED <<seen, lost, storeVars, rowVars, conflicts, copyVars>>

DeleteResolved ==
    /\ Resolve("removed", "deleted")
    /\ remote' = [remote EXCEPT ![resolver.path] = None]
    /\ UNCHANGED <<fileVars, held, rowVars, conflicts, copyVars>>

UnrecordResolved ==
    /\ Resolve("deleted", "recorded")
    /\ RemoveRow(resolver.path)
    /\ UNCHANGED <<fileVars, storeVars, conflicts, copyVars>>

FinishResolution ==
    /\ resolver.step = "recorded"
    /\ ClearConflict(resolver.path)
    /\ resolver' = NoResolution /\ quiet' = FALSE
    /\ UNCHANGED <<fileVars, storeVars, rowVars, uncertain, threadVars, pollVars, offline, moves, stops>>

\* An error or a crash, anywhere; without its file an upload always fails.
AbandonResolution ==
    /\ resolver # NoResolution
    /\ resolver' = NoResolution /\ quiet' = FALSE
    /\ UNCHANGED <<fileVars, storeVars, agentVars, offline, moves>>

-------------------------------------------------------------------------------
(***************************************************************************)
(* What the steps of the agent share                                       *)
(***************************************************************************)

\* What is taken off the disk is lost when the store never held it.
Losing(p) ==
    lost' = IF disk[p] # None /\ disk[p].content \notin held THEN lost \cup {disk[p].content} ELSE lost

\* remove_local_path_with_logging: the file goes first ...
RemoveLocal(p) ==
    /\ disk' = [disk EXCEPT ![p] = None]
    /\ remover' = IF disk[p] # None THEN [remover EXCEPT ![p] = "agent"] ELSE remover
    /\ Losing(p)
    /\ call' = [NoCall EXCEPT !.path = p]
    /\ pc' = "removed"
    /\ UNCHANGED <<seen, storeVars, rowVars, conflicts, copyVars, starting, treeVars, snapshot, planVars,
                   todo, current, pollVars, resolver, counterVars>>

\* Mutant: the agent forgets that it removed the file itself.
ForgetRowOnly ==
    LET p == call.path
    IN  /\ pc = "removed"
        /\ RemoveRow(p)
        /\ todo' = todo \ {p} /\ call' = NoCall
        /\ pc' = IF starting THEN "remove" ELSE "apply"
        /\ UNCHANGED <<fileVars, storeVars, conflicts, copyVars, starting, treeVars, snapshot, planVars,
                       current, pollVars, resolver, counterVars>>

\* ... and the records of the path after it.
ForgetLocal ==
    LET p == call.path
    IN  /\ pc = "removed"
        /\ RemoveRow(p)
        /\ suppressed_uploads' = [suppressed_uploads EXCEPT ![p] = None]
        /\ local_state' = [local_state EXCEPT ![p] = None]
        /\ todo' = todo \ {p} /\ call' = NoCall
        /\ pc' = IF starting THEN "remove" ELSE "apply"
        /\ UNCHANGED <<fileVars, storeVars, conflicts, copyVars, starting, remote_index, snapshot, planVars,
                       current, pollVars, resolver, counterVars>>

\* The thread is gone with all it had in memory; the poller goes with it.
Down ==
    /\ pc' = "down" /\ starting' = FALSE
    /\ local_state' = Nothing /\ remote_index' = {} /\ suppressed_uploads' = Nothing
    /\ snapshot' = Nothing /\ loaded' = Nothing
    /\ preserve_local_files' = {} /\ matching_remote_files' = {}
    /\ remote_delete_wins_paths' = {} /\ startup_conflicts' = Nothing
    /\ todo' = {} /\ current' = Nothing /\ call' = NoCall
    /\ known' = Nothing /\ queue' = <<>>
    /\ UNCHANGED <<fileVars, storeVars, rowVars, conflicts, copyVars, resolver, offline, quiet, moves>>

\* A crash, a kill, a shutdown, or an error of the disk, the network or the
\* database, which all end the agent.
Stop ==
    /\ pc # "down"
    /\ stops < MaxStops /\ stops' = stops + 1
    /\ Down

-------------------------------------------------------------------------------
(***************************************************************************)
(* Startup                                                                 *)
(***************************************************************************)

\* The initial scan, and the baseline.  One that cannot be loaded is put aside,
\* with the conflicts in the same database; without its hashes the startup goes
\* on with the rows.
Start ==
    /\ pc = "down"
    /\ \/ /\ loaded' = baseline
          /\ UNCHANGED <<baseline, conflicts, stops>>
       \/ /\ stops < MaxStops /\ stops' = stops + 1
          /\ \/ /\ loaded' = [p \in Paths |-> IF baseline[p] = None THEN None
                                             ELSE [baseline[p] EXCEPT !.hash = None]]
                /\ UNCHANGED <<baseline, conflicts>>
             \/ baseline' = Nothing /\ conflicts' = Nothing /\ loaded' = Nothing
    /\ local_state' = Scan
    /\ pc' = "fetch" /\ starting' = TRUE
    /\ quiet' = TRUE /\ uncopied' = {}
    /\ uncertain' = {p \in Paths : loaded'[p] # None /\ (loaded'[p].hash = None \/ p \in misrecorded)}
    /\ UNCHANGED <<fileVars, storeVars, misrecorded, copies, remote_index, suppressed_uploads, snapshot,
                   preserve_local_files, matching_remote_files, remote_delete_wins_paths,
                   startup_conflicts, todo, current, call, pollVars, resolver, offline, moves>>

\* The four decisions about a path of the initial scan, from its row in the
\* loaded baseline, the snapshot s and the bytes on disk now.
Unchanged(p) == loaded[p] # None /\ loaded[p].stamp = local_state[p]
BaselineHash(p) == IF loaded[p] = None THEN None ELSE loaded[p].hash

\* Mutant: only files with a row in the baseline can have been edited.
PreserveKnownFiles(s) ==
    {p \in Files(local_state) :
        /\ loaded[p] # None /\ ~Unchanged(p)
        /\ s[p] = None \/ ~(HashIs(p, s[p].content) \/ HashIs(p, BaselineHash(p)))}

PreserveLocalFiles(s) ==
    {p \in Files(local_state) :
        /\ ~Unchanged(p)
        /\ s[p] = None \/ ~(HashIs(p, s[p].content) \/ HashIs(p, BaselineHash(p)))}

MatchingRemoteFiles(s) ==
    {p \in Files(local_state) \cap Files(s) :
        (Unchanged(p) /\ BaselineHash(p) = s[p].content) \/ HashIs(p, s[p].content)}

RemoteDeleteWinsPaths(s) ==
    {p \in Files(local_state) \ Files(s) :
        loaded[p] # None /\ (Unchanged(p) \/ HashIs(p, BaselineHash(p)))}

\* Mutant: files that both sides made are no conflict.
ConflictsOfKnownFiles(s, preserve, wins) ==
    [p \in Paths |->
        CASE p \in preserve \ (Files(s) \cup wins) -> "delete"
          [] /\ p \in preserve \cap Files(s) /\ ~HashIs(p, s[p].content)
             /\ loaded[p] # None /\ BaselineHash(p) \notin {None, s[p].content} -> "dual"
          [] OTHER -> None]

StartupConflicts(s, preserve, wins) ==
    [p \in Paths |->
        CASE p \in preserve \ (Files(s) \cup wins) -> "delete"
          [] /\ p \in preserve \cap Files(s) /\ ~HashIs(p, s[p].content)
             /\ loaded[p] = None \/ BaselineHash(p) \notin {None, s[p].content} -> "dual"
          [] OTHER -> None]

\* The initial snapshot arrives and the plan is made from it.
Reconcile ==
    /\ pc = "fetch"
    /\ snapshot' = remote
    /\ preserve_local_files' = PreserveLocalFiles(remote)
    /\ matching_remote_files' = MatchingRemoteFiles(remote)
    /\ remote_delete_wins_paths' = RemoteDeleteWinsPaths(remote)
    /\ startup_conflicts' = StartupConflicts(remote, preserve_local_files', remote_delete_wins_paths')
    /\ todo' = matching_remote_files'
    /\ loaded' = Nothing
    /\ pc' = "repair"
    /\ UNCHANGED <<fileVars, storeVars, rowVars, conflicts, copyVars, starting, treeVars,
                   current, call, pollVars, resolver, counterVars>>

\* Rows of files that match the store are repaired.
RepairRow(p) ==
    /\ pc = "repair" /\ p \in todo
    /\ RecordRow(p, local_state[p], RemoteHash(p))
    /\ todo' = todo \ {p}
    /\ UNCHANGED <<fileVars, storeVars, conflicts, copyVars, pc, starting, treeVars, snapshot, planVars,
                   current, call, pollVars, resolver, counterVars>>

BeginCopies ==
    /\ pc = "repair" /\ todo = {}
    /\ todo' = {p \in Paths : startup_conflicts[p] = "dual"}
    /\ pc' = "copy"
    /\ UNCHANGED <<fileVars, storeVars, rowVars, conflicts, copyVars, starting, treeVars, snapshot,
                   planVars, current, call, pollVars, resolver, counterVars>>

\* materialize_remote_conflict_copies: one download per conflict; one that fails
\* is only logged.
CopyConflict(p) ==
    /\ pc = "copy" /\ p \in todo
    /\ todo' = todo \ {p}
    /\ \/ /\ remote[p] # None
          /\ copies' = [copies EXCEPT ![p] = remote[p].content]
          /\ UNCHANGED uncopied
       \/ uncopied' = uncopied \cup {p} /\ UNCHANGED copies
    /\ UNCHANGED <<fileVars, storeVars, rowVars, conflicts, uncertain, pc, starting, treeVars, snapshot,
                   planVars, current, call, pollVars, resolver, counterVars>>

BeginApply ==
    /\ pc = "copy" /\ todo = {}
    /\ todo' = Files(snapshot)
    /\ pc' = "apply"
    /\ UNCHANGED <<fileVars, storeVars, rowVars, conflicts, copyVars, starting, treeVars, snapshot,
                   planVars, current, call, pollVars, resolver, counterVars>>

\* A file of the initial snapshot that is preserved or matches stays as it is.
KeptAtStartup(p) == p \in preserve_local_files \cup matching_remote_files /\ disk[p] # None

SkipAtStartup(p) ==
    /\ pc = "apply" /\ starting /\ p \in todo
    /\ KeptAtStartup(p)
    /\ todo' = todo \ {p}
    /\ UNCHANGED <<fileVars, storeVars, rowVars, conflicts, copyVars, pc, starting, treeVars, snapshot,
                   planVars, current, call, pollVars, resolver, counterVars>>

\* The unchanged files that the store no longer has.
BeginRemovals ==
    /\ pc = "apply" /\ starting /\ todo = {}
    /\ remote_index' = Files(snapshot)
    /\ todo' = remote_delete_wins_paths
    /\ pc' = "remove"
    /\ UNCHANGED <<fileVars, storeVars, rowVars, conflicts, copyVars, starting, local_state,
                   suppressed_uploads, snapshot, planVars, current, call, pollVars, resolver, counterVars>>

RemoveWinner(p) ==
    /\ pc = "remove" /\ p \in todo
    /\ RemoveLocal(p)

\* seed_downloaded_remote_files_into_local_state.
Seeded(state, index, excluded) ==
    [p \in Paths |-> IF state[p] = None /\ p \in index \ excluded THEN suppressed_uploads[p] ELSE state[p]]

\* Mutant: the files still to upload are in the baseline too.
StartupStateWithPreserved ==
    [p \in Paths |-> IF p \in remote_index THEN local_state[p] ELSE None]

\* startup_baseline_state_from_remote_index: the files that both sides have,
\* without the ones still to upload.
StartupBaselineState ==
    [p \in Paths |-> IF p \in remote_index \ preserve_local_files THEN local_state[p] ELSE None]

PersistStartup ==
    /\ pc = "remove" /\ todo = {}
    /\ local_state' = Seeded(StartupBaselineState, remote_index, preserve_local_files)
    /\ baseline' = Persisted(local_state')
    /\ pc' = "scan"
    /\ UNCHANGED <<fileVars, storeVars, misrecorded, conflicts, copyVars, starting, remote_index,
                   suppressed_uploads, snapshot, planVars, todo, current, call, pollVars, resolver,
                   counterVars>>

\* The local changes have been uploaded: the baseline is persisted ...
FinishStartupSync ==
    /\ pc = "sync" /\ starting /\ todo = {}
    /\ local_state' = current /\ current' = Nothing
    /\ baseline' = Persisted(local_state')
    /\ pc' = "persist"
    /\ UNCHANGED <<fileVars, storeVars, misrecorded, conflicts, copyVars, starting, remote_index,
                   suppressed_uploads, snapshot, planVars, todo, call, pollVars, resolver, counterVars>>

\* ... and the conflicts after it.  The poller starts from the initial snapshot.
FinishStartup ==
    /\ pc = "persist"
    /\ conflicts' = startup_conflicts
    /\ known' = snapshot /\ snapshot' = Nothing
    /\ preserve_local_files' = {} /\ matching_remote_files' = {}
    /\ remote_delete_wins_paths' = {} /\ startup_conflicts' = Nothing
    /\ pc' = "idle" /\ starting' = FALSE
    /\ UNCHANGED <<fileVars, storeVars, rowVars, copyVars, treeVars, loaded, todo, current, call, queue,
                   resolver, counterVars>>

-------------------------------------------------------------------------------
(***************************************************************************)
(* download_remote_file: whatever the store has by then is fetched and     *)
(* renamed over the file; then the file is looked at and recorded, with    *)
(* the hash of the snapshot.                                               *)
(***************************************************************************)

\* local_path_diverged_since_baseline, for a path that the agent knows.
Diverged(p) == local_state[p] # None /\ local_state[p] # Stat(p)

\* In the steady state, not for a file that the user has changed since the last
\* scan, or whose bytes are here already.
ToDownload(p) == IF starting THEN ~KeptAtStartup(p) ELSE ~Diverged(p) /\ ~HashIs(p, RemoteHash(p))

Download(p) ==
    /\ pc = "apply" /\ p \in todo /\ snapshot[p] # None
    /\ ToDownload(p) /\ remote[p] # None
    /\ call' = [path |-> p, content |-> remote[p].content, hash |-> RemoteHash(p)]
    /\ pc' = "install"
    /\ UNCHANGED <<fileVars, storeVars, rowVars, conflicts, copyVars, starting, treeVars, snapshot,
                   planVars, todo, current, pollVars, resolver, counterVars>>

InstallDownload ==
    LET p == call.path
    IN  /\ pc = "install"
        /\ disk' = [disk EXCEPT ![p] = [content |-> call.content, stamp |-> FreshStamp(p)]]
        /\ seen' = seen \cup {call.content}
        /\ Losing(p)
        /\ pc' = "record"
        /\ UNCHANGED <<remover, storeVars, rowVars, conflicts, copyVars, starting, treeVars, snapshot,
                       planVars, todo, current, call, pollVars, resolver, counterVars>>

Adopt(p, hash) ==
    /\ RecordRow(p, Stat(p), hash)
    /\ local_state' = [local_state EXCEPT ![p] = Stat(p)]
    /\ suppressed_uploads' = [suppressed_uploads EXCEPT ![p] = Stat(p)]
    /\ UNCHANGED remote_index

Record ==
    LET p == call.path
    IN  /\ pc = "record" /\ disk[p] # None
        /\ Adopt(p, call.hash)
        /\ todo' = todo \ {p}
        /\ call' = NoCall
        /\ pc' = "apply"
        /\ UNCHANGED <<fileVars, storeVars, conflicts, copyVars, starting, snapshot, planVars,
                       current, pollVars, resolver, counterVars>>

\* The remote file has gone, or the local one before it is looked at: an error,
\* which ends the agent.
DownloadFails ==
    /\ \/ pc = "apply" /\ \E p \in todo \cap Files(snapshot) : ToDownload(p) /\ remote[p] = None
       \/ pc = "record" /\ disk[call.path] = None
    /\ UNCHANGED stops
    /\ Down

-------------------------------------------------------------------------------
(***************************************************************************)
(* sync_local_changes                                                      *)
(***************************************************************************)

\* At startup, after updates, when the watcher hints at a change or a timer
\* expires.  In the steady state a scan that finds nothing does nothing.
ScanLocal ==
    /\ pc \in {"scan", "idle", "applied"}
    /\ local_state' = IF pc = "applied" THEN Seeded(local_state, remote_index, {}) ELSE local_state
    /\ current' = Scan
    /\ todo' = {p \in Paths : current'[p] # local_state'[p]}
    /\ pc = "scan" \/ todo' # {}
    /\ pc' = "sync"
    /\ UNCHANGED <<fileVars, storeVars, rowVars, conflicts, copyVars, starting, remote_index,
                   suppressed_uploads, snapshot, planVars, call, pollVars, resolver, counterVars>>

\* The file is what the agent downloaded.
Suppressed(p) == suppressed_uploads[p] = current[p]

SkipUpload(p) ==
    /\ pc = "sync" /\ p \in todo /\ current[p] # None
    /\ Suppressed(p)
    /\ suppressed_uploads' = [suppressed_uploads EXCEPT ![p] = None]
    /\ todo' = todo \ {p}
    /\ UNCHANGED <<fileVars, storeVars, rowVars, conflicts, copyVars, pc, starting, local_state,
                   remote_index, snapshot, planVars, current, call, pollVars, resolver, counterVars>>

\* upload_local_file_with_logging: the store has the file first ...
Upload(p) ==
    /\ pc = "sync" /\ p \in todo /\ current[p] # None
    /\ ~Suppressed(p) /\ disk[p] # None
    /\ remote' = [remote EXCEPT ![p] = [content |-> Hash(p), version |-> FreshVersion(p)]]
    /\ held' = held \cup {Hash(p)}
    /\ call' = [path |-> p, content |-> Hash(p), hash |-> Hash(p)]
    /\ pc' = "uploaded"
    /\ UNCHANGED <<fileVars, rowVars, conflicts, copyVars, starting, treeVars, snapshot, planVars, todo,
                   current, pollVars, resolver, counterVars>>

\* ... and the baseline after it.
RecordUpload ==
    LET p == call.path
    IN  /\ pc = "uploaded"
        /\ remote_index' = remote_index \cup {p}
        /\ RecordRow(p, current[p], call.hash)
        /\ todo' = todo \ {p} /\ call' = NoCall
        /\ pc' = "sync"
        /\ UNCHANGED <<fileVars, storeVars, conflicts, copyVars, starting, local_state,
                       suppressed_uploads, snapshot, planVars, current, pollVars, resolver, counterVars>>

\* The file has gone since the scan: an error, which ends the agent.
UploadFails(p) ==
    /\ pc = "sync" /\ p \in todo /\ current[p] # None
    /\ ~Suppressed(p) /\ disk[p] = None
    /\ UNCHANGED stops
    /\ Down

\* A file that the scan no longer finds is deleted in the store, if the agent
\* knows it there.
KnownRemote(p) == p \in remote_index \/ suppressed_uploads[p] # None

DeleteRemote(p) ==
    /\ pc = "sync" /\ p \in todo /\ current[p] = None
    /\ KnownRemote(p)
    /\ remote' = [remote EXCEPT ![p] = None]
    /\ call' = [NoCall EXCEPT !.path = p]
    /\ pc' = "deleted"
    /\ UNCHANGED <<fileVars, held, rowVars, conflicts, copyVars, starting, treeVars, snapshot, planVars,
                   todo, current, pollVars, resolver, counterVars>>

ForgetRemote ==
    LET p == call.path
    IN  /\ pc = "deleted"
        /\ suppressed_uploads' = [suppressed_uploads EXCEPT ![p] = None]
        /\ remote_index' = remote_index \ {p}
        /\ RemoveRow(p)
        /\ todo' = todo \ {p} /\ call' = NoCall
        /\ pc' = "sync"
        /\ UNCHANGED <<fileVars, storeVars, conflicts, copyVars, starting, local_state, snapshot, planVars,
                       current, pollVars, resolver, counterVars>>

SkipDelete(p) ==
    /\ pc = "sync" /\ p \in todo /\ current[p] = None
    /\ ~KnownRemote(p)
    /\ todo' = todo \ {p}
    /\ UNCHANGED <<fileVars, storeVars, rowVars, conflicts, copyVars, pc, starting, treeVars, snapshot,
                   planVars, current, call, pollVars, resolver, counterVars>>

FinishScan ==
    /\ pc = "sync" /\ ~starting /\ todo = {}
    /\ baseline' = Persisted(current)
    /\ local_state' = current /\ current' = Nothing
    /\ pc' = "idle"
    /\ UNCHANGED <<fileVars, storeVars, misrecorded, conflicts, copyVars, starting, remote_index,
                   suppressed_uploads, snapshot, planVars, todo, call, pollVars, resolver, counterVars>>

-------------------------------------------------------------------------------
(***************************************************************************)
(* The poller and apply_remote_snapshot in the steady state                *)
(***************************************************************************)

\* spawn_fetcher_loop: a snapshot that differs from the previous one is queued
\* with the paths that changed.
Poll ==
    /\ pc # "down" /\ ~starting
    /\ known # remote /\ Len(queue) < MaxQueue
    /\ queue' = Append(queue, [snapshot |-> remote, changed |-> {p \in Paths : known[p] # remote[p]}])
    /\ known' = remote
    /\ UNCHANGED <<fileVars, storeVars, rowVars, conflicts, copyVars, pc, starting, treeVars, snapshot,
                   planVars, todo, current, call, resolver, counterVars>>

TakeUpdate ==
    /\ pc \in {"idle", "applied"} /\ queue # <<>>
    /\ snapshot' = Head(queue).snapshot
    /\ todo' = Head(queue).changed
    /\ queue' = Tail(queue)
    /\ pc' = "apply"
    /\ UNCHANGED <<fileVars, storeVars, rowVars, conflicts, copyVars, starting, treeVars,
                   planVars, current, call, known, resolver, counterVars>>

\* An update of a file that the user has changed since the last scan.
SkipDiverged(p) ==
    /\ pc = "apply" /\ ~starting /\ p \in todo /\ snapshot[p] # None
    /\ Diverged(p)
    /\ todo' = todo \ {p}
    /\ UNCHANGED <<fileVars, storeVars, rowVars, conflicts, copyVars, pc, starting, treeVars, snapshot,
                   planVars, current, call, pollVars, resolver, counterVars>>

\* matching_local_entry_for_remote_file_change: the bytes are here already.
AdoptMatching(p) ==
    /\ pc = "apply" /\ ~starting /\ p \in todo /\ snapshot[p] # None
    /\ ~Diverged(p) /\ HashIs(p, RemoteHash(p))
    /\ Adopt(p, RemoteHash(p))
    /\ todo' = todo \ {p}
    /\ UNCHANGED <<fileVars, storeVars, conflicts, copyVars, pc, starting, snapshot,
                   planVars, current, call, pollVars, resolver, counterVars>>

\* A file that the agent does not know in the store has been made by the user
\* after the store lost it.
StaleDelete(p) == disk[p] # None /\ p \notin remote_index

SkipStaleDelete(p) ==
    /\ pc = "apply" /\ ~starting /\ p \in todo /\ snapshot[p] = None
    /\ StaleDelete(p)
    /\ todo' = todo \ {p}
    /\ UNCHANGED <<fileVars, storeVars, rowVars, conflicts, copyVars, pc, starting, treeVars, snapshot,
                   planVars, current, call, pollVars, resolver, counterVars>>

ApplyDelete(p) ==
    /\ pc = "apply" /\ ~starting /\ p \in todo /\ snapshot[p] = None
    /\ ~StaleDelete(p)
    /\ RemoveLocal(p)

FinishUpdate ==
    /\ pc = "apply" /\ ~starting /\ todo = {}
    /\ remote_index' = Files(snapshot) /\ snapshot' = Nothing
    /\ pc' = "applied"
    /\ UNCHANGED <<fileVars, storeVars, rowVars, conflicts, copyVars, starting, local_state,
                   suppressed_uploads, planVars, todo, current, call, pollVars, resolver, counterVars>>

\* No scan is due after the updates.
PersistUpdates ==
    /\ pc = "applied"
    /\ local_state' = Seeded(local_state, remote_index, {})
    /\ baseline' = Persisted(local_state')
    /\ pc' = "idle"
    /\ UNCHANGED <<fileVars, storeVars, misrecorded, conflicts, copyVars, starting, remote_index,
                   suppressed_uploads, snapshot, planVars, todo, current, call, pollVars, resolver, counterVars>>

-------------------------------------------------------------------------------

UserStep == \E p \in Paths : Write(p) \/ Touch(p) \/ Delete(p) \/ KeepLocal(p) \/ KeepRemote(p)
OthersStep == \E p \in Paths : RemotePut(p) \/ RemoteDelete(p)
ResolverStep ==
    \/ ApplyRemoteCopy \/ UploadResolved \/ RecordResolved
    \/ RemoveResolved \/ DeleteResolved \/ UnrecordResolved
    \/ FinishResolution \/ AbandonResolution
StartupStep ==
    \/ Start \/ Reconcile \/ BeginCopies \/ BeginApply \/ BeginRemovals
    \/ PersistStartup \/ FinishStartupSync \/ FinishStartup
    \/ \E p \in Paths : RepairRow(p) \/ CopyConflict(p) \/ SkipAtStartup(p) \/ RemoveWinner(p)
DownloadStep == InstallDownload \/ Record \/ DownloadFails \/ (\E p \in Paths : Download(p))
SyncStep ==
    \/ ScanLocal \/ RecordUpload \/ ForgetRemote \/ FinishScan
    \/ \E p \in Paths : SkipUpload(p) \/ Upload(p) \/ UploadFails(p) \/ DeleteRemote(p) \/ SkipDelete(p)
UpdateStep ==
    \/ Poll \/ TakeUpdate \/ ForgetLocal \/ FinishUpdate \/ PersistUpdates
    \/ \E p \in Paths : SkipDiverged(p) \/ AdoptMatching(p) \/ SkipStaleDelete(p) \/ ApplyDelete(p)

FolderNext ==
    \/ UserStep \/ OthersStep \/ ResolverStep \/ StartupStep \/ DownloadStep \/ SyncStep \/ UpdateStep
    \/ Stop

FolderSpec == FolderInit /\ [][FolderNext]_folderVars

-------------------------------------------------------------------------------
(***************************************************************************)
(* Properties                                                              *)
(***************************************************************************)

\* Every variable has its type.
FolderTypeOK ==
    /\ disk \in [Paths -> File \cup {None}]
    /\ remote \in [Paths -> RemoteFile \cup {None}]
    /\ {baseline, loaded} \subseteq [Paths -> Row \cup {None}]
    /\ {conflicts, startup_conflicts} \subseteq [Paths -> Reasons \cup {None}]
    /\ copies \in [Paths -> Contents \cup {None}]
    /\ pc \in {"down", "fetch", "repair", "copy", "apply", "install", "record", "remove", "removed",
               "scan", "sync", "uploaded", "deleted", "persist", "idle", "applied"}
    /\ starting \in BOOLEAN /\ quiet \in BOOLEAN
    /\ {local_state, suppressed_uploads, current} \subseteq [Paths -> Stamps \cup {None}]
    /\ {snapshot, known} \subseteq [Paths -> RemoteFile \cup {None}]
    /\ {remote_index, preserve_local_files, matching_remote_files, remote_delete_wins_paths, todo,
        misrecorded, uncertain, uncopied} \subseteq SUBSET Paths
    /\ call.path \in Paths \cup {None} /\ {call.content, call.hash} \subseteq Contents \cup {None}
    /\ pc \in {"install", "record", "removed", "uploaded", "deleted"} => call.path \in Paths
    /\ pc \in {"install", "record", "uploaded"} => None \notin {call.content, call.hash}
    /\ queue \in Seq([snapshot : [Paths -> RemoteFile \cup {None}], changed : SUBSET Paths])
    /\ Len(queue) <= MaxQueue
    /\ \/ resolver = NoResolution
       \/ /\ resolver.path \in Paths /\ resolver.content \in Contents \cup {None}
          /\ resolver.step \in Steps
          /\ resolver.step \in {"applied", "uploaded"} => resolver.content # None
    /\ {held, offline, seen, lost} \subseteq SUBSET Contents
    /\ remover \in [Paths -> {"user", "agent", "resolver"}]
    /\ moves \in 0..MaxMoves /\ stops \in 0..MaxStops

\* Bytes that the user wrote while the agent was down are never taken off the
\* disk by the agent before the store has them, however often the agent stops on
\* the way, be it between a call to the store or the disk and its row in the
\* database, whether or not the rows and their hashes can be loaded, and whatever
\* resolutions run beside it.  Only bytes written in the moment between the upload
\* and the record of a resolution are not among them: their stamp is recorded
\* with the hash of what was uploaded.
OfflineEditsSurvive == lost \cap offline = {}

\* A startup that nobody disturbs leaves the same bytes on both sides, whatever
\* the crashes before it left in the folder and in the baseline and whatever bytes
\* others put back; except where the row of an unchanged file was recorded with
\* the hash of other bytes (those of the snapshot, when newer ones were
\* downloaded, or when the file was written before its stamp was read) and the
\* store has just these.
StartupConverges ==
    pc = "idle" /\ quiet =>
        \A p \in Paths :
            \/ IF remote[p] = None THEN disk[p] = None ELSE HashIs(p, remote[p].content)
            \/ /\ p \in misrecorded /\ baseline[p] # None /\ remote[p] # None
               /\ baseline[p].hash = remote[p].content

\* A startup that replaces bytes of its snapshot in the store, bytes that were
\* never in the folder, has made a copy of them or failed to, or a resolution
\* deleted the copy; except for a path whose row has no hash, could not be loaded
\* with its hash, or has a wrong one: then no conflict is seen and the bytes are
\* replaced without a copy (startup_dual_modify_conflicts_with_hash).
StartupKeepsRemoteBytes ==
    [][\A p \in Paths :
        /\ starting /\ pc = "sync" /\ pc' \in {"uploaded", "deleted"} /\ call'.path = p
        /\ remote[p] # None /\ remote[p] = snapshot[p]
        => remote[p].content \in seen \/ copies[p] = remote[p].content \/ p \in uncopied \cup uncertain]_folderVars

\* The agent deletes a file in the store only when somebody else took the local
\* one away: the user, or a resolution, which renames the file away before it puts
\* the remote copy in its place.  What the agent removed itself never comes back
\* to the store as a delete, wherever it stops and whatever it is told meanwhile.
OwnRemovalsDoNotEcho ==
    [][\A p \in Paths :
        pc = "sync" /\ pc' = "deleted" /\ call'.path = p /\ remote[p] # None
            => remover[p] # "agent"]_folderVars

\* "Bytes beat tombstones: keep content if other side is delete." (docs/folder-agent-
\* crash-safe-offline-reconciliation-proposal.md): a remote delete that the agent
\* applies takes no bytes away that the store never had, unless their row was
\* recorded with the hash of other bytes.
BytesBeatTombstones ==
    [][\A p \in Paths :
        /\ pc = "apply" /\ pc' = "removed" /\ call'.path = p /\ disk[p] # None
        => disk[p].content \in held \/ p \in misrecorded]_folderVars

===============================================================================
