-------------------------- MODULE FolderAgentProofs --------------------------
(***************************************************************************)
(* The folder agent never loses offline edits, never passes its own        *)
(* removals on as deletes, leaves both sides equal after a startup that    *)
(* nobody disturbs, and keeps the remote bytes that it replaces, with the  *)
(* exceptions that the properties name.                                    *)
(*                                                                         *)
(* The proofs share one induction per question, each on top of the first:  *)
(*   TInv        types, and what the loop of each phase is about;          *)
(*   HeldInv     where bytes come from: what a snapshot, a row, a copy or  *)
(*               a call mentions was in the store, what is on disk was     *)
(*               written by the n-th move, for an n of the past;           *)
(*   RiskInv     a file whose bytes only the disk has is preserved by the  *)
(*               plan, is not the one at hand, has no record that knows    *)
(*               its stamp, and is found by the scan;                      *)
(*   RemovalInv  after the agent has removed a file, and before it does    *)
(*               anything else, it forgets the file;                       *)
(*   RowInv      the row of an unchanged file has the stamp that the agent *)
(*               remembers, and its hash unless it is marked as wrong;     *)
(*   QuietInv    how far a startup that nobody disturbs has come;          *)
(*   CopyInv     which remote bytes a startup has still to copy.           *)
(***************************************************************************)
EXTENDS FolderAgent, FiniteSetTheorems, TLAPS

\* The types of FolderTypeOK, part by part.
DiskOK == disk \in [Paths -> File \cup {None}]
StoreOK ==
    /\ remote \in [Paths -> RemoteFile \cup {None}] /\ snapshot \in [Paths -> RemoteFile \cup {None}]
    /\ known \in [Paths -> RemoteFile \cup {None}]
BaselineOK == baseline \in [Paths -> Row \cup {None}]
LoadedOK == loaded \in [Paths -> Row \cup {None}]
ConflictsOK ==
    conflicts \in [Paths -> Reasons \cup {None}] /\ startup_conflicts \in [Paths -> Reasons \cup {None}]
CopiesOK == copies \in [Paths -> Contents \cup {None}]
TreesOK ==
    /\ local_state \in [Paths -> Stamps \cup {None}] /\ current \in [Paths -> Stamps \cup {None}]
    /\ suppressed_uploads \in [Paths -> Stamps \cup {None}]
SetsOK ==
    /\ remote_index \subseteq Paths /\ todo \subseteq Paths
    /\ preserve_local_files \subseteq Paths /\ matching_remote_files \subseteq Paths
    /\ remote_delete_wins_paths \subseteq Paths
MarksOK == misrecorded \subseteq Paths /\ uncertain \subseteq Paths /\ uncopied \subseteq Paths
CallOK ==
    /\ call = [path |-> call.path, content |-> call.content, hash |-> call.hash]
    /\ call.path \in Paths \cup {None}
    /\ call.content \in Contents \cup {None} /\ call.hash \in Contents \cup {None}
    /\ pc \in {"install", "record", "removed", "uploaded", "deleted"} => call.path \in Paths
    /\ pc \in {"install", "record", "uploaded"} => call.content \in Contents /\ call.hash \in Contents
Updates == [snapshot : [Paths -> RemoteFile \cup {None}], changed : SUBSET Paths]
QueueOK ==
    /\ queue \in Seq(Updates)
    /\ Len(queue) <= MaxQueue
ResolverOK ==
    \/ resolver = NoResolution
    \/ /\ resolver = [path |-> resolver.path, step |-> resolver.step, content |-> resolver.content]
       /\ resolver.path \in Paths /\ resolver.content \in Contents \cup {None}
       /\ resolver.step \in Steps
       /\ resolver.step \in {"applied", "uploaded"} => resolver.content # None
BytesOK == held \subseteq Contents /\ offline \subseteq Contents /\ seen \subseteq Contents /\ lost \subseteq Contents
FlagsOK == starting \in BOOLEAN /\ quiet \in BOOLEAN
CountsOK ==
    /\ remover \in [Paths -> {"user", "agent", "resolver"}]
    /\ moves \in 0..MaxMoves /\ stops \in 0..MaxStops
    /\ pc \in {"down", "fetch", "repair", "copy", "apply", "install", "record", "remove", "removed",
               "scan", "sync", "uploaded", "deleted", "persist", "idle", "applied"}

\* In the middle of sync_local_changes.
Syncing == pc \in {"sync", "uploaded", "deleted"}

\* The phases of the runtime thread, and what the loop of each is about.
PhaseInv ==
    /\ pc \in {"fetch", "repair", "copy", "remove", "scan", "persist"} => starting
    /\ pc \in {"down", "idle", "applied"} => ~starting
    /\ pc \in {"down", "fetch"} => suppressed_uploads = Nothing
    /\ pc = "repair" => todo \subseteq matching_remote_files \cap Files(local_state)
    /\ starting /\ pc # "fetch" => matching_remote_files \subseteq Files(snapshot)
    /\ starting /\ pc \in {"apply", "install", "record"} => todo \subseteq Files(snapshot)
    /\ starting /\ pc \in {"remove", "removed"} =>
            todo \subseteq remote_delete_wins_paths /\ remote_index = Files(snapshot)
    /\ pc \in {"install", "record", "removed", "uploaded", "deleted"} => call.path \in todo
    /\ pc = "uploaded" => current[call.path] # None
    /\ pc = "deleted" => current[call.path] = None
    /\ starting \/ pc = "down" => queue = <<>>

TInv ==
    /\ DiskOK /\ StoreOK /\ BaselineOK /\ LoadedOK /\ ConflictsOK /\ CopiesOK /\ TreesOK
    /\ SetsOK /\ MarksOK /\ CallOK /\ QueueOK /\ ResolverOK /\ BytesOK /\ FlagsOK /\ CountsOK
    /\ PhaseInv

-------------------------------------------------------------------------------

\* There is a stamp that no record of the path mentions.
LEMMA StampIsFresh ==
    ASSUME NEW p \in Paths
    PROVE  /\ FreshStamp(p) \in Stamps
           /\ FreshStamp(p) # Stat(p)
           /\ FreshStamp(p) # local_state[p]
           /\ FreshStamp(p) # suppressed_uploads[p]
           /\ FreshStamp(p) # current[p]
           /\ baseline[p] # None => FreshStamp(p) # baseline[p].stamp
  <1> DEFINE b == IF baseline[p] = None THEN None ELSE baseline[p].stamp
  <1>1. ASSUME NEW v, NEW w, NEW x, NEW y, NEW z PROVE \E s \in 1..6 : s \notin {v, w, x, y, z}
    <2>1. \A s \in 1..6 : s = 1 \/ s = 2 \/ s = 3 \/ s = 4 \/ s = 5 \/ s = 6
      OBVIOUS
    <2> QED
      BY <2>1
  <1>2. \E s \in Stamps : s \notin StampsOf(p)
    BY <1>1 DEF Stamps, StampsOf
  <1>3. FreshStamp(p) \in Stamps /\ FreshStamp(p) \notin StampsOf(p)
    BY <1>2 DEF FreshStamp
  <1> QED
    BY <1>3 DEF StampsOf

\* There is a version number that no snapshot at hand has at the path.
LEMMA VersionIsFresh ==
    ASSUME TInv, NEW p \in Paths
    PROVE  FreshVersion(p) \in Versions /\ FreshVersion(p) \notin VersionsOf(p)
  <1> DEFINE n == Len(queue) + 3
             f == [i \in 1..n |-> IF i = 1 THEN VersionOf(remote, p)
                                  ELSE IF i = 2 THEN VersionOf(snapshot, p)
                                  ELSE IF i = 3 THEN VersionOf(known, p)
                                  ELSE VersionOf(queue[i - 3].snapshot, p)]
  <1>1. Len(queue) \in Nat /\ Len(queue) <= MaxQueue /\ DOMAIN queue = 1..Len(queue) /\ MaxQueue \in Nat
    BY BoundsAssumption DEF TInv, QueueOK
  <1>2. \A v \in VersionsOf(p) : \E i \in 1..n : f[i] = v
    <2>1. f[1] = VersionOf(remote, p) /\ f[2] = VersionOf(snapshot, p) /\ f[3] = VersionOf(known, p)
      BY <1>1
    <2>2. ASSUME NEW i \in DOMAIN queue
          PROVE  i + 3 \in 1..n /\ f[i + 3] = VersionOf(queue[i].snapshot, p)
      <3>1. i \in Nat /\ i >= 1 /\ i + 3 \in 1..n /\ (i + 3) - 3 = i
        BY <1>1
      <3> QED
        BY <3>1
    <2>3. 1 \in 1..n /\ 2 \in 1..n /\ 3 \in 1..n
      BY <1>1
    <2> QED
      BY <2>1, <2>2, <2>3 DEF VersionsOf
  <1>3. \A i \in 1..n : f[i] \in VersionsOf(p)
    <2> SUFFICES ASSUME NEW i \in 1..n PROVE f[i] \in VersionsOf(p)
      OBVIOUS
    <2>1. CASE i \in {1, 2, 3}
      BY <2>1 DEF VersionsOf
    <2>2. CASE i \notin {1, 2, 3}
      <3>1. i - 3 \in DOMAIN queue /\ f[i] = VersionOf(queue[i - 3].snapshot, p)
        BY <1>1, <2>2
      <3> QED
        BY <3>1 DEF VersionsOf
    <2> QED
      BY <2>1, <2>2
  <1>4. f \in Surjection(1..n, VersionsOf(p))
    <2> HIDE DEF n
    <2>1. f \in [1..n -> VersionsOf(p)]
      BY <1>3
    <2> HIDE DEF f
    <2> QED
      BY <1>2, <2>1 DEF Surjection
  <1>5. n \in Nat
    BY <1>1
  <1>6. IsFiniteSet(VersionsOf(p)) /\ Cardinality(VersionsOf(p)) <= n
    <2> HIDE DEF n, f
    <2> QED
      BY <1>4, <1>5, FS_SurjCardinalityBound, FS_NatSurjection DEF ExistsSurjection
  <1>7. ~(Versions \subseteq VersionsOf(p))
    <2> SUFFICES ASSUME Versions \subseteq VersionsOf(p) PROVE FALSE
      OBVIOUS
    <2>1. Cardinality(Versions) <= Cardinality(VersionsOf(p)) /\ Cardinality(VersionsOf(p)) \in Nat
      BY <1>6, FS_Subset, FS_CardinalityType
    <2>2. Cardinality(Versions) = MaxQueue + 4
      BY <1>1, FS_Interval DEF Versions
    <2> QED
      BY <1>1, <1>6, <2>1, <2>2
  <1> QED
    BY <1>7 DEF FreshVersion

\* A file that is there is not None.
LEMMA SomeFile ==
    ASSUME NEW c \in Contents, NEW s \in Stamps
    PROVE  [content |-> c, stamp |-> s] # None
  BY NoneAssumption DEF File

\* A file that is in the store is not None.
LEMMA SomeRemote ==
    ASSUME TInv, NEW q \in Paths, NEW c \in Contents
    PROVE  [content |-> c, version |-> FreshVersion(q)] # None
  BY VersionIsFresh, NoneAssumption DEF RemoteFile

\* A file that is written to the store differs from the one in the snapshot.
LEMMA WrittenDiffers ==
    ASSUME TInv, NEW q \in Paths, NEW c \in Contents
    PROVE  [content |-> c, version |-> FreshVersion(q)] # snapshot[q]
  <1> SUFFICES ASSUME snapshot[q] = [content |-> c, version |-> FreshVersion(q)], snapshot[q] # None PROVE FALSE
    BY SomeRemote
  <1>1. VersionOf(snapshot, q) = FreshVersion(q)
    BY DEF VersionOf
  <1> QED
    BY <1>1, VersionIsFresh DEF VersionsOf

\* A stamp is not None.
LEMMA StatIsSome ==
    ASSUME TInv, NEW q \in Paths, disk[q] # None
    PROVE  Stat(q) = disk[q].stamp /\ Stat(q) \in Stamps /\ Stat(q) # None /\ disk[q].content \in Contents
  BY NoneAssumption DEF TInv, DiskOK, File, Stat

\* A resolution that is under way has a path.
LEMMA ResolverAtWork ==
    ASSUME TInv, resolver.step \in Steps
    PROVE  /\ resolver = [path |-> resolver.path, step |-> resolver.step, content |-> resolver.content]
           /\ resolver.path \in Paths /\ resolver.content \in Contents \cup {None}
           /\ resolver.step \in {"applied", "uploaded"} => resolver.content \in Contents
  <1>1. resolver # NoResolution
    BY NoneAssumption DEF NoResolution
  <1> QED
    BY <1>1 DEF TInv, ResolverOK

\* The end of the agent, with or without a step of the environment.
Ends == Down /\ (stops' = stops \/ (stops < MaxStops /\ stops' = stops + 1))

\* The variables keep their types, and the loops their subjects.
LEMMA TypesKept ==
    ASSUME TInv, [FolderNext]_folderVars
    PROVE  TInv'
  <1> USE DEF fileVars, storeVars, rowVars, copyVars, treeVars, planVars, threadVars, pollVars, counterVars, agentVars
  <1>1. ASSUME NEW p \in Paths, Write(p) PROVE TInv'
    <2>1. DiskOK'
      BY <1>1, StampIsFresh, NoneAssumption, BoundsAssumption DEF Write, BeingRecorded, Move, Stat, TInv,
                                                                  DiskOK, CountsOK, ResolverOK, File, BytesOK,
                                                                  Contents
    <2>2. BytesOK'
      BY <1>1, StampIsFresh, NoneAssumption, BoundsAssumption DEF Write, BeingRecorded, Move, Stat, TInv,
                                                                  BytesOK, DiskOK, CountsOK, ResolverOK, File,
                                                                  Contents
    <2>3. FlagsOK'
      BY <1>1, StampIsFresh, NoneAssumption, BoundsAssumption DEF Write, BeingRecorded, Move, Stat, TInv,
                                                                  FlagsOK, DiskOK, CountsOK, ResolverOK, File,
                                                                  BytesOK, Contents
    <2>4. CountsOK'
      BY <1>1, StampIsFresh, NoneAssumption, BoundsAssumption DEF Write, BeingRecorded, Move, Stat, TInv,
                                                                  CountsOK, DiskOK, ResolverOK, File, BytesOK,
                                                                  Contents
    <2>5. StoreOK' /\ BaselineOK' /\ LoadedOK' /\ ConflictsOK' /\ CopiesOK' /\ TreesOK' /\ SetsOK' /\ MarksOK' /\ CallOK' /\ QueueOK' /\ ResolverOK' /\ PhaseInv'
      BY <1>1 DEF Write, Move, TInv, StoreOK, BaselineOK, LoadedOK, ConflictsOK, CopiesOK, TreesOK, SetsOK,
                  MarksOK, CallOK, QueueOK, ResolverOK, PhaseInv, Updates, NoResolution, Files
    <2> QED
      BY <2>1, <2>2, <2>3, <2>4, <2>5 DEF TInv
  <1>2. ASSUME NEW p \in Paths, Touch(p) PROVE TInv'
    <2>1. DiskOK'
      BY <1>2, StampIsFresh, NoneAssumption, BoundsAssumption DEF Touch, Move, Stat, TInv, DiskOK, CountsOK,
                                                                  File, Contents
    <2>2. FlagsOK'
      BY <1>2, StampIsFresh, NoneAssumption, BoundsAssumption DEF Touch, Move, Stat, TInv, FlagsOK, DiskOK,
                                                                  CountsOK, File, Contents
    <2>3. CountsOK'
      BY <1>2, StampIsFresh, NoneAssumption, BoundsAssumption DEF Touch, Move, Stat, TInv, CountsOK, DiskOK,
                                                                  File, Contents
    <2>4. StoreOK' /\ BaselineOK' /\ LoadedOK' /\ ConflictsOK' /\ CopiesOK' /\ TreesOK' /\ SetsOK' /\ MarksOK' /\ CallOK' /\ QueueOK' /\ ResolverOK' /\ BytesOK' /\ PhaseInv'
      BY <1>2 DEF Touch, Move, TInv, StoreOK, BaselineOK, LoadedOK, ConflictsOK, CopiesOK, TreesOK, SetsOK,
                  MarksOK, CallOK, QueueOK, ResolverOK, BytesOK, PhaseInv, Updates, NoResolution, Files
    <2> QED
      BY <2>1, <2>2, <2>3, <2>4 DEF TInv
  <1>3. ASSUME NEW p \in Paths, Delete(p) PROVE TInv'
    <2>1. DiskOK'
      BY <1>3, NoneAssumption, BoundsAssumption DEF Delete, Move, TInv, DiskOK, CountsOK, File, Contents
    <2>2. FlagsOK'
      BY <1>3, NoneAssumption, BoundsAssumption DEF Delete, Move, TInv, FlagsOK, DiskOK, CountsOK, File,
                                                    Contents
    <2>3. CountsOK'
      BY <1>3, NoneAssumption, BoundsAssumption DEF Delete, Move, TInv, CountsOK, DiskOK, File, Contents
    <2>4. StoreOK' /\ BaselineOK' /\ LoadedOK' /\ ConflictsOK' /\ CopiesOK' /\ TreesOK' /\ SetsOK' /\ MarksOK' /\ CallOK' /\ QueueOK' /\ ResolverOK' /\ BytesOK' /\ PhaseInv'
      BY <1>3 DEF Delete, Move, TInv, StoreOK, BaselineOK, LoadedOK, ConflictsOK, CopiesOK, TreesOK, SetsOK,
                  MarksOK, CallOK, QueueOK, ResolverOK, BytesOK, PhaseInv, Updates, NoResolution, Files
    <2> QED
      BY <2>1, <2>2, <2>3, <2>4 DEF TInv
  <1>4. ASSUME NEW p \in Paths, KeepLocal(p) PROVE TInv'
    <2>1. ConflictsOK'
      BY <1>4, NoneAssumption, BoundsAssumption DEF KeepLocal, ClearConflict, Move, NoResolution, TInv,
                                                    ConflictsOK, CopiesOK, CountsOK, ResolverOK, Contents,
                                                    Reasons
    <2>2. CopiesOK'
      BY <1>4, NoneAssumption, BoundsAssumption DEF KeepLocal, ClearConflict, Move, NoResolution, TInv,
                                                    CopiesOK, ConflictsOK, CountsOK, ResolverOK, Contents
    <2>3. MarksOK'
      BY <1>4, NoneAssumption, BoundsAssumption DEF KeepLocal, ClearConflict, Move, NoResolution, TInv, MarksOK,
                                                    ConflictsOK, CopiesOK, CountsOK, ResolverOK, Contents
    <2>4. FlagsOK'
      BY <1>4, NoneAssumption, BoundsAssumption DEF KeepLocal, ClearConflict, Move, NoResolution, TInv, FlagsOK,
                                                    ConflictsOK, CopiesOK, CountsOK, ResolverOK, Contents
    <2>5. CountsOK'
      BY <1>4, NoneAssumption, BoundsAssumption DEF KeepLocal, ClearConflict, Move, NoResolution, TInv,
                                                    CountsOK, ConflictsOK, CopiesOK, ResolverOK, Contents
    <2>6. DiskOK' /\ StoreOK' /\ BaselineOK' /\ LoadedOK' /\ TreesOK' /\ SetsOK' /\ CallOK' /\ QueueOK' /\ ResolverOK' /\ BytesOK' /\ PhaseInv'
      BY <1>4 DEF KeepLocal, ClearConflict, Move, TInv, DiskOK, StoreOK, BaselineOK, LoadedOK, TreesOK, SetsOK,
                  CallOK, QueueOK, ResolverOK, BytesOK, PhaseInv, Updates, NoResolution, Files
    <2> QED
      BY <2>1, <2>2, <2>3, <2>4, <2>5, <2>6 DEF TInv
  <1>5. ASSUME NEW p \in Paths, KeepRemote(p) PROVE TInv'
    <2>1. DiskOK'
      BY <1>5, NoneAssumption, BoundsAssumption DEF KeepRemote, Move, NoResolution, TInv, DiskOK, ConflictsOK,
                                                    CopiesOK, CountsOK, ResolverOK, File, Contents
    <2>2. ResolverOK'
      BY <1>5, NoneAssumption, BoundsAssumption DEF KeepRemote, Move, NoResolution, TInv, ResolverOK,
                                                    ConflictsOK, CopiesOK, DiskOK, CountsOK, File, Contents,
                                                    Steps
    <2>3. FlagsOK'
      BY <1>5, NoneAssumption, BoundsAssumption DEF KeepRemote, Move, NoResolution, TInv, FlagsOK, ConflictsOK,
                                                    CopiesOK, DiskOK, CountsOK, ResolverOK, File, Contents
    <2>4. CountsOK'
      BY <1>5, NoneAssumption, BoundsAssumption DEF KeepRemote, Move, NoResolution, TInv, CountsOK, ConflictsOK,
                                                    CopiesOK, DiskOK, ResolverOK, File, Contents
    <2>5. StoreOK' /\ BaselineOK' /\ LoadedOK' /\ ConflictsOK' /\ CopiesOK' /\ TreesOK' /\ SetsOK' /\ MarksOK' /\ CallOK' /\ QueueOK' /\ BytesOK' /\ PhaseInv'
      BY <1>5 DEF KeepRemote, Move, TInv, StoreOK, BaselineOK, LoadedOK, ConflictsOK, CopiesOK, TreesOK, SetsOK,
                  MarksOK, CallOK, QueueOK, BytesOK, PhaseInv, Updates, Files
    <2> QED
      BY <2>1, <2>2, <2>3, <2>4, <2>5 DEF TInv
  <1>6. ASSUME NEW p \in Paths, RemotePut(p) PROVE TInv'
    <2>1. StoreOK'
      BY <1>6, VersionIsFresh, NoneAssumption, BoundsAssumption DEF RemotePut, Move, TInv, StoreOK, CountsOK,
                                                                    RemoteFile, BytesOK, Contents
    <2>2. BytesOK'
      BY <1>6, VersionIsFresh, NoneAssumption, BoundsAssumption DEF RemotePut, Move, TInv, BytesOK, CountsOK,
                                                                    StoreOK, RemoteFile, Contents
    <2>3. FlagsOK'
      BY <1>6, VersionIsFresh, NoneAssumption, BoundsAssumption DEF RemotePut, Move, TInv, FlagsOK, CountsOK,
                                                                    StoreOK, RemoteFile, BytesOK, Contents
    <2>4. CountsOK'
      BY <1>6, VersionIsFresh, NoneAssumption, BoundsAssumption DEF RemotePut, Move, TInv, CountsOK, StoreOK,
                                                                    RemoteFile, BytesOK, Contents
    <2>5. DiskOK' /\ BaselineOK' /\ LoadedOK' /\ ConflictsOK' /\ CopiesOK' /\ TreesOK' /\ SetsOK' /\ MarksOK' /\ CallOK' /\ QueueOK' /\ ResolverOK' /\ PhaseInv'
      BY <1>6 DEF RemotePut, Move, TInv, DiskOK, BaselineOK, LoadedOK, ConflictsOK, CopiesOK, TreesOK, SetsOK,
                  MarksOK, CallOK, QueueOK, ResolverOK, PhaseInv, Updates, NoResolution, Files
    <2> QED
      BY <2>1, <2>2, <2>3, <2>4, <2>5 DEF TInv
  <1>7. ASSUME NEW p \in Paths, RemoteDelete(p) PROVE TInv'
    <2>1. StoreOK'
      BY <1>7, NoneAssumption, BoundsAssumption DEF RemoteDelete, Move, TInv, StoreOK, CountsOK, RemoteFile,
                                                    Contents
    <2>2. FlagsOK'
      BY <1>7, NoneAssumption, BoundsAssumption DEF RemoteDelete, Move, TInv, FlagsOK, CountsOK, StoreOK,
                                                    RemoteFile, Contents
    <2>3. CountsOK'
      BY <1>7, NoneAssumption, BoundsAssumption DEF RemoteDelete, Move, TInv, CountsOK, StoreOK, RemoteFile,
                                                    Contents
    <2>4. DiskOK' /\ BaselineOK' /\ LoadedOK' /\ ConflictsOK' /\ CopiesOK' /\ TreesOK' /\ SetsOK' /\ MarksOK' /\ CallOK' /\ QueueOK' /\ ResolverOK' /\ BytesOK' /\ PhaseInv'
      BY <1>7 DEF RemoteDelete, Move, TInv, DiskOK, BaselineOK, LoadedOK, ConflictsOK, CopiesOK, TreesOK,
                  SetsOK, MarksOK, CallOK, QueueOK, ResolverOK, BytesOK, PhaseInv, Updates, NoResolution, Files
    <2> QED
      BY <2>1, <2>2, <2>3, <2>4 DEF TInv
  <1>8. ASSUME ApplyRemoteCopy PROVE TInv'
    <2>0. /\ resolver = [path |-> resolver.path, step |-> resolver.step, content |-> resolver.content]
          /\ resolver.path \in Paths /\ resolver.content \in Contents
      BY <1>8, ResolverAtWork DEF ApplyRemoteCopy, Resolve, Steps
    <2>1. DiskOK'
      BY <1>8, StampIsFresh, <2>0, NoneAssumption, BoundsAssumption DEF ApplyRemoteCopy, Resolve, Stat, TInv,
                                                                        DiskOK, ResolverOK, File, BytesOK
    <2>2. ResolverOK'
      BY <1>8, StampIsFresh, <2>0, NoneAssumption, BoundsAssumption DEF ApplyRemoteCopy, Resolve, Stat, TInv,
                                                                        ResolverOK, NoResolution, DiskOK, File,
                                                                        BytesOK, Steps
    <2>3. BytesOK'
      BY <1>8, StampIsFresh, <2>0, NoneAssumption, BoundsAssumption DEF ApplyRemoteCopy, Resolve, Stat, TInv,
                                                                        BytesOK, DiskOK, ResolverOK, File
    <2>4. FlagsOK'
      BY <1>8, StampIsFresh, <2>0, NoneAssumption, BoundsAssumption DEF ApplyRemoteCopy, Resolve, Stat, TInv,
                                                                        FlagsOK, DiskOK, ResolverOK, File,
                                                                        BytesOK
    <2>5. StoreOK' /\ BaselineOK' /\ LoadedOK' /\ ConflictsOK' /\ CopiesOK' /\ TreesOK' /\ SetsOK' /\ MarksOK' /\ CallOK' /\ QueueOK' /\ CountsOK' /\ PhaseInv'
      BY <1>8 DEF ApplyRemoteCopy, Resolve, TInv, StoreOK, BaselineOK, LoadedOK, ConflictsOK, CopiesOK, TreesOK,
                  SetsOK, MarksOK, CallOK, QueueOK, CountsOK, PhaseInv, Updates, Files
    <2> QED
      BY <2>1, <2>2, <2>3, <2>4, <2>5 DEF TInv
  <1>9. ASSUME UploadResolved PROVE TInv'
    <2>0. /\ resolver = [path |-> resolver.path, step |-> resolver.step, content |-> resolver.content]
          /\ resolver.path \in Paths /\ disk[resolver.path].content \in Contents
      BY <1>9, ResolverAtWork, StatIsSome DEF UploadResolved, Steps
    <2>1. StoreOK'
      BY <1>9, VersionIsFresh, <2>0, NoneAssumption, BoundsAssumption DEF UploadResolved, Hash, TInv, StoreOK,
                                                                          DiskOK, ResolverOK, File, RemoteFile,
                                                                          BytesOK
    <2>2. ResolverOK'
      BY <1>9, <2>0, NoneAssumption DEF UploadResolved, Hash, TInv, ResolverOK, Steps
    <2>3. BytesOK'
      BY <1>9, <2>0 DEF UploadResolved, Hash, TInv, BytesOK
    <2>4. FlagsOK'
      BY <1>9, VersionIsFresh, <2>0, NoneAssumption, BoundsAssumption DEF UploadResolved, Hash, TInv, FlagsOK,
                                                                          DiskOK, StoreOK, ResolverOK, File,
                                                                          RemoteFile, BytesOK
    <2>5. DiskOK' /\ BaselineOK' /\ LoadedOK' /\ ConflictsOK' /\ CopiesOK' /\ TreesOK' /\ SetsOK' /\ MarksOK' /\ CallOK' /\ QueueOK' /\ CountsOK' /\ PhaseInv'
      BY <1>9 DEF UploadResolved, TInv, DiskOK, BaselineOK, LoadedOK, ConflictsOK, CopiesOK, TreesOK, SetsOK,
                  MarksOK, CallOK, QueueOK, CountsOK, PhaseInv, Updates, Files
    <2> QED
      BY <2>1, <2>2, <2>3, <2>4, <2>5 DEF TInv
  <1>10. ASSUME RecordResolved PROVE TInv'
    <2>0. /\ resolver = [path |-> resolver.path, step |-> resolver.step, content |-> resolver.content]
          /\ resolver.path \in Paths /\ resolver.content \in Contents
      BY <1>10, ResolverAtWork DEF RecordResolved, Resolve, Steps
    <2>1. BaselineOK'
      BY <1>10, <2>0, StatIsSome DEF RecordResolved, RecordRow, TInv, BaselineOK, Row
    <2>2. MarksOK'
      BY <1>10, <2>0, NoneAssumption, BoundsAssumption DEF RecordResolved, Hash, HashIs, RecordRow, Resolve,
                                                           Stat, TInv, MarksOK, BaselineOK, DiskOK, ResolverOK,
                                                           File
    <2>3. ResolverOK'
      BY <1>10, <2>0, NoneAssumption, BoundsAssumption DEF RecordResolved, Hash, HashIs, RecordRow, Resolve,
                                                           Stat, TInv, ResolverOK, NoResolution, BaselineOK,
                                                           DiskOK, File, Steps
    <2>4. FlagsOK'
      BY <1>10, <2>0, NoneAssumption, BoundsAssumption DEF RecordResolved, Hash, HashIs, RecordRow, Resolve,
                                                           Stat, TInv, FlagsOK, BaselineOK, DiskOK, ResolverOK,
                                                           File
    <2>5. DiskOK' /\ StoreOK' /\ LoadedOK' /\ ConflictsOK' /\ CopiesOK' /\ TreesOK' /\ SetsOK' /\ CallOK' /\ QueueOK' /\ BytesOK' /\ CountsOK' /\ PhaseInv'
      BY <1>10 DEF RecordResolved, RecordRow, Resolve, TInv, DiskOK, StoreOK, LoadedOK, ConflictsOK, CopiesOK,
                   TreesOK, SetsOK, CallOK, QueueOK, BytesOK, CountsOK, PhaseInv, Updates, Files
    <2> QED
      BY <2>1, <2>2, <2>3, <2>4, <2>5 DEF TInv
  <1>11. ASSUME RemoveResolved PROVE TInv'
    <2>0. /\ resolver = [path |-> resolver.path, step |-> resolver.step, content |-> resolver.content]
          /\ resolver.path \in Paths
      BY <1>11, ResolverAtWork DEF RemoveResolved, Resolve, Steps
    <2>1. DiskOK'
      BY <1>11, <2>0, NoneAssumption, BoundsAssumption DEF RemoveResolved, Resolve, TInv, DiskOK, CountsOK,
                                                           ResolverOK, File
    <2>2. ResolverOK'
      BY <1>11, <2>0, NoneAssumption, BoundsAssumption DEF RemoveResolved, Resolve, TInv, ResolverOK,
                                                           NoResolution, DiskOK, CountsOK, File, Steps
    <2>3. FlagsOK'
      BY <1>11, <2>0, NoneAssumption, BoundsAssumption DEF RemoveResolved, Resolve, TInv, FlagsOK, DiskOK,
                                                           CountsOK, ResolverOK, File
    <2>4. CountsOK'
      BY <1>11, <2>0, NoneAssumption, BoundsAssumption DEF RemoveResolved, Resolve, TInv, CountsOK, DiskOK,
                                                           ResolverOK, File
    <2>5. StoreOK' /\ BaselineOK' /\ LoadedOK' /\ ConflictsOK' /\ CopiesOK' /\ TreesOK' /\ SetsOK' /\ MarksOK' /\ CallOK' /\ QueueOK' /\ BytesOK' /\ PhaseInv'
      BY <1>11 DEF RemoveResolved, Resolve, TInv, StoreOK, BaselineOK, LoadedOK, ConflictsOK, CopiesOK, TreesOK,
                   SetsOK, MarksOK, CallOK, QueueOK, BytesOK, PhaseInv, Updates, Files
    <2> QED
      BY <2>1, <2>2, <2>3, <2>4, <2>5 DEF TInv
  <1>12. ASSUME DeleteResolved PROVE TInv'
    <2>0. /\ resolver = [path |-> resolver.path, step |-> resolver.step, content |-> resolver.content]
          /\ resolver.path \in Paths
      BY <1>12, ResolverAtWork DEF DeleteResolved, Resolve, Steps
    <2>1. StoreOK'
      BY <1>12, <2>0, NoneAssumption, BoundsAssumption DEF DeleteResolved, Resolve, TInv, StoreOK, ResolverOK,
                                                           RemoteFile
    <2>2. ResolverOK'
      BY <1>12, <2>0, NoneAssumption, BoundsAssumption DEF DeleteResolved, Resolve, TInv, ResolverOK,
                                                           NoResolution, StoreOK, RemoteFile, Steps
    <2>3. FlagsOK'
      BY <1>12, <2>0, NoneAssumption, BoundsAssumption DEF DeleteResolved, Resolve, TInv, FlagsOK, StoreOK,
                                                           ResolverOK, RemoteFile
    <2>4. DiskOK' /\ BaselineOK' /\ LoadedOK' /\ ConflictsOK' /\ CopiesOK' /\ TreesOK' /\ SetsOK' /\ MarksOK' /\ CallOK' /\ QueueOK' /\ BytesOK' /\ CountsOK' /\ PhaseInv'
      BY <1>12 DEF DeleteResolved, Resolve, TInv, DiskOK, BaselineOK, LoadedOK, ConflictsOK, CopiesOK, TreesOK,
                   SetsOK, MarksOK, CallOK, QueueOK, BytesOK, CountsOK, PhaseInv, Updates, Files
    <2> QED
      BY <2>1, <2>2, <2>3, <2>4 DEF TInv
  <1>13. ASSUME UnrecordResolved PROVE TInv'
    <2>0. /\ resolver = [path |-> resolver.path, step |-> resolver.step, content |-> resolver.content]
          /\ resolver.path \in Paths
      BY <1>13, ResolverAtWork DEF UnrecordResolved, Resolve, Steps
    <2>1. BaselineOK'
      BY <1>13, <2>0, NoneAssumption, BoundsAssumption DEF UnrecordResolved, RemoveRow, Resolve, TInv,
                                                           BaselineOK, ResolverOK, Row
    <2>2. MarksOK'
      BY <1>13, <2>0, NoneAssumption, BoundsAssumption DEF UnrecordResolved, RemoveRow, Resolve, TInv, MarksOK,
                                                           BaselineOK, ResolverOK
    <2>3. ResolverOK'
      BY <1>13, <2>0, NoneAssumption, BoundsAssumption DEF UnrecordResolved, RemoveRow, Resolve, TInv,
                                                           ResolverOK, NoResolution, BaselineOK, Steps
    <2>4. FlagsOK'
      BY <1>13, <2>0, NoneAssumption, BoundsAssumption DEF UnrecordResolved, RemoveRow, Resolve, TInv, FlagsOK,
                                                           BaselineOK, ResolverOK
    <2>5. DiskOK' /\ StoreOK' /\ LoadedOK' /\ ConflictsOK' /\ CopiesOK' /\ TreesOK' /\ SetsOK' /\ CallOK' /\ QueueOK' /\ BytesOK' /\ CountsOK' /\ PhaseInv'
      BY <1>13 DEF UnrecordResolved, RemoveRow, Resolve, TInv, DiskOK, StoreOK, LoadedOK, ConflictsOK, CopiesOK,
                   TreesOK, SetsOK, CallOK, QueueOK, BytesOK, CountsOK, PhaseInv, Updates, Files
    <2> QED
      BY <2>1, <2>2, <2>3, <2>4, <2>5 DEF TInv
  <1>14. ASSUME FinishResolution PROVE TInv'
    <2>0. /\ resolver = [path |-> resolver.path, step |-> resolver.step, content |-> resolver.content]
          /\ resolver.path \in Paths
      BY <1>14, ResolverAtWork DEF FinishResolution, Steps
    <2>1. ConflictsOK'
      BY <1>14, <2>0, NoneAssumption, BoundsAssumption DEF FinishResolution, ClearConflict, NoResolution, TInv,
                                                           ConflictsOK, CopiesOK, ResolverOK, Reasons
    <2>2. CopiesOK'
      BY <1>14, <2>0, NoneAssumption, BoundsAssumption DEF FinishResolution, ClearConflict, NoResolution, TInv,
                                                           CopiesOK, ConflictsOK, ResolverOK
    <2>3. MarksOK'
      BY <1>14, <2>0, NoneAssumption, BoundsAssumption DEF FinishResolution, ClearConflict, NoResolution, TInv,
                                                           MarksOK, ConflictsOK, CopiesOK, ResolverOK
    <2>4. ResolverOK'
      BY <1>14, <2>0, NoneAssumption, BoundsAssumption DEF FinishResolution, ClearConflict, NoResolution, TInv,
                                                           ResolverOK, ConflictsOK, CopiesOK, Steps
    <2>5. FlagsOK'
      BY <1>14, <2>0, NoneAssumption, BoundsAssumption DEF FinishResolution, ClearConflict, NoResolution, TInv,
                                                           FlagsOK, ConflictsOK, CopiesOK, ResolverOK
    <2>6. DiskOK' /\ StoreOK' /\ BaselineOK' /\ LoadedOK' /\ TreesOK' /\ SetsOK' /\ CallOK' /\ QueueOK' /\ BytesOK' /\ CountsOK' /\ PhaseInv'
      BY <1>14 DEF FinishResolution, ClearConflict, TInv, DiskOK, StoreOK, BaselineOK, LoadedOK, TreesOK,
                   SetsOK, CallOK, QueueOK, BytesOK, CountsOK, PhaseInv, Updates, Files
    <2> QED
      BY <2>1, <2>2, <2>3, <2>4, <2>5, <2>6 DEF TInv
  <1>15. ASSUME AbandonResolution PROVE TInv'
    <2>1. ResolverOK'
      BY <1>15, NoneAssumption, BoundsAssumption DEF AbandonResolution, NoResolution, TInv, ResolverOK, Steps
    <2>2. FlagsOK'
      BY <1>15, NoneAssumption, BoundsAssumption DEF AbandonResolution, NoResolution, TInv, FlagsOK, ResolverOK
    <2>3. DiskOK' /\ StoreOK' /\ BaselineOK' /\ LoadedOK' /\ ConflictsOK' /\ CopiesOK' /\ TreesOK' /\ SetsOK' /\ MarksOK' /\ CallOK' /\ QueueOK' /\ BytesOK' /\ CountsOK' /\ PhaseInv'
      BY <1>15 DEF AbandonResolution, TInv, DiskOK, StoreOK, BaselineOK, LoadedOK, ConflictsOK, CopiesOK,
                   TreesOK, SetsOK, MarksOK, CallOK, QueueOK, BytesOK, CountsOK, PhaseInv, Updates, Files
    <2> QED
      BY <2>1, <2>2, <2>3 DEF TInv
  <1>16. ASSUME Start PROVE TInv'
    <2>1. BaselineOK'
      BY <1>16, NoneAssumption, BoundsAssumption DEF Start, Scan, Stat, TInv, BaselineOK, Nothing, ConflictsOK,
                                                     DiskOK, LoadedOK, TreesOK, CountsOK, File, Row
    <2>2. LoadedOK'
      BY <1>16, NoneAssumption, BoundsAssumption DEF Start, Scan, Stat, TInv, LoadedOK, Nothing, BaselineOK,
                                                     ConflictsOK, DiskOK, TreesOK, CountsOK, File, Row
    <2>3. ConflictsOK'
      BY <1>16, NoneAssumption, BoundsAssumption DEF Start, Scan, Stat, TInv, ConflictsOK, Nothing, BaselineOK,
                                                     DiskOK, LoadedOK, TreesOK, CountsOK, File, Reasons
    <2>4. TreesOK'
      BY <1>16, NoneAssumption, BoundsAssumption DEF Start, Scan, Stat, TInv, TreesOK, Nothing, BaselineOK,
                                                     ConflictsOK, DiskOK, LoadedOK, CountsOK, File
    <2>5. MarksOK'
      BY <1>16, NoneAssumption, BoundsAssumption DEF Start, Scan, Stat, TInv, MarksOK, Nothing, BaselineOK,
                                                     ConflictsOK, DiskOK, LoadedOK, TreesOK, CountsOK, File
    <2>6. CallOK'
      BY <1>16, NoneAssumption, BoundsAssumption DEF Start, Scan, Stat, TInv, CallOK, CountsOK, Nothing,
                                                     BaselineOK, ConflictsOK, DiskOK, LoadedOK, TreesOK, File
    <2>7. FlagsOK'
      BY <1>16, NoneAssumption, BoundsAssumption DEF Start, Scan, Stat, TInv, FlagsOK, Nothing, BaselineOK,
                                                     ConflictsOK, DiskOK, LoadedOK, TreesOK, CountsOK, File
    <2>8. CountsOK'
      BY <1>16, NoneAssumption, BoundsAssumption DEF Start, Scan, Stat, TInv, CountsOK, Nothing, BaselineOK,
                                                     ConflictsOK, DiskOK, LoadedOK, TreesOK, File
    <2>9. PhaseInv'
      BY <1>16, NoneAssumption, BoundsAssumption DEF Start, Scan, Stat, TInv, PhaseInv, Files, TreesOK,
                                                     CountsOK, Nothing
    <2>10. DiskOK' /\ StoreOK' /\ CopiesOK' /\ SetsOK' /\ QueueOK' /\ ResolverOK' /\ BytesOK'
      BY <1>16 DEF Start, TInv, DiskOK, StoreOK, CopiesOK, SetsOK, QueueOK, ResolverOK, BytesOK, Updates,
                   NoResolution
    <2> QED
      BY <2>1, <2>2, <2>3, <2>4, <2>5, <2>6, <2>7, <2>8, <2>9, <2>10 DEF TInv
  <1>17. ASSUME Reconcile PROVE TInv'
    <2>1. StoreOK'
      BY <1>17, NoneAssumption, BoundsAssumption DEF Reconcile, BaselineHash, Files, Hash, HashIs,
                                                     MatchingRemoteFiles, PreserveLocalFiles,
                                                     RemoteDeleteWinsPaths, StartupConflicts, Unchanged, TInv,
                                                     StoreOK, Nothing, DiskOK, LoadedOK, TreesOK, CountsOK,
                                                     ConflictsOK, SetsOK, File, RemoteFile
    <2>2. LoadedOK'
      BY <1>17, NoneAssumption, BoundsAssumption DEF Reconcile, BaselineHash, Files, Hash, HashIs,
                                                     MatchingRemoteFiles, PreserveLocalFiles,
                                                     RemoteDeleteWinsPaths, StartupConflicts, Unchanged, TInv,
                                                     LoadedOK, Nothing, DiskOK, TreesOK, CountsOK, StoreOK,
                                                     ConflictsOK, SetsOK, File, RemoteFile, Row
    <2>3. ConflictsOK'
      BY <1>17, NoneAssumption, BoundsAssumption DEF Reconcile, BaselineHash, Files, Hash, HashIs,
                                                     MatchingRemoteFiles, PreserveLocalFiles,
                                                     RemoteDeleteWinsPaths, StartupConflicts, Unchanged, TInv,
                                                     ConflictsOK, Nothing, DiskOK, LoadedOK, TreesOK, CountsOK,
                                                     StoreOK, SetsOK, File, RemoteFile, Reasons
    <2>4. SetsOK'
      BY <1>17, NoneAssumption, BoundsAssumption DEF Reconcile, BaselineHash, Files, Hash, HashIs,
                                                     MatchingRemoteFiles, PreserveLocalFiles,
                                                     RemoteDeleteWinsPaths, StartupConflicts, Unchanged, TInv,
                                                     SetsOK, Nothing, DiskOK, LoadedOK, TreesOK, CountsOK,
                                                     StoreOK, ConflictsOK, File, RemoteFile
    <2>5. CallOK'
      BY <1>17, NoneAssumption, BoundsAssumption DEF Reconcile, BaselineHash, Files, Hash, HashIs,
                                                     MatchingRemoteFiles, PreserveLocalFiles,
                                                     RemoteDeleteWinsPaths, StartupConflicts, Unchanged, TInv,
                                                     CallOK, CountsOK, Nothing, DiskOK, LoadedOK, TreesOK,
                                                     StoreOK, ConflictsOK, SetsOK, File, RemoteFile
    <2>6. QueueOK'
      BY <1>17, NoneAssumption, BoundsAssumption DEF Reconcile, BaselineHash, Files, Hash, HashIs,
                                                     MatchingRemoteFiles, PreserveLocalFiles,
                                                     RemoteDeleteWinsPaths, StartupConflicts, Unchanged, TInv,
                                                     QueueOK, Updates, StoreOK, Nothing, DiskOK, LoadedOK,
                                                     TreesOK, CountsOK, ConflictsOK, SetsOK, File, RemoteFile
    <2>7. CountsOK'
      BY <1>17, NoneAssumption, BoundsAssumption DEF Reconcile, BaselineHash, Files, Hash, HashIs,
                                                     MatchingRemoteFiles, PreserveLocalFiles,
                                                     RemoteDeleteWinsPaths, StartupConflicts, Unchanged, TInv,
                                                     CountsOK, Nothing, DiskOK, LoadedOK, TreesOK, StoreOK,
                                                     ConflictsOK, SetsOK, File, RemoteFile
    <2>8. PhaseInv'
      BY <1>17, NoneAssumption, BoundsAssumption DEF Reconcile, BaselineHash, Files, Hash, HashIs,
                                                     MatchingRemoteFiles, PreserveLocalFiles,
                                                     RemoteDeleteWinsPaths, StartupConflicts, Unchanged, TInv,
                                                     PhaseInv, CountsOK, StoreOK, SetsOK, Nothing
    <2>9. DiskOK' /\ BaselineOK' /\ CopiesOK' /\ TreesOK' /\ MarksOK' /\ ResolverOK' /\ BytesOK' /\ FlagsOK'
      BY <1>17 DEF Reconcile, TInv, DiskOK, BaselineOK, CopiesOK, TreesOK, MarksOK, ResolverOK, BytesOK,
                   FlagsOK, NoResolution
    <2> QED
      BY <2>1, <2>2, <2>3, <2>4, <2>5, <2>6, <2>7, <2>8, <2>9 DEF TInv
  <1>18. ASSUME NEW p \in Paths, RepairRow(p) PROVE TInv'
    <2>1. BaselineOK'
      <3>1. local_state[p] \in Stamps /\ RemoteHash(p) \in Contents
        BY <1>18 DEF RepairRow, TInv, PhaseInv, SetsOK, Files, RemoteHash, TreesOK, StoreOK, RemoteFile
      <3> QED
        BY <1>18, <3>1 DEF RepairRow, RecordRow, TInv, BaselineOK, Row
    <2>2. SetsOK'
      BY <1>18, NoneAssumption, BoundsAssumption DEF RepairRow, Hash, HashIs, RecordRow, RemoteHash, TInv,
                                                     SetsOK, BaselineOK, DiskOK, TreesOK, CountsOK, StoreOK,
                                                     File, RemoteFile
    <2>3. MarksOK'
      BY <1>18, NoneAssumption, BoundsAssumption DEF RepairRow, Hash, HashIs, RecordRow, RemoteHash, TInv,
                                                     MarksOK, BaselineOK, DiskOK, TreesOK, CountsOK, StoreOK,
                                                     SetsOK, File, RemoteFile
    <2>4. PhaseInv'
      BY <1>18, NoneAssumption, BoundsAssumption DEF RepairRow, Hash, HashIs, RecordRow, RemoteHash, TInv,
                                                     PhaseInv, Files, SetsOK
    <2>5. DiskOK' /\ StoreOK' /\ LoadedOK' /\ ConflictsOK' /\ CopiesOK' /\ TreesOK' /\ CallOK' /\ QueueOK' /\ ResolverOK' /\ BytesOK' /\ FlagsOK' /\ CountsOK'
      BY <1>18 DEF RepairRow, RecordRow, TInv, DiskOK, StoreOK, LoadedOK, ConflictsOK, CopiesOK, TreesOK,
                   CallOK, QueueOK, ResolverOK, BytesOK, FlagsOK, CountsOK, Updates, NoResolution
    <2> QED
      BY <2>1, <2>2, <2>3, <2>4, <2>5 DEF TInv
  <1>19. ASSUME BeginCopies PROVE TInv'
    <2>1. SetsOK'
      BY <1>19, NoneAssumption, BoundsAssumption DEF BeginCopies, TInv, SetsOK, CountsOK, ConflictsOK
    <2>2. CallOK'
      BY <1>19, NoneAssumption, BoundsAssumption DEF BeginCopies, TInv, CallOK, CountsOK, ConflictsOK, SetsOK
    <2>3. CountsOK'
      BY <1>19, NoneAssumption, BoundsAssumption DEF BeginCopies, TInv, CountsOK, ConflictsOK, SetsOK
    <2>4. PhaseInv'
      BY <1>19, NoneAssumption, BoundsAssumption DEF BeginCopies, TInv, PhaseInv, Files, CountsOK, SetsOK
    <2>5. DiskOK' /\ StoreOK' /\ BaselineOK' /\ LoadedOK' /\ ConflictsOK' /\ CopiesOK' /\ TreesOK' /\ MarksOK' /\ QueueOK' /\ ResolverOK' /\ BytesOK' /\ FlagsOK'
      BY <1>19 DEF BeginCopies, TInv, DiskOK, StoreOK, BaselineOK, LoadedOK, ConflictsOK, CopiesOK, TreesOK,
                   MarksOK, QueueOK, ResolverOK, BytesOK, FlagsOK, Updates, NoResolution
    <2> QED
      BY <2>1, <2>2, <2>3, <2>4, <2>5 DEF TInv
  <1>20. ASSUME NEW p \in Paths, CopyConflict(p) PROVE TInv'
    <2>1. CopiesOK'
      BY <1>20, NoneAssumption, BoundsAssumption DEF CopyConflict, TInv, CopiesOK, CountsOK, StoreOK, SetsOK,
                                                     RemoteFile
    <2>2. SetsOK'
      BY <1>20, NoneAssumption, BoundsAssumption DEF CopyConflict, TInv, SetsOK, CopiesOK, CountsOK, StoreOK,
                                                     RemoteFile
    <2>3. MarksOK'
      BY <1>20, NoneAssumption, BoundsAssumption DEF CopyConflict, TInv, MarksOK, CopiesOK, CountsOK, StoreOK,
                                                     SetsOK, RemoteFile
    <2>4. PhaseInv'
      BY <1>20, NoneAssumption, BoundsAssumption DEF CopyConflict, TInv, PhaseInv, Files, SetsOK
    <2>5. DiskOK' /\ StoreOK' /\ BaselineOK' /\ LoadedOK' /\ ConflictsOK' /\ TreesOK' /\ CallOK' /\ QueueOK' /\ ResolverOK' /\ BytesOK' /\ FlagsOK' /\ CountsOK'
      BY <1>20 DEF CopyConflict, TInv, DiskOK, StoreOK, BaselineOK, LoadedOK, ConflictsOK, TreesOK, CallOK,
                   QueueOK, ResolverOK, BytesOK, FlagsOK, CountsOK, Updates, NoResolution
    <2> QED
      BY <2>1, <2>2, <2>3, <2>4, <2>5 DEF TInv
  <1>21. ASSUME BeginApply PROVE TInv'
    <2>1. SetsOK'
      BY <1>21, NoneAssumption, BoundsAssumption DEF BeginApply, Files, TInv, SetsOK, CountsOK, StoreOK,
                                                     RemoteFile
    <2>2. CallOK'
      BY <1>21, NoneAssumption, BoundsAssumption DEF BeginApply, Files, TInv, CallOK, CountsOK, StoreOK, SetsOK,
                                                     RemoteFile
    <2>3. CountsOK'
      BY <1>21, NoneAssumption, BoundsAssumption DEF BeginApply, Files, TInv, CountsOK, StoreOK, SetsOK,
                                                     RemoteFile
    <2>4. PhaseInv'
      BY <1>21, NoneAssumption, BoundsAssumption DEF BeginApply, Files, TInv, PhaseInv, CountsOK, SetsOK
    <2>5. DiskOK' /\ StoreOK' /\ BaselineOK' /\ LoadedOK' /\ ConflictsOK' /\ CopiesOK' /\ TreesOK' /\ MarksOK' /\ QueueOK' /\ ResolverOK' /\ BytesOK' /\ FlagsOK'
      BY <1>21 DEF BeginApply, TInv, DiskOK, StoreOK, BaselineOK, LoadedOK, ConflictsOK, CopiesOK, TreesOK,
                   MarksOK, QueueOK, ResolverOK, BytesOK, FlagsOK, Updates, NoResolution
    <2> QED
      BY <2>1, <2>2, <2>3, <2>4, <2>5 DEF TInv
  <1>22. ASSUME NEW p \in Paths, SkipAtStartup(p) PROVE TInv'
    <2>1. SetsOK'
      BY <1>22, NoneAssumption, BoundsAssumption DEF SkipAtStartup, KeptAtStartup, TInv, SetsOK, DiskOK,
                                                     CountsOK, File
    <2>2. PhaseInv'
      BY <1>22, NoneAssumption, BoundsAssumption DEF SkipAtStartup, KeptAtStartup, TInv, PhaseInv, Files, SetsOK
    <2>3. DiskOK' /\ StoreOK' /\ BaselineOK' /\ LoadedOK' /\ ConflictsOK' /\ CopiesOK' /\ TreesOK' /\ MarksOK' /\ CallOK' /\ QueueOK' /\ ResolverOK' /\ BytesOK' /\ FlagsOK' /\ CountsOK'
      BY <1>22 DEF SkipAtStartup, TInv, DiskOK, StoreOK, BaselineOK, LoadedOK, ConflictsOK, CopiesOK, TreesOK,
                   MarksOK, CallOK, QueueOK, ResolverOK, BytesOK, FlagsOK, CountsOK, Updates, NoResolution
    <2> QED
      BY <2>1, <2>2, <2>3 DEF TInv
  <1>23. ASSUME BeginRemovals PROVE TInv'
    <2>1. SetsOK'
      BY <1>23, NoneAssumption, BoundsAssumption DEF BeginRemovals, Files, TInv, SetsOK, CountsOK, StoreOK,
                                                     RemoteFile
    <2>2. CallOK'
      BY <1>23, NoneAssumption, BoundsAssumption DEF BeginRemovals, Files, TInv, CallOK, CountsOK, SetsOK,
                                                     StoreOK, RemoteFile
    <2>3. CountsOK'
      BY <1>23, NoneAssumption, BoundsAssumption DEF BeginRemovals, Files, TInv, CountsOK, SetsOK, StoreOK,
                                                     RemoteFile
    <2>4. PhaseInv'
      BY <1>23, NoneAssumption, BoundsAssumption DEF BeginRemovals, Files, TInv, PhaseInv, CountsOK, SetsOK
    <2>5. DiskOK' /\ StoreOK' /\ BaselineOK' /\ LoadedOK' /\ ConflictsOK' /\ CopiesOK' /\ TreesOK' /\ MarksOK' /\ QueueOK' /\ ResolverOK' /\ BytesOK' /\ FlagsOK'
      BY <1>23 DEF BeginRemovals, TInv, DiskOK, StoreOK, BaselineOK, LoadedOK, ConflictsOK, CopiesOK, TreesOK,
                   MarksOK, QueueOK, ResolverOK, BytesOK, FlagsOK, Updates, NoResolution
    <2> QED
      BY <2>1, <2>2, <2>3, <2>4, <2>5 DEF TInv
  <1>24. ASSUME NEW p \in Paths, RemoveWinner(p) PROVE TInv'
    <2>1. DiskOK'
      BY <1>24, NoneAssumption, BoundsAssumption DEF RemoveWinner, Losing, NoCall, RemoveLocal, TInv, DiskOK,
                                                     CallOK, CountsOK, SetsOK, File, BytesOK
    <2>2. CallOK'
      BY <1>24, NoneAssumption, BoundsAssumption DEF RemoveWinner, Losing, NoCall, RemoveLocal, TInv, CallOK,
                                                     CountsOK, DiskOK, SetsOK, File, BytesOK
    <2>3. BytesOK'
      BY <1>24, StatIsSome DEF RemoveWinner, RemoveLocal, Losing, TInv, BytesOK
    <2>4. CountsOK'
      BY <1>24, NoneAssumption, BoundsAssumption DEF RemoveWinner, Losing, NoCall, RemoveLocal, TInv, CountsOK,
                                                     CallOK, DiskOK, SetsOK, File, BytesOK
    <2>5. PhaseInv'
      BY <1>24, NoneAssumption, BoundsAssumption DEF RemoveWinner, Losing, NoCall, RemoveLocal, TInv, PhaseInv,
                                                     Files, CallOK, CountsOK
    <2>6. StoreOK' /\ BaselineOK' /\ LoadedOK' /\ ConflictsOK' /\ CopiesOK' /\ TreesOK' /\ SetsOK' /\ MarksOK' /\ QueueOK' /\ ResolverOK' /\ FlagsOK'
      BY <1>24 DEF RemoveWinner, Losing, RemoveLocal, TInv, StoreOK, BaselineOK, LoadedOK, ConflictsOK,
                   CopiesOK, TreesOK, SetsOK, MarksOK, QueueOK, ResolverOK, FlagsOK, Updates, NoResolution
    <2> QED
      BY <2>1, <2>2, <2>3, <2>4, <2>5, <2>6 DEF TInv
  <1>25. ASSUME PersistStartup PROVE TInv'
    <2>1. BaselineOK'
      BY <1>25, NoneAssumption, BoundsAssumption DEF PersistStartup, Persisted, Seeded, StartupBaselineState,
                                                     TInv, BaselineOK, TreesOK, CountsOK, SetsOK, Row
    <2>2. TreesOK'
      BY <1>25, NoneAssumption, BoundsAssumption DEF PersistStartup, Persisted, Seeded, StartupBaselineState,
                                                     TInv, TreesOK, BaselineOK, CountsOK, SetsOK
    <2>3. CallOK'
      BY <1>25, NoneAssumption, BoundsAssumption DEF PersistStartup, Persisted, Seeded, StartupBaselineState,
                                                     TInv, CallOK, CountsOK, BaselineOK, TreesOK, SetsOK
    <2>4. CountsOK'
      BY <1>25, NoneAssumption, BoundsAssumption DEF PersistStartup, Persisted, Seeded, StartupBaselineState,
                                                     TInv, CountsOK, BaselineOK, TreesOK, SetsOK
    <2>5. PhaseInv'
      BY <1>25, NoneAssumption, BoundsAssumption DEF PersistStartup, Persisted, Seeded, StartupBaselineState,
                                                     TInv, PhaseInv, Files, TreesOK, CountsOK
    <2>6. DiskOK' /\ StoreOK' /\ LoadedOK' /\ ConflictsOK' /\ CopiesOK' /\ SetsOK' /\ MarksOK' /\ QueueOK' /\ ResolverOK' /\ BytesOK' /\ FlagsOK'
      BY <1>25 DEF PersistStartup, TInv, DiskOK, StoreOK, LoadedOK, ConflictsOK, CopiesOK, SetsOK, MarksOK,
                   QueueOK, ResolverOK, BytesOK, FlagsOK, Updates, NoResolution
    <2> QED
      BY <2>1, <2>2, <2>3, <2>4, <2>5, <2>6 DEF TInv
  <1>26. ASSUME FinishStartupSync PROVE TInv'
    <2>1. BaselineOK'
      BY <1>26, NoneAssumption, BoundsAssumption DEF FinishStartupSync, Persisted, TInv, BaselineOK, Nothing,
                                                     TreesOK, CountsOK, SetsOK, Row
    <2>2. TreesOK'
      BY <1>26, NoneAssumption, BoundsAssumption DEF FinishStartupSync, Persisted, TInv, TreesOK, Nothing,
                                                     BaselineOK, CountsOK, SetsOK
    <2>3. CallOK'
      BY <1>26, NoneAssumption, BoundsAssumption DEF FinishStartupSync, Persisted, TInv, CallOK, CountsOK,
                                                     Nothing, BaselineOK, TreesOK, SetsOK
    <2>4. CountsOK'
      BY <1>26, NoneAssumption, BoundsAssumption DEF FinishStartupSync, Persisted, TInv, CountsOK, Nothing,
                                                     BaselineOK, TreesOK, SetsOK
    <2>5. PhaseInv'
      BY <1>26, NoneAssumption, BoundsAssumption DEF FinishStartupSync, Persisted, TInv, PhaseInv, Files,
                                                     TreesOK, CountsOK, Nothing
    <2>6. DiskOK' /\ StoreOK' /\ LoadedOK' /\ ConflictsOK' /\ CopiesOK' /\ SetsOK' /\ MarksOK' /\ QueueOK' /\ ResolverOK' /\ BytesOK' /\ FlagsOK'
      BY <1>26 DEF FinishStartupSync, TInv, DiskOK, StoreOK, LoadedOK, ConflictsOK, CopiesOK, SetsOK, MarksOK,
                   QueueOK, ResolverOK, BytesOK, FlagsOK, Updates, NoResolution
    <2> QED
      BY <2>1, <2>2, <2>3, <2>4, <2>5, <2>6 DEF TInv
  <1>27. ASSUME FinishStartup PROVE TInv'
    <2>1. StoreOK'
      BY <1>27, NoneAssumption, BoundsAssumption DEF FinishStartup, TInv, StoreOK, Nothing, ConflictsOK,
                                                     CountsOK, RemoteFile
    <2>2. ConflictsOK'
      BY <1>27, NoneAssumption, BoundsAssumption DEF FinishStartup, TInv, ConflictsOK, Nothing, StoreOK,
                                                     CountsOK, RemoteFile, Reasons
    <2>3. SetsOK'
      BY <1>27, NoneAssumption, BoundsAssumption DEF FinishStartup, TInv, SetsOK, Nothing, ConflictsOK, StoreOK,
                                                     CountsOK, RemoteFile
    <2>4. CallOK'
      BY <1>27, NoneAssumption, BoundsAssumption DEF FinishStartup, TInv, CallOK, CountsOK, Nothing,
                                                     ConflictsOK, StoreOK, RemoteFile
    <2>5. QueueOK'
      BY <1>27, NoneAssumption, BoundsAssumption DEF FinishStartup, TInv, QueueOK, Updates, StoreOK, Nothing,
                                                     ConflictsOK, CountsOK, RemoteFile
    <2>6. FlagsOK'
      BY <1>27, NoneAssumption, BoundsAssumption DEF FinishStartup, TInv, FlagsOK, Nothing, ConflictsOK,
                                                     StoreOK, CountsOK, RemoteFile
    <2>7. CountsOK'
      BY <1>27, NoneAssumption, BoundsAssumption DEF FinishStartup, TInv, CountsOK, Nothing, ConflictsOK,
                                                     StoreOK, RemoteFile
    <2>8. PhaseInv'
      BY <1>27, NoneAssumption, BoundsAssumption DEF FinishStartup, TInv, PhaseInv, Files, CountsOK, StoreOK,
                                                     Nothing
    <2>9. DiskOK' /\ BaselineOK' /\ LoadedOK' /\ CopiesOK' /\ TreesOK' /\ MarksOK' /\ ResolverOK' /\ BytesOK'
      BY <1>27 DEF FinishStartup, TInv, DiskOK, BaselineOK, LoadedOK, CopiesOK, TreesOK, MarksOK, ResolverOK,
                   BytesOK, NoResolution
    <2> QED
      BY <2>1, <2>2, <2>3, <2>4, <2>5, <2>6, <2>7, <2>8, <2>9 DEF TInv
  <1>28. ASSUME NEW p \in Paths, Download(p) PROVE TInv'
    <2>1. CallOK'
      BY <1>28, NoneAssumption DEF Download, RemoteHash, TInv, CallOK, StoreOK, RemoteFile
    <2>2. CountsOK'
      BY <1>28, NoneAssumption, BoundsAssumption DEF Download, Diverged, Hash, HashIs, KeptAtStartup,
                                                     RemoteHash, Stat, ToDownload, TInv, CountsOK, CallOK,
                                                     DiskOK, TreesOK, StoreOK, SetsOK, File, RemoteFile
    <2>3. PhaseInv'
      BY <1>28, NoneAssumption, BoundsAssumption DEF Download, Diverged, Hash, HashIs, KeptAtStartup,
                                                     RemoteHash, Stat, ToDownload, TInv, PhaseInv, Files,
                                                     CallOK, CountsOK
    <2>4. DiskOK' /\ StoreOK' /\ BaselineOK' /\ LoadedOK' /\ ConflictsOK' /\ CopiesOK' /\ TreesOK' /\ SetsOK' /\ MarksOK' /\ QueueOK' /\ ResolverOK' /\ BytesOK' /\ FlagsOK'
      BY <1>28 DEF Download, TInv, DiskOK, StoreOK, BaselineOK, LoadedOK, ConflictsOK, CopiesOK, TreesOK,
                   SetsOK, MarksOK, QueueOK, ResolverOK, BytesOK, FlagsOK, Updates, NoResolution
    <2> QED
      BY <2>1, <2>2, <2>3, <2>4 DEF TInv
  <1>29. ASSUME InstallDownload PROVE TInv'
    <2>1. DiskOK'
      BY <1>29, StampIsFresh, NoneAssumption, BoundsAssumption DEF InstallDownload, Losing, Stat, TInv, DiskOK,
                                                                   CallOK, CountsOK, File, BytesOK
    <2>2. CallOK'
      BY <1>29, StampIsFresh, NoneAssumption, BoundsAssumption DEF InstallDownload, Losing, Stat, TInv, CallOK,
                                                                   CountsOK, DiskOK, File, BytesOK
    <2>3. BytesOK'
      BY <1>29, StatIsSome DEF InstallDownload, Losing, TInv, CallOK, BytesOK
    <2>4. CountsOK'
      BY <1>29, StampIsFresh, NoneAssumption, BoundsAssumption DEF InstallDownload, Losing, Stat, TInv,
                                                                   CountsOK, CallOK, DiskOK, File, BytesOK
    <2>5. PhaseInv'
      BY <1>29, StampIsFresh, NoneAssumption, BoundsAssumption DEF InstallDownload, Losing, Stat, TInv,
                                                                   PhaseInv, Files, CountsOK, CallOK
    <2>6. StoreOK' /\ BaselineOK' /\ LoadedOK' /\ ConflictsOK' /\ CopiesOK' /\ TreesOK' /\ SetsOK' /\ MarksOK' /\ QueueOK' /\ ResolverOK' /\ FlagsOK'
      BY <1>29 DEF InstallDownload, Losing, TInv, StoreOK, BaselineOK, LoadedOK, ConflictsOK, CopiesOK, TreesOK,
                   SetsOK, MarksOK, QueueOK, ResolverOK, FlagsOK, Updates, NoResolution
    <2> QED
      BY <2>1, <2>2, <2>3, <2>4, <2>5, <2>6 DEF TInv
  <1>30. ASSUME Record PROVE TInv'
    <2>1. BaselineOK'
      BY <1>30, StatIsSome DEF Record, Adopt, RecordRow, TInv, CallOK, BaselineOK, Row
    <2>2. TreesOK'
      BY <1>30, StatIsSome DEF Record, Adopt, TInv, CallOK, TreesOK
    <2>3. SetsOK'
      BY <1>30, NoneAssumption, BoundsAssumption DEF Record, Adopt, Hash, HashIs, NoCall, RecordRow, Stat, TInv,
                                                     SetsOK, CallOK, BaselineOK, DiskOK, TreesOK, CountsOK, File
    <2>4. MarksOK'
      BY <1>30, NoneAssumption, BoundsAssumption DEF Record, Adopt, Hash, HashIs, NoCall, RecordRow, Stat, TInv,
                                                     MarksOK, CallOK, BaselineOK, DiskOK, TreesOK, CountsOK,
                                                     SetsOK, File
    <2>5. CallOK'
      BY <1>30, NoneAssumption, BoundsAssumption DEF Record, Adopt, Hash, HashIs, NoCall, RecordRow, Stat, TInv,
                                                     CallOK, CountsOK, BaselineOK, DiskOK, TreesOK, SetsOK, File
    <2>6. CountsOK'
      BY <1>30, NoneAssumption, BoundsAssumption DEF Record, Adopt, Hash, HashIs, NoCall, RecordRow, Stat, TInv,
                                                     CountsOK, CallOK, BaselineOK, DiskOK, TreesOK, SetsOK, File
    <2>7. PhaseInv'
      BY <1>30, NoneAssumption, BoundsAssumption DEF Record, Adopt, Hash, HashIs, NoCall, RecordRow, Stat, TInv,
                                                     PhaseInv, Files, CallOK, TreesOK, CountsOK, SetsOK
    <2>8. DiskOK' /\ StoreOK' /\ LoadedOK' /\ ConflictsOK' /\ CopiesOK' /\ QueueOK' /\ ResolverOK' /\ BytesOK' /\ FlagsOK'
      BY <1>30 DEF Record, Adopt, RecordRow, TInv, DiskOK, StoreOK, LoadedOK, ConflictsOK, CopiesOK, QueueOK,
                   ResolverOK, BytesOK, FlagsOK, Updates, NoResolution
    <2> QED
      BY <2>1, <2>2, <2>3, <2>4, <2>5, <2>6, <2>7, <2>8 DEF TInv
  <1>31. ASSUME ScanLocal PROVE TInv'
    <2>1. TreesOK'
      BY <1>31, NoneAssumption, BoundsAssumption DEF ScanLocal, Scan, Seeded, Stat, TInv, TreesOK, DiskOK,
                                                     CountsOK, SetsOK, File
    <2>2. SetsOK'
      BY <1>31, NoneAssumption, BoundsAssumption DEF ScanLocal, Scan, Seeded, Stat, TInv, SetsOK, TreesOK,
                                                     DiskOK, CountsOK, File
    <2>3. CallOK'
      BY <1>31, NoneAssumption, BoundsAssumption DEF ScanLocal, Scan, Seeded, Stat, TInv, CallOK, CountsOK,
                                                     TreesOK, DiskOK, SetsOK, File
    <2>4. CountsOK'
      BY <1>31, NoneAssumption, BoundsAssumption DEF ScanLocal, Scan, Seeded, Stat, TInv, CountsOK, TreesOK,
                                                     DiskOK, SetsOK, File
    <2>5. PhaseInv'
      BY <1>31, NoneAssumption, BoundsAssumption DEF ScanLocal, Scan, Seeded, Stat, TInv, PhaseInv, Files,
                                                     TreesOK, CountsOK, SetsOK
    <2>6. DiskOK' /\ StoreOK' /\ BaselineOK' /\ LoadedOK' /\ ConflictsOK' /\ CopiesOK' /\ MarksOK' /\ QueueOK' /\ ResolverOK' /\ BytesOK' /\ FlagsOK'
      BY <1>31 DEF ScanLocal, TInv, DiskOK, StoreOK, BaselineOK, LoadedOK, ConflictsOK, CopiesOK, MarksOK,
                   QueueOK, ResolverOK, BytesOK, FlagsOK, Updates, NoResolution
    <2> QED
      BY <2>1, <2>2, <2>3, <2>4, <2>5, <2>6 DEF TInv
  <1>32. ASSUME NEW p \in Paths, SkipUpload(p) PROVE TInv'
    <2>1. TreesOK'
      BY <1>32, NoneAssumption, BoundsAssumption DEF SkipUpload, Suppressed, TInv, TreesOK, CountsOK, SetsOK
    <2>2. SetsOK'
      BY <1>32, NoneAssumption, BoundsAssumption DEF SkipUpload, Suppressed, TInv, SetsOK, TreesOK, CountsOK
    <2>3. PhaseInv'
      BY <1>32, NoneAssumption, BoundsAssumption DEF SkipUpload, Suppressed, TInv, PhaseInv, Files, TreesOK,
                                                     SetsOK
    <2>4. DiskOK' /\ StoreOK' /\ BaselineOK' /\ LoadedOK' /\ ConflictsOK' /\ CopiesOK' /\ MarksOK' /\ CallOK' /\ QueueOK' /\ ResolverOK' /\ BytesOK' /\ FlagsOK' /\ CountsOK'
      BY <1>32 DEF SkipUpload, TInv, DiskOK, StoreOK, BaselineOK, LoadedOK, ConflictsOK, CopiesOK, MarksOK,
                   CallOK, QueueOK, ResolverOK, BytesOK, FlagsOK, CountsOK, Updates, NoResolution
    <2> QED
      BY <2>1, <2>2, <2>3, <2>4 DEF TInv
  <1>33. ASSUME NEW p \in Paths, Upload(p) PROVE TInv'
    <2>1. StoreOK'
      BY <1>33, VersionIsFresh, NoneAssumption, BoundsAssumption DEF Upload, Hash, Suppressed, TInv, StoreOK,
                                                                     CallOK, TreesOK, DiskOK, CountsOK, SetsOK,
                                                                     File, RemoteFile, BytesOK
    <2>2. CallOK'
      BY <1>33, StatIsSome DEF Upload, Hash, TInv, CallOK
    <2>3. BytesOK'
      BY <1>33, StatIsSome DEF Upload, Hash, TInv, BytesOK
    <2>4. CountsOK'
      BY <1>33, VersionIsFresh, NoneAssumption, BoundsAssumption DEF Upload, Hash, Suppressed, TInv, CountsOK,
                                                                     CallOK, TreesOK, DiskOK, StoreOK, SetsOK,
                                                                     File, RemoteFile, BytesOK
    <2>5. PhaseInv'
      BY <1>33, VersionIsFresh, NoneAssumption, BoundsAssumption DEF Upload, Hash, Suppressed, TInv, PhaseInv,
                                                                     Files, CallOK, CountsOK
    <2>6. DiskOK' /\ BaselineOK' /\ LoadedOK' /\ ConflictsOK' /\ CopiesOK' /\ TreesOK' /\ SetsOK' /\ MarksOK' /\ QueueOK' /\ ResolverOK' /\ FlagsOK'
      BY <1>33 DEF Upload, TInv, DiskOK, BaselineOK, LoadedOK, ConflictsOK, CopiesOK, TreesOK, SetsOK, MarksOK,
                   QueueOK, ResolverOK, FlagsOK, Updates, NoResolution
    <2> QED
      BY <2>1, <2>2, <2>3, <2>4, <2>5, <2>6 DEF TInv
  <1>34. ASSUME RecordUpload PROVE TInv'
    <2>1. BaselineOK'
      <3>1. call.path \in Paths /\ current[call.path] \in Stamps /\ call.hash \in Contents
        BY <1>34 DEF RecordUpload, TInv, PhaseInv, CallOK, TreesOK
      <3> QED
        BY <1>34, <3>1 DEF RecordUpload, RecordRow, TInv, BaselineOK, Row
    <2>2. SetsOK'
      BY <1>34, NoneAssumption, BoundsAssumption DEF RecordUpload, Hash, HashIs, NoCall, RecordRow, TInv,
                                                     SetsOK, CallOK, BaselineOK, TreesOK, DiskOK, CountsOK, File
    <2>3. MarksOK'
      BY <1>34, NoneAssumption, BoundsAssumption DEF RecordUpload, Hash, HashIs, NoCall, RecordRow, TInv,
                                                     MarksOK, CallOK, BaselineOK, TreesOK, DiskOK, CountsOK,
                                                     SetsOK, File
    <2>4. CallOK'
      BY <1>34, NoneAssumption, BoundsAssumption DEF RecordUpload, Hash, HashIs, NoCall, RecordRow, TInv,
                                                     CallOK, CountsOK, BaselineOK, TreesOK, DiskOK, SetsOK, File
    <2>5. CountsOK'
      BY <1>34, NoneAssumption, BoundsAssumption DEF RecordUpload, Hash, HashIs, NoCall, RecordRow, TInv,
                                                     CountsOK, CallOK, BaselineOK, TreesOK, DiskOK, SetsOK, File
    <2>6. PhaseInv'
      BY <1>34, NoneAssumption, BoundsAssumption DEF RecordUpload, Hash, HashIs, NoCall, RecordRow, TInv,
                                                     PhaseInv, Files, CallOK, CountsOK, SetsOK
    <2>7. DiskOK' /\ StoreOK' /\ LoadedOK' /\ ConflictsOK' /\ CopiesOK' /\ TreesOK' /\ QueueOK' /\ ResolverOK' /\ BytesOK' /\ FlagsOK'
      BY <1>34 DEF RecordUpload, RecordRow, TInv, DiskOK, StoreOK, LoadedOK, ConflictsOK, CopiesOK, TreesOK,
                   QueueOK, ResolverOK, BytesOK, FlagsOK, Updates, NoResolution
    <2> QED
      BY <2>1, <2>2, <2>3, <2>4, <2>5, <2>6, <2>7 DEF TInv
  <1>35. ASSUME NEW p \in Paths, DeleteRemote(p) PROVE TInv'
    <2>1. StoreOK'
      BY <1>35, NoneAssumption, BoundsAssumption DEF DeleteRemote, KnownRemote, NoCall, TInv, StoreOK, CallOK,
                                                     TreesOK, CountsOK, SetsOK, RemoteFile
    <2>2. CallOK'
      BY <1>35, NoneAssumption, BoundsAssumption DEF DeleteRemote, KnownRemote, NoCall, TInv, CallOK, CountsOK,
                                                     TreesOK, StoreOK, SetsOK, RemoteFile
    <2>3. CountsOK'
      BY <1>35, NoneAssumption, BoundsAssumption DEF DeleteRemote, KnownRemote, NoCall, TInv, CountsOK, CallOK,
                                                     TreesOK, StoreOK, SetsOK, RemoteFile
    <2>4. PhaseInv'
      BY <1>35, NoneAssumption, BoundsAssumption DEF DeleteRemote, KnownRemote, NoCall, TInv, PhaseInv, Files,
                                                     CallOK, CountsOK
    <2>5. DiskOK' /\ BaselineOK' /\ LoadedOK' /\ ConflictsOK' /\ CopiesOK' /\ TreesOK' /\ SetsOK' /\ MarksOK' /\ QueueOK' /\ ResolverOK' /\ BytesOK' /\ FlagsOK'
      BY <1>35 DEF DeleteRemote, TInv, DiskOK, BaselineOK, LoadedOK, ConflictsOK, CopiesOK, TreesOK, SetsOK,
                   MarksOK, QueueOK, ResolverOK, BytesOK, FlagsOK, Updates, NoResolution
    <2> QED
      BY <2>1, <2>2, <2>3, <2>4, <2>5 DEF TInv
  <1>36. ASSUME ForgetRemote PROVE TInv'
    <2>1. BaselineOK'
      BY <1>36, NoneAssumption, BoundsAssumption DEF ForgetRemote, NoCall, RemoveRow, TInv, BaselineOK, CallOK,
                                                     CountsOK, SetsOK, TreesOK, Row
    <2>2. TreesOK'
      BY <1>36, NoneAssumption, BoundsAssumption DEF ForgetRemote, NoCall, RemoveRow, TInv, TreesOK, CallOK,
                                                     BaselineOK, CountsOK, SetsOK
    <2>3. SetsOK'
      BY <1>36, NoneAssumption, BoundsAssumption DEF ForgetRemote, NoCall, RemoveRow, TInv, SetsOK, CallOK,
                                                     BaselineOK, CountsOK, TreesOK
    <2>4. MarksOK'
      BY <1>36, NoneAssumption, BoundsAssumption DEF ForgetRemote, NoCall, RemoveRow, TInv, MarksOK, CallOK,
                                                     BaselineOK, CountsOK, SetsOK, TreesOK
    <2>5. CallOK'
      BY <1>36, NoneAssumption, BoundsAssumption DEF ForgetRemote, NoCall, RemoveRow, TInv, CallOK, CountsOK,
                                                     BaselineOK, SetsOK, TreesOK
    <2>6. CountsOK'
      BY <1>36, NoneAssumption, BoundsAssumption DEF ForgetRemote, NoCall, RemoveRow, TInv, CountsOK, CallOK,
                                                     BaselineOK, SetsOK, TreesOK
    <2>7. PhaseInv'
      BY <1>36, NoneAssumption, BoundsAssumption DEF ForgetRemote, NoCall, RemoveRow, TInv, PhaseInv, Files,
                                                     CallOK, CountsOK, SetsOK, TreesOK
    <2>8. DiskOK' /\ StoreOK' /\ LoadedOK' /\ ConflictsOK' /\ CopiesOK' /\ QueueOK' /\ ResolverOK' /\ BytesOK' /\ FlagsOK'
      BY <1>36 DEF ForgetRemote, RemoveRow, TInv, DiskOK, StoreOK, LoadedOK, ConflictsOK, CopiesOK, QueueOK,
                   ResolverOK, BytesOK, FlagsOK, Updates, NoResolution
    <2> QED
      BY <2>1, <2>2, <2>3, <2>4, <2>5, <2>6, <2>7, <2>8 DEF TInv
  <1>37. ASSUME NEW p \in Paths, SkipDelete(p) PROVE TInv'
    <2>1. SetsOK'
      BY <1>37, NoneAssumption, BoundsAssumption DEF SkipDelete, KnownRemote, TInv, SetsOK, TreesOK, CountsOK
    <2>2. PhaseInv'
      BY <1>37, NoneAssumption, BoundsAssumption DEF SkipDelete, KnownRemote, TInv, PhaseInv, Files, SetsOK
    <2>3. DiskOK' /\ StoreOK' /\ BaselineOK' /\ LoadedOK' /\ ConflictsOK' /\ CopiesOK' /\ TreesOK' /\ MarksOK' /\ CallOK' /\ QueueOK' /\ ResolverOK' /\ BytesOK' /\ FlagsOK' /\ CountsOK'
      BY <1>37 DEF SkipDelete, TInv, DiskOK, StoreOK, BaselineOK, LoadedOK, ConflictsOK, CopiesOK, TreesOK,
                   MarksOK, CallOK, QueueOK, ResolverOK, BytesOK, FlagsOK, CountsOK, Updates, NoResolution
    <2> QED
      BY <2>1, <2>2, <2>3 DEF TInv
  <1>38. ASSUME FinishScan PROVE TInv'
    <2>1. BaselineOK'
      BY <1>38, NoneAssumption, BoundsAssumption DEF FinishScan, Persisted, TInv, BaselineOK, Nothing, TreesOK,
                                                     CountsOK, SetsOK, Row
    <2>2. TreesOK'
      BY <1>38, NoneAssumption, BoundsAssumption DEF FinishScan, Persisted, TInv, TreesOK, Nothing, BaselineOK,
                                                     CountsOK, SetsOK
    <2>3. CallOK'
      BY <1>38, NoneAssumption, BoundsAssumption DEF FinishScan, Persisted, TInv, CallOK, CountsOK, Nothing,
                                                     BaselineOK, TreesOK, SetsOK
    <2>4. CountsOK'
      BY <1>38, NoneAssumption, BoundsAssumption DEF FinishScan, Persisted, TInv, CountsOK, Nothing, BaselineOK,
                                                     TreesOK, SetsOK
    <2>5. PhaseInv'
      BY <1>38, NoneAssumption, BoundsAssumption DEF FinishScan, Persisted, TInv, PhaseInv, Files, TreesOK,
                                                     CountsOK, Nothing
    <2>6. DiskOK' /\ StoreOK' /\ LoadedOK' /\ ConflictsOK' /\ CopiesOK' /\ SetsOK' /\ MarksOK' /\ QueueOK' /\ ResolverOK' /\ BytesOK' /\ FlagsOK'
      BY <1>38 DEF FinishScan, TInv, DiskOK, StoreOK, LoadedOK, ConflictsOK, CopiesOK, SetsOK, MarksOK, QueueOK,
                   ResolverOK, BytesOK, FlagsOK, Updates, NoResolution
    <2> QED
      BY <2>1, <2>2, <2>3, <2>4, <2>5, <2>6 DEF TInv
  <1>39. ASSUME Poll PROVE TInv'
    <2>1. StoreOK'
      BY <1>39, NoneAssumption, BoundsAssumption DEF Poll, TInv, StoreOK, CountsOK, QueueOK, RemoteFile
    <2>2. QueueOK'
      BY <1>39, NoneAssumption, BoundsAssumption DEF Poll, TInv, QueueOK, Updates, StoreOK, CountsOK, RemoteFile
    <2>3. PhaseInv'
      BY <1>39, NoneAssumption, BoundsAssumption DEF Poll, TInv, PhaseInv, Files, QueueOK
    <2>4. DiskOK' /\ BaselineOK' /\ LoadedOK' /\ ConflictsOK' /\ CopiesOK' /\ TreesOK' /\ SetsOK' /\ MarksOK' /\ CallOK' /\ ResolverOK' /\ BytesOK' /\ FlagsOK' /\ CountsOK'
      BY <1>39 DEF Poll, TInv, DiskOK, BaselineOK, LoadedOK, ConflictsOK, CopiesOK, TreesOK, SetsOK, MarksOK,
                   CallOK, ResolverOK, BytesOK, FlagsOK, CountsOK, NoResolution
    <2> QED
      BY <2>1, <2>2, <2>3, <2>4 DEF TInv
  <1>40. ASSUME TakeUpdate PROVE TInv'
    <2>1. StoreOK'
      <3>1. Head(queue) \in Updates
        BY <1>40 DEF TakeUpdate, TInv, QueueOK
      <3> QED
        BY <1>40, <3>1 DEF TakeUpdate, Updates, TInv, StoreOK
    <2>2. SetsOK'
      <3>1. Head(queue) \in Updates
        BY <1>40 DEF TakeUpdate, TInv, QueueOK
      <3> QED
        BY <1>40, <3>1 DEF TakeUpdate, Updates, TInv, SetsOK
    <2>3. CallOK'
      BY <1>40, NoneAssumption, BoundsAssumption DEF TakeUpdate, TInv, CallOK, CountsOK, QueueOK, StoreOK,
                                                     SetsOK, RemoteFile
    <2>4. QueueOK'
      BY <1>40, NoneAssumption, BoundsAssumption DEF TakeUpdate, TInv, QueueOK, Updates, StoreOK, CountsOK,
                                                     SetsOK, RemoteFile
    <2>5. CountsOK'
      BY <1>40, NoneAssumption, BoundsAssumption DEF TakeUpdate, TInv, CountsOK, QueueOK, StoreOK, SetsOK,
                                                     RemoteFile
    <2>6. PhaseInv'
      BY <1>40, NoneAssumption, BoundsAssumption DEF TakeUpdate, TInv, PhaseInv, Files, CountsOK, QueueOK,
                                                     StoreOK, SetsOK
    <2>7. DiskOK' /\ BaselineOK' /\ LoadedOK' /\ ConflictsOK' /\ CopiesOK' /\ TreesOK' /\ MarksOK' /\ ResolverOK' /\ BytesOK' /\ FlagsOK'
      BY <1>40 DEF TakeUpdate, TInv, DiskOK, BaselineOK, LoadedOK, ConflictsOK, CopiesOK, TreesOK, MarksOK,
                   ResolverOK, BytesOK, FlagsOK, NoResolution
    <2> QED
      BY <2>1, <2>2, <2>3, <2>4, <2>5, <2>6, <2>7 DEF TInv
  <1>41. ASSUME NEW p \in Paths, SkipDiverged(p) PROVE TInv'
    <2>1. SetsOK'
      BY <1>41, NoneAssumption, BoundsAssumption DEF SkipDiverged, Diverged, Stat, TInv, SetsOK, DiskOK,
                                                     TreesOK, CountsOK, StoreOK, File, RemoteFile
    <2>2. PhaseInv'
      BY <1>41, NoneAssumption, BoundsAssumption DEF SkipDiverged, Diverged, Stat, TInv, PhaseInv, Files, SetsOK
    <2>3. DiskOK' /\ StoreOK' /\ BaselineOK' /\ LoadedOK' /\ ConflictsOK' /\ CopiesOK' /\ TreesOK' /\ MarksOK' /\ CallOK' /\ QueueOK' /\ ResolverOK' /\ BytesOK' /\ FlagsOK' /\ CountsOK'
      BY <1>41 DEF SkipDiverged, TInv, DiskOK, StoreOK, BaselineOK, LoadedOK, ConflictsOK, CopiesOK, TreesOK,
                   MarksOK, CallOK, QueueOK, ResolverOK, BytesOK, FlagsOK, CountsOK, Updates, NoResolution
    <2> QED
      BY <2>1, <2>2, <2>3 DEF TInv
  <1>42. ASSUME NEW p \in Paths, AdoptMatching(p) PROVE TInv'
    <2>1. BaselineOK'
      <3>1. disk[p] # None /\ RemoteHash(p) \in Contents
        BY <1>42 DEF AdoptMatching, HashIs, RemoteHash, TInv, StoreOK, RemoteFile
      <3> QED
        BY <1>42, <3>1, StatIsSome DEF AdoptMatching, Adopt, RecordRow, TInv, BaselineOK, Row
    <2>2. TreesOK'
      BY <1>42, StatIsSome DEF AdoptMatching, Adopt, HashIs, TInv, TreesOK
    <2>3. SetsOK'
      BY <1>42, NoneAssumption, BoundsAssumption DEF AdoptMatching, Adopt, Diverged, Hash, HashIs, RecordRow,
                                                     RemoteHash, Stat, TInv, SetsOK, BaselineOK, DiskOK,
                                                     TreesOK, CountsOK, StoreOK, File, RemoteFile
    <2>4. MarksOK'
      BY <1>42, NoneAssumption, BoundsAssumption DEF AdoptMatching, Adopt, Diverged, Hash, HashIs, RecordRow,
                                                     RemoteHash, Stat, TInv, MarksOK, BaselineOK, DiskOK,
                                                     TreesOK, CountsOK, StoreOK, SetsOK, File, RemoteFile
    <2>5. PhaseInv'
      BY <1>42, NoneAssumption, BoundsAssumption DEF AdoptMatching, Adopt, Diverged, Hash, HashIs, RecordRow,
                                                     RemoteHash, Stat, TInv, PhaseInv, Files, TreesOK, SetsOK
    <2>6. DiskOK' /\ StoreOK' /\ LoadedOK' /\ ConflictsOK' /\ CopiesOK' /\ CallOK' /\ QueueOK' /\ ResolverOK' /\ BytesOK' /\ FlagsOK' /\ CountsOK'
      BY <1>42 DEF AdoptMatching, Adopt, RecordRow, TInv, DiskOK, StoreOK, LoadedOK, ConflictsOK, CopiesOK,
                   CallOK, QueueOK, ResolverOK, BytesOK, FlagsOK, CountsOK, Updates, NoResolution
    <2> QED
      BY <2>1, <2>2, <2>3, <2>4, <2>5, <2>6 DEF TInv
  <1>43. ASSUME NEW p \in Paths, SkipStaleDelete(p) PROVE TInv'
    <2>1. SetsOK'
      BY <1>43, NoneAssumption, BoundsAssumption DEF SkipStaleDelete, StaleDelete, TInv, SetsOK, DiskOK,
                                                     CountsOK, StoreOK, File, RemoteFile
    <2>2. PhaseInv'
      BY <1>43, NoneAssumption, BoundsAssumption DEF SkipStaleDelete, StaleDelete, TInv, PhaseInv, Files, SetsOK
    <2>3. DiskOK' /\ StoreOK' /\ BaselineOK' /\ LoadedOK' /\ ConflictsOK' /\ CopiesOK' /\ TreesOK' /\ MarksOK' /\ CallOK' /\ QueueOK' /\ ResolverOK' /\ BytesOK' /\ FlagsOK' /\ CountsOK'
      BY <1>43 DEF SkipStaleDelete, TInv, DiskOK, StoreOK, BaselineOK, LoadedOK, ConflictsOK, CopiesOK, TreesOK,
                   MarksOK, CallOK, QueueOK, ResolverOK, BytesOK, FlagsOK, CountsOK, Updates, NoResolution
    <2> QED
      BY <2>1, <2>2, <2>3 DEF TInv
  <1>44. ASSUME NEW p \in Paths, ApplyDelete(p) PROVE TInv'
    <2>1. DiskOK'
      BY <1>44, NoneAssumption, BoundsAssumption DEF ApplyDelete, Losing, NoCall, RemoveLocal, StaleDelete,
                                                     TInv, DiskOK, CallOK, CountsOK, SetsOK, StoreOK, File,
                                                     RemoteFile, BytesOK
    <2>2. CallOK'
      BY <1>44, NoneAssumption, BoundsAssumption DEF ApplyDelete, Losing, NoCall, RemoveLocal, StaleDelete,
                                                     TInv, CallOK, CountsOK, DiskOK, SetsOK, StoreOK, File,
                                                     RemoteFile, BytesOK
    <2>3. BytesOK'
      BY <1>44, StatIsSome DEF ApplyDelete, RemoveLocal, Losing, TInv, BytesOK
    <2>4. CountsOK'
      BY <1>44, NoneAssumption, BoundsAssumption DEF ApplyDelete, Losing, NoCall, RemoveLocal, StaleDelete,
                                                     TInv, CountsOK, CallOK, DiskOK, SetsOK, StoreOK, File,
                                                     RemoteFile, BytesOK
    <2>5. PhaseInv'
      BY <1>44, NoneAssumption, BoundsAssumption DEF ApplyDelete, Losing, NoCall, RemoveLocal, StaleDelete,
                                                     TInv, PhaseInv, Files, CallOK, CountsOK
    <2>6. StoreOK' /\ BaselineOK' /\ LoadedOK' /\ ConflictsOK' /\ CopiesOK' /\ TreesOK' /\ SetsOK' /\ MarksOK' /\ QueueOK' /\ ResolverOK' /\ FlagsOK'
      BY <1>44 DEF ApplyDelete, Losing, RemoveLocal, TInv, StoreOK, BaselineOK, LoadedOK, ConflictsOK, CopiesOK,
                   TreesOK, SetsOK, MarksOK, QueueOK, ResolverOK, FlagsOK, Updates, NoResolution
    <2> QED
      BY <2>1, <2>2, <2>3, <2>4, <2>5, <2>6 DEF TInv
  <1>45. ASSUME ForgetLocal PROVE TInv'
    <2>1. BaselineOK'
      BY <1>45, NoneAssumption, BoundsAssumption DEF ForgetLocal, NoCall, RemoveRow, TInv, BaselineOK, CallOK,
                                                     TreesOK, CountsOK, SetsOK, Row
    <2>2. TreesOK'
      BY <1>45, NoneAssumption, BoundsAssumption DEF ForgetLocal, NoCall, RemoveRow, TInv, TreesOK, CallOK,
                                                     BaselineOK, CountsOK, SetsOK
    <2>3. SetsOK'
      BY <1>45, NoneAssumption, BoundsAssumption DEF ForgetLocal, NoCall, RemoveRow, TInv, SetsOK, CallOK,
                                                     BaselineOK, TreesOK, CountsOK
    <2>4. MarksOK'
      BY <1>45, NoneAssumption, BoundsAssumption DEF ForgetLocal, NoCall, RemoveRow, TInv, MarksOK, CallOK,
                                                     BaselineOK, TreesOK, CountsOK, SetsOK
    <2>5. CallOK'
      BY <1>45, NoneAssumption, BoundsAssumption DEF ForgetLocal, NoCall, RemoveRow, TInv, CallOK, CountsOK,
                                                     BaselineOK, TreesOK, SetsOK
    <2>6. CountsOK'
      BY <1>45, NoneAssumption, BoundsAssumption DEF ForgetLocal, NoCall, RemoveRow, TInv, CountsOK, CallOK,
                                                     BaselineOK, TreesOK, SetsOK
    <2>7. PhaseInv'
      BY <1>45, NoneAssumption, BoundsAssumption DEF ForgetLocal, NoCall, RemoveRow, TInv, PhaseInv, Files,
                                                     CallOK, TreesOK, CountsOK, SetsOK
    <2>8. DiskOK' /\ StoreOK' /\ LoadedOK' /\ ConflictsOK' /\ CopiesOK' /\ QueueOK' /\ ResolverOK' /\ BytesOK' /\ FlagsOK'
      BY <1>45 DEF ForgetLocal, RemoveRow, TInv, DiskOK, StoreOK, LoadedOK, ConflictsOK, CopiesOK, QueueOK,
                   ResolverOK, BytesOK, FlagsOK, Updates, NoResolution
    <2> QED
      BY <2>1, <2>2, <2>3, <2>4, <2>5, <2>6, <2>7, <2>8 DEF TInv
  <1>46. ASSUME FinishUpdate PROVE TInv'
    <2>1. StoreOK'
      BY <1>46, NoneAssumption, BoundsAssumption DEF FinishUpdate, Files, TInv, StoreOK, Nothing, CountsOK,
                                                     SetsOK, RemoteFile
    <2>2. SetsOK'
      BY <1>46, NoneAssumption, BoundsAssumption DEF FinishUpdate, Files, TInv, SetsOK, Nothing, CountsOK,
                                                     StoreOK, RemoteFile
    <2>3. CallOK'
      BY <1>46, NoneAssumption, BoundsAssumption DEF FinishUpdate, Files, TInv, CallOK, CountsOK, Nothing,
                                                     SetsOK, StoreOK, RemoteFile
    <2>4. QueueOK'
      BY <1>46, NoneAssumption, BoundsAssumption DEF FinishUpdate, Files, TInv, QueueOK, Updates, StoreOK,
                                                     Nothing, CountsOK, SetsOK, RemoteFile
    <2>5. CountsOK'
      BY <1>46, NoneAssumption, BoundsAssumption DEF FinishUpdate, Files, TInv, CountsOK, Nothing, SetsOK,
                                                     StoreOK, RemoteFile
    <2>6. PhaseInv'
      BY <1>46, NoneAssumption, BoundsAssumption DEF FinishUpdate, Files, TInv, PhaseInv, CountsOK, SetsOK,
                                                     StoreOK, Nothing
    <2>7. DiskOK' /\ BaselineOK' /\ LoadedOK' /\ ConflictsOK' /\ CopiesOK' /\ TreesOK' /\ MarksOK' /\ ResolverOK' /\ BytesOK' /\ FlagsOK'
      BY <1>46 DEF FinishUpdate, TInv, DiskOK, BaselineOK, LoadedOK, ConflictsOK, CopiesOK, TreesOK, MarksOK,
                   ResolverOK, BytesOK, FlagsOK, NoResolution
    <2> QED
      BY <2>1, <2>2, <2>3, <2>4, <2>5, <2>6, <2>7 DEF TInv
  <1>47. ASSUME PersistUpdates PROVE TInv'
    <2>1. BaselineOK'
      BY <1>47, NoneAssumption, BoundsAssumption DEF PersistUpdates, Persisted, Seeded, TInv, BaselineOK,
                                                     TreesOK, CountsOK, SetsOK, Row
    <2>2. TreesOK'
      BY <1>47, NoneAssumption, BoundsAssumption DEF PersistUpdates, Persisted, Seeded, TInv, TreesOK,
                                                     BaselineOK, CountsOK, SetsOK
    <2>3. CallOK'
      BY <1>47, NoneAssumption, BoundsAssumption DEF PersistUpdates, Persisted, Seeded, TInv, CallOK, CountsOK,
                                                     BaselineOK, TreesOK, SetsOK
    <2>4. CountsOK'
      BY <1>47, NoneAssumption, BoundsAssumption DEF PersistUpdates, Persisted, Seeded, TInv, CountsOK,
                                                     BaselineOK, TreesOK, SetsOK
    <2>5. PhaseInv'
      BY <1>47, NoneAssumption, BoundsAssumption DEF PersistUpdates, Persisted, Seeded, TInv, PhaseInv, Files,
                                                     TreesOK, CountsOK
    <2>6. DiskOK' /\ StoreOK' /\ LoadedOK' /\ ConflictsOK' /\ CopiesOK' /\ SetsOK' /\ MarksOK' /\ QueueOK' /\ ResolverOK' /\ BytesOK' /\ FlagsOK'
      BY <1>47 DEF PersistUpdates, TInv, DiskOK, StoreOK, LoadedOK, ConflictsOK, CopiesOK, SetsOK, MarksOK,
                   QueueOK, ResolverOK, BytesOK, FlagsOK, Updates, NoResolution
    <2> QED
      BY <2>1, <2>2, <2>3, <2>4, <2>5, <2>6 DEF TInv
  <1>48. ASSUME Ends PROVE TInv'
    <2>1. StoreOK'
      BY <1>48, NoneAssumption, BoundsAssumption DEF Ends, Down, NoCall, TInv, StoreOK, Nothing, CallOK,
                                                     TreesOK, LoadedOK, CountsOK, QueueOK, SetsOK, ConflictsOK,
                                                     RemoteFile
    <2>2. LoadedOK'
      BY <1>48, NoneAssumption, BoundsAssumption DEF Ends, Down, NoCall, TInv, LoadedOK, Nothing, CallOK,
                                                     TreesOK, StoreOK, CountsOK, QueueOK, SetsOK, ConflictsOK,
                                                     RemoteFile, Row
    <2>3. ConflictsOK'
      BY <1>48, NoneAssumption, BoundsAssumption DEF Ends, Down, NoCall, TInv, ConflictsOK, Nothing, CallOK,
                                                     TreesOK, StoreOK, LoadedOK, CountsOK, QueueOK, SetsOK,
                                                     RemoteFile, Reasons
    <2>4. TreesOK'
      BY <1>48, NoneAssumption, BoundsAssumption DEF Ends, Down, NoCall, TInv, TreesOK, Nothing, CallOK,
                                                     StoreOK, LoadedOK, CountsOK, QueueOK, SetsOK, ConflictsOK,
                                                     RemoteFile
    <2>5. SetsOK'
      BY <1>48, NoneAssumption, BoundsAssumption DEF Ends, Down, NoCall, TInv, SetsOK, Nothing, CallOK, TreesOK,
                                                     StoreOK, LoadedOK, CountsOK, QueueOK, ConflictsOK,
                                                     RemoteFile
    <2>6. CallOK'
      BY <1>48, NoneAssumption, BoundsAssumption DEF Ends, Down, NoCall, TInv, CallOK, CountsOK, Nothing,
                                                     TreesOK, StoreOK, LoadedOK, QueueOK, SetsOK, ConflictsOK,
                                                     RemoteFile
    <2>7. QueueOK'
      BY <1>48, NoneAssumption, BoundsAssumption DEF Ends, Down, NoCall, TInv, QueueOK, Updates, StoreOK,
                                                     Nothing, CallOK, TreesOK, LoadedOK, CountsOK, SetsOK,
                                                     ConflictsOK, RemoteFile
    <2>8. FlagsOK'
      BY <1>48, NoneAssumption, BoundsAssumption DEF Ends, Down, NoCall, TInv, FlagsOK, Nothing, CallOK,
                                                     TreesOK, StoreOK, LoadedOK, CountsOK, QueueOK, SetsOK,
                                                     ConflictsOK, RemoteFile
    <2>9. CountsOK'
      BY <1>48, NoneAssumption, BoundsAssumption DEF Ends, Down, NoCall, TInv, CountsOK, Nothing, CallOK,
                                                     TreesOK, StoreOK, LoadedOK, QueueOK, SetsOK, ConflictsOK,
                                                     RemoteFile
    <2>10. PhaseInv'
      BY <1>48, NoneAssumption, BoundsAssumption DEF Ends, Down, NoCall, TInv, PhaseInv, Files, CallOK, TreesOK,
                                                     CountsOK, QueueOK, SetsOK, StoreOK, Nothing
    <2>11. DiskOK' /\ BaselineOK' /\ CopiesOK' /\ MarksOK' /\ ResolverOK' /\ BytesOK'
      BY <1>48 DEF Ends, Down, TInv, DiskOK, BaselineOK, CopiesOK, MarksOK, ResolverOK, BytesOK, NoResolution
    <2> QED
      BY <2>1, <2>2, <2>3, <2>4, <2>5, <2>6, <2>7, <2>8, <2>9, <2>10, <2>11 DEF TInv
  <1>49. CASE UNCHANGED folderVars
    BY <1>49 DEF folderVars, TInv, DiskOK, StoreOK, BaselineOK, LoadedOK, ConflictsOK, CopiesOK, TreesOK,
                 SetsOK, MarksOK, CallOK, QueueOK, ResolverOK, BytesOK, FlagsOK, CountsOK, PhaseInv, Updates,
                 NoResolution, Files
  <1> QED
    BY <1>1, <1>2, <1>3, <1>4, <1>5, <1>6, <1>7, <1>8, <1>9, <1>10, <1>11, <1>12, <1>13, <1>14, <1>15, <1>16,
       <1>17, <1>18, <1>19, <1>20, <1>21, <1>22, <1>23, <1>24, <1>25, <1>26, <1>27, <1>28, <1>29, <1>30, <1>31,
       <1>32, <1>33, <1>34, <1>35, <1>36, <1>37, <1>38, <1>39, <1>40, <1>41, <1>42, <1>43, <1>44, <1>45, <1>46,
       <1>47, <1>48, <1>49
    DEF FolderNext, UserStep, OthersStep, ResolverStep, StartupStep, DownloadStep, SyncStep, UpdateStep,
        DownloadFails, UploadFails, Stop, Ends

\* Nothing is there at first.
LEMMA TypesStart == FolderInit => TInv
  <1> SUFFICES ASSUME FolderInit PROVE TInv
    OBVIOUS
  <1> USE BoundsAssumption
  <1>1. DiskOK /\ StoreOK /\ BaselineOK /\ LoadedOK /\ ConflictsOK /\ CopiesOK /\ TreesOK
    BY DEF FolderInit, DiskOK, StoreOK, BaselineOK, LoadedOK, ConflictsOK, CopiesOK, TreesOK, Nothing
  <1>2. SetsOK /\ MarksOK /\ CallOK /\ BytesOK /\ ResolverOK /\ PhaseInv
    BY DEF FolderInit, SetsOK, MarksOK, CallOK, BytesOK, ResolverOK, PhaseInv, NoCall
  <1>3. FlagsOK
    BY DEF FolderInit, FlagsOK
  <1>4. QueueOK /\ CountsOK
    BY DEF FolderInit, QueueOK, CountsOK
  <1> QED
    BY <1>1, <1>2, <1>3, <1>4 DEF TInv

\* The variables of the folder agent have their types, whatever the user, other
\* clients and resolutions do and wherever the agent stops: a snapshot that is
\* downloaded from has the file, a call in progress has its path and its bytes, and
\* there is always a stamp and a version that no record mentions.
THEOREM FolderTypesHold == FolderSpec => []FolderTypeOK
  <1>1. TInv => FolderTypeOK
    <2> SUFFICES ASSUME TInv PROVE FolderTypeOK
      OBVIOUS
    <2>1. /\ call.path \in Paths \cup {None} /\ {call.content, call.hash} \subseteq Contents \cup {None}
          /\ pc \in {"install", "record", "removed", "uploaded", "deleted"} => call.path \in Paths
          /\ pc \in {"install", "record", "uploaded"} => None \notin {call.content, call.hash}
      BY NoneAssumption DEF TInv, CallOK
    <2>2. /\ {local_state, suppressed_uploads, current} \subseteq [Paths -> Stamps \cup {None}]
          /\ {snapshot, known} \subseteq [Paths -> RemoteFile \cup {None}]
          /\ {held, offline, seen, lost} \subseteq SUBSET Contents
          /\ {baseline, loaded} \subseteq [Paths -> Row \cup {None}]
          /\ {conflicts, startup_conflicts} \subseteq [Paths -> Reasons \cup {None}]
      BY DEF TInv, TreesOK, StoreOK, BytesOK, BaselineOK, LoadedOK, ConflictsOK
    <2>3. {remote_index, preserve_local_files, matching_remote_files, remote_delete_wins_paths, todo,
           misrecorded, uncertain, uncopied} \subseteq SUBSET Paths
      BY DEF TInv, SetsOK, MarksOK
    <2>4. queue \in Seq([snapshot : [Paths -> RemoteFile \cup {None}], changed : SUBSET Paths])
      BY DEF TInv, QueueOK, Updates
    <2>5. starting \in BOOLEAN /\ quiet \in BOOLEAN
      BY DEF TInv, FlagsOK
    <2> QED
      BY <2>1, <2>2, <2>3, <2>4, <2>5
      DEF TInv, DiskOK, StoreOK, CopiesOK, QueueOK, ResolverOK, CountsOK, FolderTypeOK
  <1> QED
    BY <1>1, TypesStart, TypesKept, PTL DEF FolderSpec

-------------------------------------------------------------------------------
(***************************************************************************)
(* Where bytes come from                                                   *)
(***************************************************************************)

\* The bytes of a snapshot have been in the store.
FromStore(s) == \A p \in Paths : s[p] # None => s[p].content \in held
HashesFromStore(rows) == \A p \in Paths : rows[p] # None => rows[p].hash \in held \cup {None}

OnlyWritten == held \cup offline \cup seen \cup lost \subseteq 1..moves
SnapshotsFromStore == FromStore(remote) /\ FromStore(snapshot) /\ FromStore(known)
QueueFromStore == \A i \in DOMAIN queue : FromStore(queue[i].snapshot)
RowsFromStore == HashesFromStore(baseline) /\ HashesFromStore(loaded)
CopiesFromStore == \A p \in Paths : copies[p] # None => copies[p] \in held
DiskIsSeen == \A p \in Paths : disk[p] # None => disk[p].content \in seen
CallFromStore == call.content \in held \cup {None} /\ call.hash \in held \cup {None}
ResolverFromStore == resolver.content \in held \cup {None}

HeldInv ==
    /\ OnlyWritten /\ SnapshotsFromStore /\ QueueFromStore /\ RowsFromStore /\ CopiesFromStore
    /\ DiskIsSeen /\ CallFromStore /\ ResolverFromStore

\* What is written into the store is recorded, and nothing else is mentioned.
LEMMA BytesKept ==
    ASSUME TInv, HeldInv, [FolderNext]_folderVars
    PROVE  HeldInv'
  <1> USE DEF fileVars, storeVars, rowVars, copyVars, treeVars, planVars, threadVars, pollVars, counterVars, agentVars
  <1>1. ASSUME NEW p \in Paths, Write(p) PROVE HeldInv'
    <2>1. OnlyWritten'
      BY <1>1 DEF Write, BeingRecorded, Move, Stat, TInv, HeldInv, OnlyWritten, CountsOK
    <2>2. DiskIsSeen'
      BY <1>1, StampIsFresh DEF Write, BeingRecorded, Move, Stat, TInv, HeldInv, DiskIsSeen, DiskOK, PhaseInv
    <2>3. SnapshotsFromStore' /\ QueueFromStore' /\ RowsFromStore' /\ CopiesFromStore' /\ CallFromStore' /\ ResolverFromStore'
      BY <1>1 DEF Write, Move, HeldInv, SnapshotsFromStore, QueueFromStore, RowsFromStore, CopiesFromStore,
                  CallFromStore, ResolverFromStore, FromStore, HashesFromStore
    <2> QED
      BY <2>1, <2>2, <2>3 DEF HeldInv
  <1>2. ASSUME NEW p \in Paths, Touch(p) PROVE HeldInv'
    <2>1. OnlyWritten'
      BY <1>2 DEF Touch, Move, Stat, TInv, HeldInv, OnlyWritten, CountsOK
    <2>2. DiskIsSeen'
      BY <1>2, StampIsFresh DEF Touch, Move, Stat, TInv, HeldInv, DiskIsSeen, DiskOK, PhaseInv
    <2>3. SnapshotsFromStore' /\ QueueFromStore' /\ RowsFromStore' /\ CopiesFromStore' /\ CallFromStore' /\ ResolverFromStore'
      BY <1>2 DEF Touch, Move, HeldInv, SnapshotsFromStore, QueueFromStore, RowsFromStore, CopiesFromStore,
                  CallFromStore, ResolverFromStore, FromStore, HashesFromStore
    <2> QED
      BY <2>1, <2>2, <2>3 DEF HeldInv
  <1>3. ASSUME NEW p \in Paths, Delete(p) PROVE HeldInv'
    <2>1. OnlyWritten'
      BY <1>3 DEF Delete, Move, TInv, HeldInv, OnlyWritten, CountsOK
    <2>2. DiskIsSeen'
      BY <1>3 DEF Delete, Move, TInv, HeldInv, DiskIsSeen, DiskOK, PhaseInv
    <2>3. SnapshotsFromStore' /\ QueueFromStore' /\ RowsFromStore' /\ CopiesFromStore' /\ CallFromStore' /\ ResolverFromStore'
      BY <1>3 DEF Delete, Move, HeldInv, SnapshotsFromStore, QueueFromStore, RowsFromStore, CopiesFromStore,
                  CallFromStore, ResolverFromStore, FromStore, HashesFromStore
    <2> QED
      BY <2>1, <2>2, <2>3 DEF HeldInv
  <1>4. ASSUME NEW p \in Paths, KeepLocal(p) PROVE HeldInv'
    <2>1. OnlyWritten'
      BY <1>4 DEF KeepLocal, ClearConflict, Move, NoResolution, TInv, HeldInv, OnlyWritten, CountsOK
    <2>2. CopiesFromStore'
      BY <1>4 DEF KeepLocal, ClearConflict, Move, NoResolution, TInv, HeldInv, CopiesFromStore, CopiesOK,
                  PhaseInv
    <2>3. SnapshotsFromStore' /\ QueueFromStore' /\ RowsFromStore' /\ DiskIsSeen' /\ CallFromStore' /\ ResolverFromStore'
      BY <1>4 DEF KeepLocal, ClearConflict, Move, HeldInv, SnapshotsFromStore, QueueFromStore, RowsFromStore,
                  DiskIsSeen, CallFromStore, ResolverFromStore, FromStore, HashesFromStore
    <2> QED
      BY <2>1, <2>2, <2>3 DEF HeldInv
  <1>5. ASSUME NEW p \in Paths, KeepRemote(p) PROVE HeldInv'
    <2>1. OnlyWritten'
      BY <1>5 DEF KeepRemote, Move, NoResolution, TInv, HeldInv, OnlyWritten, CountsOK
    <2>2. DiskIsSeen'
      BY <1>5 DEF KeepRemote, Move, NoResolution, TInv, HeldInv, DiskIsSeen, DiskOK, PhaseInv
    <2>3. ResolverFromStore'
      BY <1>5 DEF KeepRemote, Move, NoResolution, TInv, HeldInv, ResolverFromStore, ResolverOK, PhaseInv,
                  CopiesFromStore
    <2>4. SnapshotsFromStore' /\ QueueFromStore' /\ RowsFromStore' /\ CopiesFromStore' /\ CallFromStore'
      BY <1>5 DEF KeepRemote, Move, HeldInv, SnapshotsFromStore, QueueFromStore, RowsFromStore, CopiesFromStore,
                  CallFromStore, FromStore, HashesFromStore
    <2> QED
      BY <2>1, <2>2, <2>3, <2>4 DEF HeldInv
  <1>6. ASSUME NEW p \in Paths, RemotePut(p) PROVE HeldInv'
    <2>1. OnlyWritten'
      BY <1>6 DEF RemotePut, Move, TInv, HeldInv, OnlyWritten, CountsOK
    <2>2. SnapshotsFromStore'
      BY <1>6, VersionIsFresh DEF RemotePut, Move, TInv, HeldInv, SnapshotsFromStore, FromStore, StoreOK,
                                  PhaseInv
    <2>3. QueueFromStore'
      BY <1>6, VersionIsFresh DEF RemotePut, Move, TInv, HeldInv, QueueFromStore, FromStore, PhaseInv
    <2>4. RowsFromStore'
      BY <1>6, VersionIsFresh DEF RemotePut, Move, TInv, HeldInv, RowsFromStore, HashesFromStore, PhaseInv
    <2>5. CopiesFromStore'
      BY <1>6, VersionIsFresh DEF RemotePut, Move, TInv, HeldInv, CopiesFromStore, PhaseInv
    <2>6. CallFromStore'
      BY <1>6, VersionIsFresh DEF RemotePut, Move, TInv, HeldInv, CallFromStore, PhaseInv
    <2>7. ResolverFromStore'
      BY <1>6, VersionIsFresh DEF RemotePut, Move, TInv, HeldInv, ResolverFromStore, PhaseInv
    <2>8. DiskIsSeen'
      BY <1>6 DEF RemotePut, Move, HeldInv, DiskIsSeen
    <2> QED
      BY <2>1, <2>2, <2>3, <2>4, <2>5, <2>6, <2>7, <2>8 DEF HeldInv
  <1>7. ASSUME NEW p \in Paths, RemoteDelete(p) PROVE HeldInv'
    <2>1. OnlyWritten'
      BY <1>7 DEF RemoteDelete, Move, TInv, HeldInv, OnlyWritten, CountsOK
    <2>2. SnapshotsFromStore'
      BY <1>7 DEF RemoteDelete, Move, TInv, HeldInv, SnapshotsFromStore, FromStore, StoreOK, PhaseInv
    <2>3. QueueFromStore' /\ RowsFromStore' /\ CopiesFromStore' /\ DiskIsSeen' /\ CallFromStore' /\ ResolverFromStore'
      BY <1>7 DEF RemoteDelete, Move, HeldInv, QueueFromStore, RowsFromStore, CopiesFromStore, DiskIsSeen,
                  CallFromStore, ResolverFromStore, FromStore, HashesFromStore
    <2> QED
      BY <2>1, <2>2, <2>3 DEF HeldInv
  <1>8. ASSUME ApplyRemoteCopy PROVE HeldInv'
    <2>0. /\ resolver = [path |-> resolver.path, step |-> resolver.step, content |-> resolver.content]
          /\ resolver.path \in Paths /\ resolver.content \in Contents
      BY <1>8, ResolverAtWork DEF ApplyRemoteCopy, Resolve, Steps
    <2>1. OnlyWritten'
      BY <1>8, <2>0 DEF ApplyRemoteCopy, Resolve, Stat, TInv, HeldInv, OnlyWritten, PhaseInv, ResolverFromStore
    <2>2. DiskIsSeen'
      BY <1>8, StampIsFresh, <2>0 DEF ApplyRemoteCopy, Resolve, Stat, TInv, HeldInv, DiskIsSeen, DiskOK,
                                      PhaseInv
    <2>3. ResolverFromStore'
      BY <1>8, StampIsFresh, <2>0 DEF ApplyRemoteCopy, Resolve, Stat, TInv, HeldInv, ResolverFromStore,
                                      ResolverOK, PhaseInv
    <2>4. SnapshotsFromStore' /\ QueueFromStore' /\ RowsFromStore' /\ CopiesFromStore' /\ CallFromStore'
      BY <1>8 DEF ApplyRemoteCopy, Resolve, HeldInv, SnapshotsFromStore, QueueFromStore, RowsFromStore,
                  CopiesFromStore, CallFromStore, FromStore, HashesFromStore
    <2> QED
      BY <2>1, <2>2, <2>3, <2>4 DEF HeldInv
  <1>9. ASSUME UploadResolved PROVE HeldInv'
    <2>0. /\ resolver = [path |-> resolver.path, step |-> resolver.step, content |-> resolver.content]
          /\ resolver.path \in Paths /\ disk[resolver.path].content \in Contents
      BY <1>9, ResolverAtWork, StatIsSome DEF UploadResolved, Steps
    <2>1. OnlyWritten'
      BY <1>9, <2>0 DEF UploadResolved, Hash, TInv, HeldInv, OnlyWritten, PhaseInv, DiskIsSeen
    <2>2. SnapshotsFromStore'
      BY <1>9, VersionIsFresh, <2>0 DEF UploadResolved, Hash, TInv, HeldInv, SnapshotsFromStore, FromStore,
                                        StoreOK, PhaseInv
    <2>3. QueueFromStore'
      BY <1>9, VersionIsFresh, <2>0 DEF UploadResolved, Hash, TInv, HeldInv, QueueFromStore, FromStore, PhaseInv
    <2>4. RowsFromStore'
      BY <1>9, VersionIsFresh, <2>0 DEF UploadResolved, Hash, TInv, HeldInv, RowsFromStore, HashesFromStore,
                                        PhaseInv
    <2>5. CopiesFromStore'
      BY <1>9, VersionIsFresh, <2>0 DEF UploadResolved, Hash, TInv, HeldInv, CopiesFromStore, PhaseInv
    <2>6. CallFromStore'
      BY <1>9, VersionIsFresh, <2>0 DEF UploadResolved, Hash, TInv, HeldInv, CallFromStore, PhaseInv
    <2>7. ResolverFromStore'
      BY <1>9, VersionIsFresh, <2>0 DEF UploadResolved, Hash, TInv, HeldInv, ResolverFromStore, ResolverOK,
                                        PhaseInv
    <2>8. DiskIsSeen'
      BY <1>9 DEF UploadResolved, HeldInv, DiskIsSeen
    <2> QED
      BY <2>1, <2>2, <2>3, <2>4, <2>5, <2>6, <2>7, <2>8 DEF HeldInv
  <1>10. ASSUME RecordResolved PROVE HeldInv'
    <2>0. /\ resolver = [path |-> resolver.path, step |-> resolver.step, content |-> resolver.content]
          /\ resolver.path \in Paths /\ resolver.content \in Contents
      BY <1>10, ResolverAtWork DEF RecordResolved, Resolve, Steps
    <2>1. RowsFromStore'
      BY <1>10, <2>0 DEF RecordResolved, Hash, HashIs, RecordRow, Resolve, Stat, TInv, HeldInv, RowsFromStore,
                         HashesFromStore, BaselineOK, PhaseInv, ResolverFromStore
    <2>2. ResolverFromStore'
      BY <1>10, <2>0 DEF RecordResolved, Hash, HashIs, RecordRow, Resolve, Stat, TInv, HeldInv,
                         ResolverFromStore, ResolverOK, PhaseInv
    <2>3. OnlyWritten' /\ SnapshotsFromStore' /\ QueueFromStore' /\ CopiesFromStore' /\ DiskIsSeen' /\ CallFromStore'
      BY <1>10 DEF RecordResolved, RecordRow, Resolve, HeldInv, OnlyWritten, SnapshotsFromStore, QueueFromStore,
                   CopiesFromStore, DiskIsSeen, CallFromStore, FromStore
    <2> QED
      BY <2>1, <2>2, <2>3 DEF HeldInv
  <1>11. ASSUME RemoveResolved PROVE HeldInv'
    <2>0. /\ resolver = [path |-> resolver.path, step |-> resolver.step, content |-> resolver.content]
          /\ resolver.path \in Paths
      BY <1>11, ResolverAtWork DEF RemoveResolved, Resolve, Steps
    <2>1. DiskIsSeen'
      BY <1>11, <2>0 DEF RemoveResolved, Resolve, TInv, HeldInv, DiskIsSeen, DiskOK, PhaseInv
    <2>2. ResolverFromStore'
      BY <1>11, <2>0 DEF RemoveResolved, Resolve, TInv, HeldInv, ResolverFromStore, ResolverOK, PhaseInv
    <2>3. OnlyWritten' /\ SnapshotsFromStore' /\ QueueFromStore' /\ RowsFromStore' /\ CopiesFromStore' /\ CallFromStore'
      BY <1>11 DEF RemoveResolved, Resolve, HeldInv, OnlyWritten, SnapshotsFromStore, QueueFromStore,
                   RowsFromStore, CopiesFromStore, CallFromStore, FromStore, HashesFromStore
    <2> QED
      BY <2>1, <2>2, <2>3 DEF HeldInv
  <1>12. ASSUME DeleteResolved PROVE HeldInv'
    <2>0. /\ resolver = [path |-> resolver.path, step |-> resolver.step, content |-> resolver.content]
          /\ resolver.path \in Paths
      BY <1>12, ResolverAtWork DEF DeleteResolved, Resolve, Steps
    <2>1. SnapshotsFromStore'
      BY <1>12, <2>0 DEF DeleteResolved, Resolve, TInv, HeldInv, SnapshotsFromStore, FromStore, StoreOK,
                         PhaseInv
    <2>2. ResolverFromStore'
      BY <1>12, <2>0 DEF DeleteResolved, Resolve, TInv, HeldInv, ResolverFromStore, ResolverOK, PhaseInv
    <2>3. OnlyWritten' /\ QueueFromStore' /\ RowsFromStore' /\ CopiesFromStore' /\ DiskIsSeen' /\ CallFromStore'
      BY <1>12 DEF DeleteResolved, Resolve, HeldInv, OnlyWritten, QueueFromStore, RowsFromStore,
                   CopiesFromStore, DiskIsSeen, CallFromStore, FromStore, HashesFromStore
    <2> QED
      BY <2>1, <2>2, <2>3 DEF HeldInv
  <1>13. ASSUME UnrecordResolved PROVE HeldInv'
    <2>0. /\ resolver = [path |-> resolver.path, step |-> resolver.step, content |-> resolver.content]
          /\ resolver.path \in Paths
      BY <1>13, ResolverAtWork DEF UnrecordResolved, Resolve, Steps
    <2>1. RowsFromStore'
      BY <1>13, <2>0 DEF UnrecordResolved, RemoveRow, Resolve, TInv, HeldInv, RowsFromStore, HashesFromStore,
                         BaselineOK, PhaseInv
    <2>2. ResolverFromStore'
      BY <1>13, <2>0 DEF UnrecordResolved, RemoveRow, Resolve, TInv, HeldInv, ResolverFromStore, ResolverOK,
                         PhaseInv
    <2>3. OnlyWritten' /\ SnapshotsFromStore' /\ QueueFromStore' /\ CopiesFromStore' /\ DiskIsSeen' /\ CallFromStore'
      BY <1>13 DEF UnrecordResolved, RemoveRow, Resolve, HeldInv, OnlyWritten, SnapshotsFromStore,
                   QueueFromStore, CopiesFromStore, DiskIsSeen, CallFromStore, FromStore
    <2> QED
      BY <2>1, <2>2, <2>3 DEF HeldInv
  <1>14. ASSUME FinishResolution PROVE HeldInv'
    <2>0. /\ resolver = [path |-> resolver.path, step |-> resolver.step, content |-> resolver.content]
          /\ resolver.path \in Paths
      BY <1>14, ResolverAtWork DEF FinishResolution, Steps
    <2>1. CopiesFromStore'
      BY <1>14, <2>0 DEF FinishResolution, ClearConflict, NoResolution, TInv, HeldInv, CopiesFromStore,
                         CopiesOK, PhaseInv
    <2>2. ResolverFromStore'
      BY <1>14, <2>0 DEF FinishResolution, ClearConflict, NoResolution, TInv, HeldInv, ResolverFromStore,
                         ResolverOK, PhaseInv
    <2>3. OnlyWritten' /\ SnapshotsFromStore' /\ QueueFromStore' /\ RowsFromStore' /\ DiskIsSeen' /\ CallFromStore'
      BY <1>14 DEF FinishResolution, ClearConflict, HeldInv, OnlyWritten, SnapshotsFromStore, QueueFromStore,
                   RowsFromStore, DiskIsSeen, CallFromStore, FromStore, HashesFromStore
    <2> QED
      BY <2>1, <2>2, <2>3 DEF HeldInv
  <1>15. ASSUME AbandonResolution PROVE HeldInv'
    <2>1. ResolverFromStore'
      BY <1>15 DEF AbandonResolution, NoResolution, TInv, HeldInv, ResolverFromStore, ResolverOK, PhaseInv
    <2>2. OnlyWritten' /\ SnapshotsFromStore' /\ QueueFromStore' /\ RowsFromStore' /\ CopiesFromStore' /\ DiskIsSeen' /\ CallFromStore'
      BY <1>15 DEF AbandonResolution, HeldInv, OnlyWritten, SnapshotsFromStore, QueueFromStore, RowsFromStore,
                   CopiesFromStore, DiskIsSeen, CallFromStore, FromStore, HashesFromStore
    <2> QED
      BY <2>1, <2>2 DEF HeldInv
  <1>16. ASSUME Start PROVE HeldInv'
    <2>1. RowsFromStore'
      BY <1>16, NoneAssumption DEF Start, Scan, Stat, TInv, HeldInv, RowsFromStore, HashesFromStore, BaselineOK,
                                   LoadedOK, Nothing, PhaseInv, Row
    <2>2. OnlyWritten' /\ SnapshotsFromStore' /\ QueueFromStore' /\ CopiesFromStore' /\ DiskIsSeen' /\ CallFromStore' /\ ResolverFromStore'
      BY <1>16 DEF Start, HeldInv, OnlyWritten, SnapshotsFromStore, QueueFromStore, CopiesFromStore, DiskIsSeen,
                   CallFromStore, ResolverFromStore, FromStore
    <2> QED
      BY <2>1, <2>2 DEF HeldInv
  <1>17. ASSUME Reconcile PROVE HeldInv'
    <2>1. SnapshotsFromStore'
      BY <1>17 DEF Reconcile, BaselineHash, Files, Hash, HashIs, MatchingRemoteFiles, PreserveLocalFiles,
                   RemoteDeleteWinsPaths, StartupConflicts, Unchanged, TInv, HeldInv, SnapshotsFromStore,
                   FromStore, StoreOK, Nothing, PhaseInv
    <2>2. RowsFromStore'
      BY <1>17 DEF Reconcile, BaselineHash, Files, Hash, HashIs, MatchingRemoteFiles, PreserveLocalFiles,
                   RemoteDeleteWinsPaths, StartupConflicts, Unchanged, TInv, HeldInv, RowsFromStore,
                   HashesFromStore, LoadedOK, Nothing, PhaseInv
    <2>3. OnlyWritten' /\ QueueFromStore' /\ CopiesFromStore' /\ DiskIsSeen' /\ CallFromStore' /\ ResolverFromStore'
      BY <1>17 DEF Reconcile, HeldInv, OnlyWritten, QueueFromStore, CopiesFromStore, DiskIsSeen, CallFromStore,
                   ResolverFromStore, FromStore
    <2> QED
      BY <2>1, <2>2, <2>3 DEF HeldInv
  <1>18. ASSUME NEW p \in Paths, RepairRow(p) PROVE HeldInv'
    <2>1. RowsFromStore'
      BY <1>18 DEF RepairRow, Hash, HashIs, RecordRow, RemoteHash, TInv, HeldInv, RowsFromStore,
                   HashesFromStore, BaselineOK, PhaseInv, SnapshotsFromStore, FromStore, SetsOK, Files
    <2>2. OnlyWritten' /\ SnapshotsFromStore' /\ QueueFromStore' /\ CopiesFromStore' /\ DiskIsSeen' /\ CallFromStore' /\ ResolverFromStore'
      BY <1>18 DEF RepairRow, RecordRow, HeldInv, OnlyWritten, SnapshotsFromStore, QueueFromStore,
                   CopiesFromStore, DiskIsSeen, CallFromStore, ResolverFromStore, FromStore
    <2> QED
      BY <2>1, <2>2 DEF HeldInv
  <1>19. ASSUME NEW p \in Paths, CopyConflict(p) PROVE HeldInv'
    <2>1. CopiesFromStore'
      BY <1>19 DEF CopyConflict, TInv, HeldInv, CopiesFromStore, CopiesOK, PhaseInv, SnapshotsFromStore,
                   FromStore, SetsOK
    <2>2. OnlyWritten' /\ SnapshotsFromStore' /\ QueueFromStore' /\ RowsFromStore' /\ DiskIsSeen' /\ CallFromStore' /\ ResolverFromStore'
      BY <1>19 DEF CopyConflict, HeldInv, OnlyWritten, SnapshotsFromStore, QueueFromStore, RowsFromStore,
                   DiskIsSeen, CallFromStore, ResolverFromStore, FromStore, HashesFromStore
    <2> QED
      BY <2>1, <2>2 DEF HeldInv
  <1>20. ASSUME NEW p \in Paths, RemoveWinner(p) PROVE HeldInv'
    <2>1. OnlyWritten'
      BY <1>20 DEF RemoveWinner, Losing, NoCall, RemoveLocal, TInv, HeldInv, OnlyWritten, PhaseInv, DiskIsSeen,
                   SetsOK
    <2>2. DiskIsSeen'
      BY <1>20 DEF RemoveWinner, Losing, NoCall, RemoveLocal, TInv, HeldInv, DiskIsSeen, DiskOK, PhaseInv
    <2>3. CallFromStore'
      BY <1>20 DEF RemoveWinner, Losing, NoCall, RemoveLocal, TInv, HeldInv, CallFromStore, CallOK, PhaseInv
    <2>4. SnapshotsFromStore' /\ QueueFromStore' /\ RowsFromStore' /\ CopiesFromStore' /\ ResolverFromStore'
      BY <1>20 DEF RemoveWinner, Losing, RemoveLocal, HeldInv, SnapshotsFromStore, QueueFromStore,
                   RowsFromStore, CopiesFromStore, ResolverFromStore, FromStore, HashesFromStore
    <2> QED
      BY <2>1, <2>2, <2>3, <2>4 DEF HeldInv
  <1>21. ASSUME PersistStartup PROVE HeldInv'
    <2>1. RowsFromStore'
      BY <1>21 DEF PersistStartup, Persisted, Seeded, StartupBaselineState, TInv, HeldInv, RowsFromStore,
                   HashesFromStore, BaselineOK, PhaseInv
    <2>2. OnlyWritten' /\ SnapshotsFromStore' /\ QueueFromStore' /\ CopiesFromStore' /\ DiskIsSeen' /\ CallFromStore' /\ ResolverFromStore'
      BY <1>21 DEF PersistStartup, HeldInv, OnlyWritten, SnapshotsFromStore, QueueFromStore, CopiesFromStore,
                   DiskIsSeen, CallFromStore, ResolverFromStore, FromStore
    <2> QED
      BY <2>1, <2>2 DEF HeldInv
  <1>22. ASSUME FinishStartupSync PROVE HeldInv'
    <2>1. RowsFromStore'
      BY <1>22 DEF FinishStartupSync, Persisted, TInv, HeldInv, RowsFromStore, HashesFromStore, BaselineOK,
                   Nothing, PhaseInv
    <2>2. OnlyWritten' /\ SnapshotsFromStore' /\ QueueFromStore' /\ CopiesFromStore' /\ DiskIsSeen' /\ CallFromStore' /\ ResolverFromStore'
      BY <1>22 DEF FinishStartupSync, HeldInv, OnlyWritten, SnapshotsFromStore, QueueFromStore, CopiesFromStore,
                   DiskIsSeen, CallFromStore, ResolverFromStore, FromStore
    <2> QED
      BY <2>1, <2>2 DEF HeldInv
  <1>23. ASSUME FinishStartup PROVE HeldInv'
    <2>1. SnapshotsFromStore'
      BY <1>23 DEF FinishStartup, TInv, HeldInv, SnapshotsFromStore, FromStore, StoreOK, Nothing, PhaseInv
    <2>2. OnlyWritten' /\ QueueFromStore' /\ RowsFromStore' /\ CopiesFromStore' /\ DiskIsSeen' /\ CallFromStore' /\ ResolverFromStore'
      BY <1>23 DEF FinishStartup, HeldInv, OnlyWritten, QueueFromStore, RowsFromStore, CopiesFromStore,
                   DiskIsSeen, CallFromStore, ResolverFromStore, FromStore, HashesFromStore
    <2> QED
      BY <2>1, <2>2 DEF HeldInv
  <1>24. ASSUME NEW p \in Paths, Download(p) PROVE HeldInv'
    <2>1. CallFromStore'
      BY <1>24 DEF Download, Diverged, Hash, HashIs, KeptAtStartup, RemoteHash, Stat, ToDownload, TInv, HeldInv,
                   CallFromStore, CallOK, PhaseInv, SnapshotsFromStore, FromStore
    <2>2. OnlyWritten' /\ SnapshotsFromStore' /\ QueueFromStore' /\ RowsFromStore' /\ CopiesFromStore' /\ DiskIsSeen' /\ ResolverFromStore'
      BY <1>24 DEF Download, HeldInv, OnlyWritten, SnapshotsFromStore, QueueFromStore, RowsFromStore,
                   CopiesFromStore, DiskIsSeen, ResolverFromStore, FromStore, HashesFromStore
    <2> QED
      BY <2>1, <2>2 DEF HeldInv
  <1>25. ASSUME InstallDownload PROVE HeldInv'
    <2>1. OnlyWritten'
      BY <1>25, NoneAssumption DEF InstallDownload, Losing, Stat, TInv, HeldInv, OnlyWritten, CallOK, PhaseInv,
                                   DiskIsSeen, CallFromStore, CountsOK, Contents, BytesOK
    <2>2. DiskIsSeen'
      BY <1>25, StampIsFresh DEF InstallDownload, Losing, Stat, TInv, HeldInv, DiskIsSeen, DiskOK, CallOK,
                                 PhaseInv
    <2>3. SnapshotsFromStore' /\ QueueFromStore' /\ RowsFromStore' /\ CopiesFromStore' /\ CallFromStore' /\ ResolverFromStore'
      BY <1>25 DEF InstallDownload, Losing, HeldInv, SnapshotsFromStore, QueueFromStore, RowsFromStore,
                   CopiesFromStore, CallFromStore, ResolverFromStore, FromStore, HashesFromStore
    <2> QED
      BY <2>1, <2>2, <2>3 DEF HeldInv
  <1>26. ASSUME Record PROVE HeldInv'
    <2>1. RowsFromStore'
      BY <1>26 DEF Record, Adopt, Hash, HashIs, NoCall, RecordRow, Stat, TInv, HeldInv, RowsFromStore,
                   HashesFromStore, BaselineOK, CallOK, PhaseInv, CallFromStore
    <2>2. CallFromStore'
      BY <1>26 DEF Record, Adopt, Hash, HashIs, NoCall, RecordRow, Stat, TInv, HeldInv, CallFromStore, CallOK,
                   PhaseInv
    <2>3. OnlyWritten' /\ SnapshotsFromStore' /\ QueueFromStore' /\ CopiesFromStore' /\ DiskIsSeen' /\ ResolverFromStore'
      BY <1>26 DEF Record, Adopt, RecordRow, HeldInv, OnlyWritten, SnapshotsFromStore, QueueFromStore,
                   CopiesFromStore, DiskIsSeen, ResolverFromStore, FromStore
    <2> QED
      BY <2>1, <2>2, <2>3 DEF HeldInv
  <1>27. ASSUME NEW p \in Paths, Upload(p) PROVE HeldInv'
    <2>1. OnlyWritten'
      BY <1>27 DEF Upload, Hash, Suppressed, TInv, HeldInv, OnlyWritten, PhaseInv, DiskIsSeen
    <2>2. SnapshotsFromStore'
      BY <1>27, VersionIsFresh DEF Upload, Hash, Suppressed, TInv, HeldInv, SnapshotsFromStore, FromStore,
                                   StoreOK, PhaseInv
    <2>3. QueueFromStore'
      BY <1>27, VersionIsFresh DEF Upload, Hash, Suppressed, TInv, HeldInv, QueueFromStore, FromStore, PhaseInv
    <2>4. RowsFromStore'
      BY <1>27, VersionIsFresh DEF Upload, Hash, Suppressed, TInv, HeldInv, RowsFromStore, HashesFromStore,
                                   PhaseInv
    <2>5. CopiesFromStore'
      BY <1>27, VersionIsFresh DEF Upload, Hash, Suppressed, TInv, HeldInv, CopiesFromStore, PhaseInv
    <2>6. CallFromStore'
      BY <1>27, VersionIsFresh DEF Upload, Hash, Suppressed, TInv, HeldInv, CallFromStore, CallOK, PhaseInv
    <2>7. ResolverFromStore'
      BY <1>27, VersionIsFresh DEF Upload, Hash, Suppressed, TInv, HeldInv, ResolverFromStore, PhaseInv
    <2>8. DiskIsSeen'
      BY <1>27 DEF Upload, HeldInv, DiskIsSeen
    <2> QED
      BY <2>1, <2>2, <2>3, <2>4, <2>5, <2>6, <2>7, <2>8 DEF HeldInv
  <1>28. ASSUME RecordUpload PROVE HeldInv'
    <2>1. RowsFromStore'
      BY <1>28 DEF RecordUpload, Hash, HashIs, NoCall, RecordRow, TInv, HeldInv, RowsFromStore, HashesFromStore,
                   BaselineOK, CallOK, PhaseInv, CallFromStore
    <2>2. CallFromStore'
      BY <1>28 DEF RecordUpload, Hash, HashIs, NoCall, RecordRow, TInv, HeldInv, CallFromStore, CallOK, PhaseInv
    <2>3. OnlyWritten' /\ SnapshotsFromStore' /\ QueueFromStore' /\ CopiesFromStore' /\ DiskIsSeen' /\ ResolverFromStore'
      BY <1>28 DEF RecordUpload, RecordRow, HeldInv, OnlyWritten, SnapshotsFromStore, QueueFromStore,
                   CopiesFromStore, DiskIsSeen, ResolverFromStore, FromStore
    <2> QED
      BY <2>1, <2>2, <2>3 DEF HeldInv
  <1>29. ASSUME NEW p \in Paths, DeleteRemote(p) PROVE HeldInv'
    <2>1. SnapshotsFromStore'
      BY <1>29 DEF DeleteRemote, KnownRemote, NoCall, TInv, HeldInv, SnapshotsFromStore, FromStore, StoreOK,
                   PhaseInv
    <2>2. CallFromStore'
      BY <1>29 DEF DeleteRemote, KnownRemote, NoCall, TInv, HeldInv, CallFromStore, CallOK, PhaseInv
    <2>3. OnlyWritten' /\ QueueFromStore' /\ RowsFromStore' /\ CopiesFromStore' /\ DiskIsSeen' /\ ResolverFromStore'
      BY <1>29 DEF DeleteRemote, HeldInv, OnlyWritten, QueueFromStore, RowsFromStore, CopiesFromStore,
                   DiskIsSeen, ResolverFromStore, FromStore, HashesFromStore
    <2> QED
      BY <2>1, <2>2, <2>3 DEF HeldInv
  <1>30. ASSUME ForgetRemote PROVE HeldInv'
    <2>1. RowsFromStore'
      BY <1>30 DEF ForgetRemote, NoCall, RemoveRow, TInv, HeldInv, RowsFromStore, HashesFromStore, BaselineOK,
                   CallOK, PhaseInv
    <2>2. CallFromStore'
      BY <1>30 DEF ForgetRemote, NoCall, RemoveRow, TInv, HeldInv, CallFromStore, CallOK, PhaseInv
    <2>3. OnlyWritten' /\ SnapshotsFromStore' /\ QueueFromStore' /\ CopiesFromStore' /\ DiskIsSeen' /\ ResolverFromStore'
      BY <1>30 DEF ForgetRemote, RemoveRow, HeldInv, OnlyWritten, SnapshotsFromStore, QueueFromStore,
                   CopiesFromStore, DiskIsSeen, ResolverFromStore, FromStore
    <2> QED
      BY <2>1, <2>2, <2>3 DEF HeldInv
  <1>31. ASSUME FinishScan PROVE HeldInv'
    <2>1. RowsFromStore'
      BY <1>31 DEF FinishScan, Persisted, TInv, HeldInv, RowsFromStore, HashesFromStore, BaselineOK, Nothing,
                   PhaseInv
    <2>2. OnlyWritten' /\ SnapshotsFromStore' /\ QueueFromStore' /\ CopiesFromStore' /\ DiskIsSeen' /\ CallFromStore' /\ ResolverFromStore'
      BY <1>31 DEF FinishScan, HeldInv, OnlyWritten, SnapshotsFromStore, QueueFromStore, CopiesFromStore,
                   DiskIsSeen, CallFromStore, ResolverFromStore, FromStore
    <2> QED
      BY <2>1, <2>2 DEF HeldInv
  <1>32. ASSUME Poll PROVE HeldInv'
    <2>1. SnapshotsFromStore'
      BY <1>32 DEF Poll, TInv, HeldInv, SnapshotsFromStore, FromStore, StoreOK, PhaseInv
    <2>2. QueueFromStore'
      <3> DEFINE e == [snapshot |-> remote, changed |-> {q \in Paths : known[q] # remote[q]}]
      <3>1. queue' = Append(queue, e) /\ held' = held
        BY <1>32 DEF Poll
      <3>2. e.snapshot = remote
        OBVIOUS
      <3> HIDE DEF e
      <3>3. \A i \in DOMAIN queue' : queue'[i] = e \/ (i \in DOMAIN queue /\ queue'[i] = queue[i])
        BY <3>1 DEF TInv, QueueOK
      <3> QED
        BY <3>1, <3>2, <3>3 DEF HeldInv, QueueFromStore, SnapshotsFromStore, FromStore
    <2>3. OnlyWritten' /\ RowsFromStore' /\ CopiesFromStore' /\ DiskIsSeen' /\ CallFromStore' /\ ResolverFromStore'
      BY <1>32 DEF Poll, HeldInv, OnlyWritten, RowsFromStore, CopiesFromStore, DiskIsSeen, CallFromStore,
                   ResolverFromStore, HashesFromStore
    <2> QED
      BY <2>1, <2>2, <2>3 DEF HeldInv
  <1>33. ASSUME TakeUpdate PROVE HeldInv'
    <2>1. SnapshotsFromStore'
      <3>1. Head(queue) = queue[1] /\ 1 \in DOMAIN queue
        BY <1>33 DEF TakeUpdate, TInv, QueueOK
      <3> QED
        BY <1>33, <3>1 DEF TakeUpdate, HeldInv, SnapshotsFromStore, QueueFromStore, FromStore
    <2>2. QueueFromStore'
      BY <1>33 DEF TakeUpdate, TInv, HeldInv, QueueFromStore, FromStore, QueueOK, PhaseInv
    <2>3. OnlyWritten' /\ RowsFromStore' /\ CopiesFromStore' /\ DiskIsSeen' /\ CallFromStore' /\ ResolverFromStore'
      BY <1>33 DEF TakeUpdate, HeldInv, OnlyWritten, RowsFromStore, CopiesFromStore, DiskIsSeen, CallFromStore,
                   ResolverFromStore, HashesFromStore
    <2> QED
      BY <2>1, <2>2, <2>3 DEF HeldInv
  <1>34. ASSUME NEW p \in Paths, AdoptMatching(p) PROVE HeldInv'
    <2>1. RowsFromStore'
      BY <1>34 DEF AdoptMatching, Adopt, Diverged, Hash, HashIs, RecordRow, RemoteHash, Stat, TInv, HeldInv,
                   RowsFromStore, HashesFromStore, BaselineOK, PhaseInv, SnapshotsFromStore, FromStore
    <2>2. OnlyWritten' /\ SnapshotsFromStore' /\ QueueFromStore' /\ CopiesFromStore' /\ DiskIsSeen' /\ CallFromStore' /\ ResolverFromStore'
      BY <1>34 DEF AdoptMatching, Adopt, RecordRow, HeldInv, OnlyWritten, SnapshotsFromStore, QueueFromStore,
                   CopiesFromStore, DiskIsSeen, CallFromStore, ResolverFromStore, FromStore
    <2> QED
      BY <2>1, <2>2 DEF HeldInv
  <1>35. ASSUME NEW p \in Paths, ApplyDelete(p) PROVE HeldInv'
    <2>1. OnlyWritten'
      BY <1>35 DEF ApplyDelete, Losing, NoCall, RemoveLocal, StaleDelete, TInv, HeldInv, OnlyWritten, PhaseInv,
                   DiskIsSeen, SetsOK
    <2>2. DiskIsSeen'
      BY <1>35 DEF ApplyDelete, Losing, NoCall, RemoveLocal, StaleDelete, TInv, HeldInv, DiskIsSeen, DiskOK,
                   PhaseInv
    <2>3. CallFromStore'
      BY <1>35 DEF ApplyDelete, Losing, NoCall, RemoveLocal, StaleDelete, TInv, HeldInv, CallFromStore, CallOK,
                   PhaseInv
    <2>4. SnapshotsFromStore' /\ QueueFromStore' /\ RowsFromStore' /\ CopiesFromStore' /\ ResolverFromStore'
      BY <1>35 DEF ApplyDelete, Losing, RemoveLocal, HeldInv, SnapshotsFromStore, QueueFromStore, RowsFromStore,
                   CopiesFromStore, ResolverFromStore, FromStore, HashesFromStore
    <2> QED
      BY <2>1, <2>2, <2>3, <2>4 DEF HeldInv
  <1>36. ASSUME ForgetLocal PROVE HeldInv'
    <2>1. RowsFromStore'
      BY <1>36 DEF ForgetLocal, NoCall, RemoveRow, TInv, HeldInv, RowsFromStore, HashesFromStore, BaselineOK,
                   CallOK, PhaseInv
    <2>2. CallFromStore'
      BY <1>36 DEF ForgetLocal, NoCall, RemoveRow, TInv, HeldInv, CallFromStore, CallOK, PhaseInv
    <2>3. OnlyWritten' /\ SnapshotsFromStore' /\ QueueFromStore' /\ CopiesFromStore' /\ DiskIsSeen' /\ ResolverFromStore'
      BY <1>36 DEF ForgetLocal, RemoveRow, HeldInv, OnlyWritten, SnapshotsFromStore, QueueFromStore,
                   CopiesFromStore, DiskIsSeen, ResolverFromStore, FromStore
    <2> QED
      BY <2>1, <2>2, <2>3 DEF HeldInv
  <1>37. ASSUME FinishUpdate PROVE HeldInv'
    <2>1. SnapshotsFromStore'
      BY <1>37 DEF FinishUpdate, Files, TInv, HeldInv, SnapshotsFromStore, FromStore, StoreOK, Nothing, PhaseInv
    <2>2. OnlyWritten' /\ QueueFromStore' /\ RowsFromStore' /\ CopiesFromStore' /\ DiskIsSeen' /\ CallFromStore' /\ ResolverFromStore'
      BY <1>37 DEF FinishUpdate, HeldInv, OnlyWritten, QueueFromStore, RowsFromStore, CopiesFromStore,
                   DiskIsSeen, CallFromStore, ResolverFromStore, FromStore, HashesFromStore
    <2> QED
      BY <2>1, <2>2 DEF HeldInv
  <1>38. ASSUME PersistUpdates PROVE HeldInv'
    <2>1. RowsFromStore'
      BY <1>38 DEF PersistUpdates, Persisted, Seeded, TInv, HeldInv, RowsFromStore, HashesFromStore, BaselineOK,
                   PhaseInv
    <2>2. OnlyWritten' /\ SnapshotsFromStore' /\ QueueFromStore' /\ CopiesFromStore' /\ DiskIsSeen' /\ CallFromStore' /\ ResolverFromStore'
      BY <1>38 DEF PersistUpdates, HeldInv, OnlyWritten, SnapshotsFromStore, QueueFromStore, CopiesFromStore,
                   DiskIsSeen, CallFromStore, ResolverFromStore, FromStore
    <2> QED
      BY <2>1, <2>2 DEF HeldInv
  <1>39. ASSUME Ends PROVE HeldInv'
    <2>1. SnapshotsFromStore'
      BY <1>39 DEF Ends, Down, NoCall, TInv, HeldInv, SnapshotsFromStore, FromStore, StoreOK, Nothing, PhaseInv
    <2>2. QueueFromStore'
      BY <1>39 DEF Ends, Down, NoCall, TInv, HeldInv, QueueFromStore, FromStore, QueueOK, Nothing, PhaseInv
    <2>3. RowsFromStore'
      BY <1>39 DEF Ends, Down, NoCall, TInv, HeldInv, RowsFromStore, HashesFromStore, LoadedOK, Nothing,
                   PhaseInv
    <2>4. CallFromStore'
      BY <1>39 DEF Ends, Down, NoCall, TInv, HeldInv, CallFromStore, CallOK, Nothing, PhaseInv
    <2>5. OnlyWritten' /\ CopiesFromStore' /\ DiskIsSeen' /\ ResolverFromStore'
      BY <1>39 DEF Ends, Down, HeldInv, OnlyWritten, CopiesFromStore, DiskIsSeen, ResolverFromStore
    <2> QED
      BY <2>1, <2>2, <2>3, <2>4, <2>5 DEF HeldInv
  <1>40. ASSUME \/ BeginCopies \/ BeginApply \/ BeginRemovals \/ ScanLocal
               \/ \E p \in Paths : SkipAtStartup(p) \/ SkipUpload(p) \/ SkipDelete(p) \/ SkipDiverged(p) \/ SkipStaleDelete(p)
       PROVE  HeldInv'
    BY <1>40 DEF BeginCopies, BeginApply, SkipAtStartup, BeginRemovals, ScanLocal, SkipUpload, SkipDelete,
                 SkipDiverged, SkipStaleDelete, HeldInv, OnlyWritten, SnapshotsFromStore, QueueFromStore,
                 RowsFromStore, CopiesFromStore, DiskIsSeen, CallFromStore, ResolverFromStore, FromStore,
                 HashesFromStore
  <1>41. CASE UNCHANGED folderVars
    BY <1>41 DEF folderVars, HeldInv, OnlyWritten, SnapshotsFromStore, QueueFromStore, RowsFromStore,
                 CopiesFromStore, DiskIsSeen, CallFromStore, ResolverFromStore, FromStore, HashesFromStore
  <1> QED
    BY <1>1, <1>2, <1>3, <1>4, <1>5, <1>6, <1>7, <1>8, <1>9, <1>10, <1>11, <1>12, <1>13, <1>14, <1>15, <1>16,
       <1>17, <1>18, <1>19, <1>20, <1>21, <1>22, <1>23, <1>24, <1>25, <1>26, <1>27, <1>28, <1>29, <1>30, <1>31,
       <1>32, <1>33, <1>34, <1>35, <1>36, <1>37, <1>38, <1>39, <1>40, <1>41
    DEF FolderNext, UserStep, OthersStep, ResolverStep, StartupStep, DownloadStep, SyncStep, UpdateStep,
        DownloadFails, UploadFails, Stop, Ends

\* Nothing was written yet.
LEMMA BytesStart == FolderInit => HeldInv
  BY DEF FolderInit, HeldInv, OnlyWritten, SnapshotsFromStore, QueueFromStore, RowsFromStore, HashesFromStore,
         CopiesFromStore, DiskIsSeen, CallFromStore, ResolverFromStore, FromStore, Nothing, NoCall, NoResolution

-------------------------------------------------------------------------------
(***************************************************************************)
(* Edits made while the agent is down                                      *)
(***************************************************************************)

\* The file is an edit of which the store has nothing yet.
AtRisk(q) == disk[q] # None /\ disk[q].content \in offline /\ disk[q].content \notin held

\* The startup works by the plan that it made from its snapshot.
Reconciling == starting /\ pc \in {"repair", "copy", "apply", "install", "record", "remove", "removed"}

\* No row of the baseline vouches for the file, and no resolution is about to make one.
RiskIsNews ==
    \A q \in Paths : AtRisk(q) =>
        /\ baseline[q] # None => baseline[q].stamp # disk[q].stamp
        /\ ~BeingRecorded(q)

\* Only a startup finds such files, and it has not downloaded them.
RiskIsOld ==
    \A q \in Paths : AtRisk(q) =>
        /\ pc = "down" \/ starting
        /\ suppressed_uploads[q] = None
        /\ pc = "fetch" => /\ local_state[q] # None
                           /\ loaded[q] # None => loaded[q].stamp # local_state[q]

\* The plan of the startup keeps them.
RiskIsPlanned ==
    \A q \in Paths : AtRisk(q) =>
        /\ Reconciling => /\ q \in preserve_local_files
                          /\ q \notin remote_delete_wins_paths /\ q \notin matching_remote_files
        /\ pc \in {"install", "record", "removed", "uploaded", "deleted"} => call.path # q

\* And its scan finds them.
RiskIsUploaded ==
    \A q \in Paths : AtRisk(q) =>
        /\ pc = "scan" \/ Syncing => local_state[q] = None
        /\ Syncing => q \in todo /\ current[q] # None
        /\ pc # "persist"

RiskInv == OfflineEditsSurvive /\ RiskIsNews /\ RiskIsOld /\ RiskIsPlanned /\ RiskIsUploaded

\* A step of the agent takes no such file away, and leaves no such file behind
\* when its startup is over.
LEMMA RisksKept ==
    ASSUME TInv, HeldInv, RiskInv, [FolderNext]_folderVars
    PROVE  RiskInv'
  <1> USE DEF fileVars, storeVars, rowVars, copyVars, treeVars, planVars, threadVars, pollVars, counterVars, agentVars
  <1>1. ASSUME NEW p \in Paths, Write(p) PROVE RiskInv'
    <2>1. OfflineEditsSurvive'
      BY <1>1 DEF Write, BeingRecorded, Move, Stat, TInv, RiskInv, OfflineEditsSurvive, PhaseInv, HeldInv,
                  OnlyWritten, CountsOK
    <2>2. RiskIsNews'
      BY <1>1, StampIsFresh DEF Write, BeingRecorded, Move, Stat, TInv, RiskInv, RiskIsNews, AtRisk, DiskOK,
                                PhaseInv, HeldInv, OnlyWritten, DiskIsSeen, CountsOK, NoResolution
    <2>3. RiskIsOld'
      BY <1>1, StampIsFresh DEF Write, BeingRecorded, Move, Stat, TInv, RiskInv, RiskIsOld, AtRisk, DiskOK,
                                PhaseInv, HeldInv, OnlyWritten, DiskIsSeen, CountsOK, Nothing, BytesOK
    <2>4. RiskIsPlanned'
      BY <1>1, StampIsFresh DEF Write, BeingRecorded, Move, Stat, TInv, RiskInv, RiskIsPlanned, AtRisk,
                                Reconciling, DiskOK, PhaseInv, HeldInv, OnlyWritten, DiskIsSeen, CountsOK,
                                NoResolution
    <2>5. RiskIsUploaded'
      BY <1>1, StampIsFresh DEF Write, BeingRecorded, Move, Stat, TInv, RiskInv, RiskIsUploaded, AtRisk,
                                Syncing, DiskOK, PhaseInv, HeldInv, OnlyWritten, DiskIsSeen, CountsOK,
                                NoResolution
    <2> QED
      BY <2>1, <2>2, <2>3, <2>4, <2>5 DEF RiskInv
  <1>2. ASSUME NEW p \in Paths, Touch(p) PROVE RiskInv'
    <2>1. RiskIsNews'
      BY <1>2, StampIsFresh DEF Touch, Move, Stat, TInv, RiskInv, RiskIsNews, AtRisk, BeingRecorded, DiskOK,
                                PhaseInv
    <2>2. RiskIsOld'
      BY <1>2, StampIsFresh DEF Touch, Move, Stat, TInv, RiskInv, RiskIsOld, AtRisk, DiskOK, PhaseInv
    <2>3. RiskIsPlanned'
      BY <1>2, StampIsFresh DEF Touch, Move, Stat, TInv, RiskInv, RiskIsPlanned, AtRisk, Reconciling, DiskOK,
                                PhaseInv
    <2>4. RiskIsUploaded'
      BY <1>2, StampIsFresh DEF Touch, Move, Stat, TInv, RiskInv, RiskIsUploaded, AtRisk, Syncing, DiskOK,
                                PhaseInv
    <2>5. OfflineEditsSurvive'
      BY <1>2 DEF Touch, Move, RiskInv, OfflineEditsSurvive
    <2> QED
      BY <2>1, <2>2, <2>3, <2>4, <2>5 DEF RiskInv
  <1>3. ASSUME NEW p \in Paths, Delete(p) PROVE RiskInv'
    <2>1. RiskIsNews'
      BY <1>3 DEF Delete, Move, TInv, RiskInv, RiskIsNews, AtRisk, BeingRecorded, DiskOK, PhaseInv
    <2>2. RiskIsOld'
      BY <1>3 DEF Delete, Move, TInv, RiskInv, RiskIsOld, AtRisk, DiskOK, PhaseInv
    <2>3. RiskIsPlanned'
      BY <1>3 DEF Delete, Move, TInv, RiskInv, RiskIsPlanned, AtRisk, Reconciling, DiskOK, PhaseInv
    <2>4. RiskIsUploaded'
      BY <1>3 DEF Delete, Move, TInv, RiskInv, RiskIsUploaded, AtRisk, Syncing, DiskOK, PhaseInv
    <2>5. OfflineEditsSurvive'
      BY <1>3 DEF Delete, Move, RiskInv, OfflineEditsSurvive
    <2> QED
      BY <2>1, <2>2, <2>3, <2>4, <2>5 DEF RiskInv
  <1>4. ASSUME NEW p \in Paths, KeepRemote(p) PROVE RiskInv'
    <2>1. RiskIsNews'
      BY <1>4 DEF KeepRemote, Move, NoResolution, TInv, RiskInv, RiskIsNews, AtRisk, BeingRecorded, DiskOK,
                  ResolverOK, PhaseInv
    <2>2. RiskIsOld'
      BY <1>4 DEF KeepRemote, Move, NoResolution, TInv, RiskInv, RiskIsOld, AtRisk, DiskOK, PhaseInv
    <2>3. RiskIsPlanned'
      BY <1>4 DEF KeepRemote, Move, NoResolution, TInv, RiskInv, RiskIsPlanned, AtRisk, Reconciling, DiskOK,
                  PhaseInv
    <2>4. RiskIsUploaded'
      BY <1>4 DEF KeepRemote, Move, NoResolution, TInv, RiskInv, RiskIsUploaded, AtRisk, Syncing, DiskOK,
                  PhaseInv
    <2>5. OfflineEditsSurvive'
      BY <1>4 DEF KeepRemote, Move, RiskInv, OfflineEditsSurvive
    <2> QED
      BY <2>1, <2>2, <2>3, <2>4, <2>5 DEF RiskInv
  <1>5. ASSUME NEW p \in Paths, RemotePut(p) PROVE RiskInv'
    <2>1. RiskIsNews'
      BY <1>5, VersionIsFresh DEF RemotePut, Move, TInv, RiskInv, RiskIsNews, AtRisk, BeingRecorded, PhaseInv
    <2>2. RiskIsOld'
      BY <1>5, VersionIsFresh DEF RemotePut, Move, TInv, RiskInv, RiskIsOld, AtRisk, PhaseInv
    <2>3. RiskIsPlanned'
      BY <1>5, VersionIsFresh DEF RemotePut, Move, TInv, RiskInv, RiskIsPlanned, AtRisk, Reconciling, PhaseInv
    <2>4. RiskIsUploaded'
      BY <1>5, VersionIsFresh DEF RemotePut, Move, TInv, RiskInv, RiskIsUploaded, AtRisk, Syncing, PhaseInv
    <2>5. OfflineEditsSurvive'
      BY <1>5 DEF RemotePut, Move, RiskInv, OfflineEditsSurvive
    <2> QED
      BY <2>1, <2>2, <2>3, <2>4, <2>5 DEF RiskInv
  <1>6. ASSUME ApplyRemoteCopy PROVE RiskInv'
    <2>0. /\ resolver = [path |-> resolver.path, step |-> resolver.step, content |-> resolver.content]
          /\ resolver.path \in Paths /\ resolver.content \in Contents
      BY <1>6, ResolverAtWork DEF ApplyRemoteCopy, Resolve, Steps
    <2>1. RiskIsNews'
      BY <1>6, StampIsFresh, <2>0, NoneAssumption DEF ApplyRemoteCopy, Resolve, Stat, TInv, RiskInv, RiskIsNews,
                                                      AtRisk, BeingRecorded, DiskOK, ResolverOK, PhaseInv,
                                                      HeldInv, ResolverFromStore
    <2>2. RiskIsOld'
      BY <1>6, StampIsFresh, <2>0, NoneAssumption DEF ApplyRemoteCopy, Resolve, Stat, TInv, RiskInv, RiskIsOld,
                                                      AtRisk, DiskOK, PhaseInv, HeldInv, ResolverFromStore
    <2>3. RiskIsPlanned'
      BY <1>6, StampIsFresh, <2>0, NoneAssumption DEF ApplyRemoteCopy, Resolve, Stat, TInv, RiskInv,
                                                      RiskIsPlanned, AtRisk, Reconciling, DiskOK, PhaseInv,
                                                      HeldInv, ResolverFromStore
    <2>4. RiskIsUploaded'
      BY <1>6, StampIsFresh, <2>0, NoneAssumption DEF ApplyRemoteCopy, Resolve, Stat, TInv, RiskInv,
                                                      RiskIsUploaded, AtRisk, Syncing, DiskOK, PhaseInv,
                                                      HeldInv, ResolverFromStore
    <2>5. OfflineEditsSurvive'
      BY <1>6 DEF ApplyRemoteCopy, Resolve, RiskInv, OfflineEditsSurvive
    <2> QED
      BY <2>1, <2>2, <2>3, <2>4, <2>5 DEF RiskInv
  <1>7. ASSUME UploadResolved PROVE RiskInv'
    <2>0. /\ resolver = [path |-> resolver.path, step |-> resolver.step, content |-> resolver.content]
          /\ resolver.path \in Paths /\ disk[resolver.path].content \in Contents
      BY <1>7, ResolverAtWork, StatIsSome DEF UploadResolved, Steps
    <2>1. RiskIsNews'
      BY <1>7, VersionIsFresh, <2>0 DEF UploadResolved, Hash, TInv, RiskInv, RiskIsNews, AtRisk, BeingRecorded,
                                        ResolverOK, PhaseInv
    <2>2. RiskIsOld'
      BY <1>7, VersionIsFresh, <2>0 DEF UploadResolved, Hash, TInv, RiskInv, RiskIsOld, AtRisk, PhaseInv
    <2>3. RiskIsPlanned'
      BY <1>7, VersionIsFresh, <2>0 DEF UploadResolved, Hash, TInv, RiskInv, RiskIsPlanned, AtRisk, Reconciling,
                                        PhaseInv
    <2>4. RiskIsUploaded'
      BY <1>7, VersionIsFresh, <2>0 DEF UploadResolved, Hash, TInv, RiskInv, RiskIsUploaded, AtRisk, Syncing,
                                        PhaseInv
    <2>5. OfflineEditsSurvive'
      BY <1>7 DEF UploadResolved, RiskInv, OfflineEditsSurvive
    <2> QED
      BY <2>1, <2>2, <2>3, <2>4, <2>5 DEF RiskInv
  <1>8. ASSUME RecordResolved PROVE RiskInv'
    <2>0. /\ resolver = [path |-> resolver.path, step |-> resolver.step, content |-> resolver.content]
          /\ resolver.path \in Paths /\ resolver.content \in Contents
      BY <1>8, ResolverAtWork DEF RecordResolved, Resolve, Steps
    <2>1. RiskIsNews'
      BY <1>8, <2>0 DEF RecordResolved, Hash, HashIs, RecordRow, Resolve, Stat, TInv, RiskInv, RiskIsNews,
                        AtRisk, BeingRecorded, BaselineOK, ResolverOK, PhaseInv
    <2>2. OfflineEditsSurvive' /\ RiskIsOld' /\ RiskIsPlanned' /\ RiskIsUploaded'
      BY <1>8 DEF RecordResolved, RecordRow, Resolve, RiskInv, OfflineEditsSurvive, RiskIsOld, RiskIsPlanned,
                  RiskIsUploaded, AtRisk, Reconciling, Syncing
    <2> QED
      BY <2>1, <2>2 DEF RiskInv
  <1>9. ASSUME RemoveResolved PROVE RiskInv'
    <2>0. /\ resolver = [path |-> resolver.path, step |-> resolver.step, content |-> resolver.content]
          /\ resolver.path \in Paths
      BY <1>9, ResolverAtWork DEF RemoveResolved, Resolve, Steps
    <2>1. RiskIsNews'
      BY <1>9, <2>0 DEF RemoveResolved, Resolve, TInv, RiskInv, RiskIsNews, AtRisk, BeingRecorded, DiskOK,
                        ResolverOK, PhaseInv
    <2>2. RiskIsOld'
      BY <1>9, <2>0 DEF RemoveResolved, Resolve, TInv, RiskInv, RiskIsOld, AtRisk, DiskOK, PhaseInv
    <2>3. RiskIsPlanned'
      BY <1>9, <2>0 DEF RemoveResolved, Resolve, TInv, RiskInv, RiskIsPlanned, AtRisk, Reconciling, DiskOK,
                        PhaseInv
    <2>4. RiskIsUploaded'
      BY <1>9, <2>0 DEF RemoveResolved, Resolve, TInv, RiskInv, RiskIsUploaded, AtRisk, Syncing, DiskOK,
                        PhaseInv
    <2>5. OfflineEditsSurvive'
      BY <1>9 DEF RemoveResolved, Resolve, RiskInv, OfflineEditsSurvive
    <2> QED
      BY <2>1, <2>2, <2>3, <2>4, <2>5 DEF RiskInv
  <1>10. ASSUME DeleteResolved PROVE RiskInv'
    <2>0. /\ resolver = [path |-> resolver.path, step |-> resolver.step, content |-> resolver.content]
          /\ resolver.path \in Paths
      BY <1>10, ResolverAtWork DEF DeleteResolved, Resolve, Steps
    <2>1. RiskIsNews'
      BY <1>10, <2>0 DEF DeleteResolved, Resolve, TInv, RiskInv, RiskIsNews, AtRisk, BeingRecorded, ResolverOK,
                         PhaseInv
    <2>2. OfflineEditsSurvive' /\ RiskIsOld' /\ RiskIsPlanned' /\ RiskIsUploaded'
      BY <1>10 DEF DeleteResolved, Resolve, RiskInv, OfflineEditsSurvive, RiskIsOld, RiskIsPlanned,
                   RiskIsUploaded, AtRisk, Reconciling, Syncing
    <2> QED
      BY <2>1, <2>2 DEF RiskInv
  <1>11. ASSUME UnrecordResolved PROVE RiskInv'
    <2>0. /\ resolver = [path |-> resolver.path, step |-> resolver.step, content |-> resolver.content]
          /\ resolver.path \in Paths
      BY <1>11, ResolverAtWork DEF UnrecordResolved, Resolve, Steps
    <2>1. RiskIsNews'
      BY <1>11, <2>0 DEF UnrecordResolved, RemoveRow, Resolve, TInv, RiskInv, RiskIsNews, AtRisk, BeingRecorded,
                         BaselineOK, ResolverOK, PhaseInv
    <2>2. OfflineEditsSurvive' /\ RiskIsOld' /\ RiskIsPlanned' /\ RiskIsUploaded'
      BY <1>11 DEF UnrecordResolved, RemoveRow, Resolve, RiskInv, OfflineEditsSurvive, RiskIsOld, RiskIsPlanned,
                   RiskIsUploaded, AtRisk, Reconciling, Syncing
    <2> QED
      BY <2>1, <2>2 DEF RiskInv
  <1>12. ASSUME FinishResolution PROVE RiskInv'
    <2>0. /\ resolver = [path |-> resolver.path, step |-> resolver.step, content |-> resolver.content]
          /\ resolver.path \in Paths
      BY <1>12, ResolverAtWork DEF FinishResolution, Steps
    <2>1. RiskIsNews'
      BY <1>12, <2>0, NoneAssumption DEF FinishResolution, ClearConflict, NoResolution, TInv, RiskInv,
                                         RiskIsNews, AtRisk, BeingRecorded, ResolverOK, PhaseInv, Steps
    <2>2. OfflineEditsSurvive' /\ RiskIsOld' /\ RiskIsPlanned' /\ RiskIsUploaded'
      BY <1>12 DEF FinishResolution, ClearConflict, RiskInv, OfflineEditsSurvive, RiskIsOld, RiskIsPlanned,
                   RiskIsUploaded, AtRisk, Reconciling, Syncing
    <2> QED
      BY <2>1, <2>2 DEF RiskInv
  <1>13. ASSUME AbandonResolution PROVE RiskInv'
    <2>1. RiskIsNews'
      BY <1>13, NoneAssumption DEF AbandonResolution, NoResolution, TInv, RiskInv, RiskIsNews, AtRisk,
                                   BeingRecorded, ResolverOK, PhaseInv, Steps
    <2>2. OfflineEditsSurvive' /\ RiskIsOld' /\ RiskIsPlanned' /\ RiskIsUploaded'
      BY <1>13 DEF AbandonResolution, RiskInv, OfflineEditsSurvive, RiskIsOld, RiskIsPlanned, RiskIsUploaded,
                   AtRisk, Reconciling, Syncing
    <2> QED
      BY <2>1, <2>2 DEF RiskInv
  <1>14. ASSUME Start PROVE RiskInv'
    <2>1. RiskIsNews'
      <3>1. baseline' = baseline \/ baseline' = Nothing
        BY <1>14 DEF Start
      <3> QED
        BY <1>14, <3>1 DEF Start, RiskInv, RiskIsNews, AtRisk, BeingRecorded, Nothing
    <2>2. RiskIsOld'
      <3>1. suppressed_uploads' = Nothing /\ pc' = "fetch" /\ starting' /\ local_state' = Scan
        BY <1>14 DEF Start, TInv, PhaseInv
      <3>2. disk' = disk /\ offline' = offline /\ held' = held
        BY <1>14 DEF Start
      <3>3. ASSUME NEW q \in Paths, AtRisk(q)
            PROVE  /\ Scan[q] = disk[q].stamp /\ Scan[q] # None
                   /\ loaded'[q] # None => loaded'[q].stamp # disk[q].stamp
        <4>1. Scan[q] = disk[q].stamp /\ Scan[q] # None
          BY <3>3, StatIsSome DEF AtRisk, Scan
        <4>2. loaded'[q] = None \/ (baseline[q] # None /\ loaded'[q].stamp = baseline[q].stamp)
          BY <1>14 DEF Start, Nothing, TInv, BaselineOK, Row
        <4> QED
          BY <3>3, <4>1, <4>2 DEF RiskInv, RiskIsNews
      <3> QED
        BY <3>1, <3>2, <3>3 DEF RiskIsOld, AtRisk, Nothing
    <2>3. RiskIsPlanned'
      BY <1>14 DEF Start, Scan, Stat, TInv, RiskInv, RiskIsPlanned, AtRisk, Reconciling, CountsOK, Nothing,
                   PhaseInv
    <2>4. RiskIsUploaded'
      BY <1>14 DEF Start, Scan, Stat, TInv, RiskInv, RiskIsUploaded, AtRisk, Syncing, TreesOK, CountsOK,
                   Nothing, PhaseInv
    <2>5. OfflineEditsSurvive'
      BY <1>14 DEF Start, RiskInv, OfflineEditsSurvive
    <2> QED
      BY <2>1, <2>2, <2>3, <2>4, <2>5 DEF RiskInv
  <1>15. ASSUME Reconcile PROVE RiskInv'
    <2>1. RiskIsOld'
      BY <1>15 DEF Reconcile, BaselineHash, Files, Hash, HashIs, MatchingRemoteFiles, PreserveLocalFiles,
                   RemoteDeleteWinsPaths, StartupConflicts, Unchanged, TInv, RiskInv, RiskIsOld, AtRisk,
                   LoadedOK, CountsOK, Nothing, PhaseInv
    <2>2. RiskIsPlanned'
      <3>1. ASSUME NEW q \in Paths, AtRisk(q)
            PROVE  /\ q \in PreserveLocalFiles(remote) /\ q \notin MatchingRemoteFiles(remote)
                   /\ q \notin RemoteDeleteWinsPaths(remote)
        <4>1. local_state[q] # None /\ ~Unchanged(q)
          BY <1>15, <3>1 DEF Reconcile, RiskInv, RiskIsOld, Unchanged
        <4>2. remote[q] # None => ~HashIs(q, remote[q].content)
          BY <3>1 DEF AtRisk, HashIs, Hash, HeldInv, SnapshotsFromStore, FromStore
        <4>3. ~HashIs(q, BaselineHash(q))
          BY <3>1, NoneAssumption
          DEF AtRisk, HashIs, Hash, BaselineHash, HeldInv, RowsFromStore, HashesFromStore, TInv, DiskOK, File
        <4> QED
          BY <4>1, <4>2, <4>3 DEF PreserveLocalFiles, MatchingRemoteFiles, RemoteDeleteWinsPaths, Files
      <3>2. \A q \in Paths : AtRisk(q)' => AtRisk(q)
        BY <1>15 DEF Reconcile, AtRisk
      <3> QED
        BY <1>15, <3>1, <3>2 DEF Reconcile, RiskIsPlanned, Reconciling
    <2>3. RiskIsUploaded'
      BY <1>15 DEF Reconcile, BaselineHash, Files, Hash, HashIs, MatchingRemoteFiles, PreserveLocalFiles,
                   RemoteDeleteWinsPaths, StartupConflicts, Unchanged, TInv, RiskInv, RiskIsUploaded, AtRisk,
                   Syncing, CountsOK, SetsOK, Nothing, PhaseInv
    <2>4. OfflineEditsSurvive' /\ RiskIsNews'
      BY <1>15 DEF Reconcile, RiskInv, OfflineEditsSurvive, RiskIsNews, AtRisk, BeingRecorded
    <2> QED
      BY <2>1, <2>2, <2>3, <2>4 DEF RiskInv
  <1>16. ASSUME NEW p \in Paths, RepairRow(p) PROVE RiskInv'
    <2>1. RiskIsNews'
      BY <1>16 DEF RepairRow, Hash, HashIs, RecordRow, RemoteHash, TInv, RiskInv, RiskIsNews, AtRisk,
                   BeingRecorded, BaselineOK, PhaseInv, RiskIsPlanned, Reconciling, SetsOK
    <2>2. RiskIsUploaded'
      BY <1>16 DEF RepairRow, Hash, HashIs, RecordRow, RemoteHash, TInv, RiskInv, RiskIsUploaded, AtRisk,
                   Syncing, SetsOK, PhaseInv
    <2>3. OfflineEditsSurvive' /\ RiskIsOld' /\ RiskIsPlanned'
      BY <1>16 DEF RepairRow, RecordRow, RiskInv, OfflineEditsSurvive, RiskIsOld, RiskIsPlanned, AtRisk,
                   Reconciling
    <2> QED
      BY <2>1, <2>2, <2>3 DEF RiskInv
  <1>17. ASSUME BeginCopies PROVE RiskInv'
    <2>1. RiskIsOld'
      BY <1>17 DEF BeginCopies, TInv, RiskInv, RiskIsOld, AtRisk, CountsOK, PhaseInv
    <2>2. RiskIsPlanned'
      BY <1>17 DEF BeginCopies, TInv, RiskInv, RiskIsPlanned, AtRisk, Reconciling, CountsOK, PhaseInv
    <2>3. RiskIsUploaded'
      BY <1>17 DEF BeginCopies, TInv, RiskInv, RiskIsUploaded, AtRisk, Syncing, CountsOK, SetsOK, PhaseInv
    <2>4. OfflineEditsSurvive' /\ RiskIsNews'
      BY <1>17 DEF BeginCopies, RiskInv, OfflineEditsSurvive, RiskIsNews, AtRisk, BeingRecorded
    <2> QED
      BY <2>1, <2>2, <2>3, <2>4 DEF RiskInv
  <1>18. ASSUME NEW p \in Paths, CopyConflict(p) PROVE RiskInv'
    <2>1. RiskIsUploaded'
      BY <1>18 DEF CopyConflict, TInv, RiskInv, RiskIsUploaded, AtRisk, Syncing, SetsOK, PhaseInv
    <2>2. OfflineEditsSurvive' /\ RiskIsNews' /\ RiskIsOld' /\ RiskIsPlanned'
      BY <1>18 DEF CopyConflict, RiskInv, OfflineEditsSurvive, RiskIsNews, RiskIsOld, RiskIsPlanned, AtRisk,
                   BeingRecorded, Reconciling
    <2> QED
      BY <2>1, <2>2 DEF RiskInv
  <1>19. ASSUME BeginApply PROVE RiskInv'
    <2>1. RiskIsOld'
      BY <1>19 DEF BeginApply, Files, TInv, RiskInv, RiskIsOld, AtRisk, CountsOK, PhaseInv
    <2>2. RiskIsPlanned'
      BY <1>19 DEF BeginApply, Files, TInv, RiskInv, RiskIsPlanned, AtRisk, Reconciling, CountsOK, PhaseInv
    <2>3. RiskIsUploaded'
      BY <1>19 DEF BeginApply, Files, TInv, RiskInv, RiskIsUploaded, AtRisk, Syncing, CountsOK, SetsOK, PhaseInv
    <2>4. OfflineEditsSurvive' /\ RiskIsNews'
      BY <1>19 DEF BeginApply, RiskInv, OfflineEditsSurvive, RiskIsNews, AtRisk, BeingRecorded
    <2> QED
      BY <2>1, <2>2, <2>3, <2>4 DEF RiskInv
  <1>20. ASSUME NEW p \in Paths, SkipAtStartup(p) PROVE RiskInv'
    <2>1. RiskIsUploaded'
      BY <1>20 DEF SkipAtStartup, KeptAtStartup, TInv, RiskInv, RiskIsUploaded, AtRisk, Syncing, SetsOK,
                   PhaseInv
    <2>2. OfflineEditsSurvive' /\ RiskIsNews' /\ RiskIsOld' /\ RiskIsPlanned'
      BY <1>20 DEF SkipAtStartup, RiskInv, OfflineEditsSurvive, RiskIsNews, RiskIsOld, RiskIsPlanned, AtRisk,
                   BeingRecorded, Reconciling
    <2> QED
      BY <2>1, <2>2 DEF RiskInv
  <1>21. ASSUME BeginRemovals PROVE RiskInv'
    <2>1. RiskIsOld'
      BY <1>21 DEF BeginRemovals, Files, TInv, RiskInv, RiskIsOld, AtRisk, CountsOK, PhaseInv
    <2>2. RiskIsPlanned'
      BY <1>21 DEF BeginRemovals, Files, TInv, RiskInv, RiskIsPlanned, AtRisk, Reconciling, CountsOK, PhaseInv
    <2>3. RiskIsUploaded'
      BY <1>21 DEF BeginRemovals, Files, TInv, RiskInv, RiskIsUploaded, AtRisk, Syncing, CountsOK, SetsOK,
                   PhaseInv
    <2>4. OfflineEditsSurvive' /\ RiskIsNews'
      BY <1>21 DEF BeginRemovals, RiskInv, OfflineEditsSurvive, RiskIsNews, AtRisk, BeingRecorded
    <2> QED
      BY <2>1, <2>2, <2>3, <2>4 DEF RiskInv
  <1>22. ASSUME NEW p \in Paths, RemoveWinner(p) PROVE RiskInv'
    <2>1. OfflineEditsSurvive'
      BY <1>22 DEF RemoveWinner, Losing, NoCall, RemoveLocal, TInv, RiskInv, OfflineEditsSurvive, PhaseInv,
                   AtRisk, Reconciling, RiskIsPlanned, RiskIsOld, SetsOK
    <2>2. RiskIsNews'
      BY <1>22 DEF RemoveWinner, Losing, NoCall, RemoveLocal, TInv, RiskInv, RiskIsNews, AtRisk, BeingRecorded,
                   DiskOK, PhaseInv
    <2>3. RiskIsOld'
      BY <1>22 DEF RemoveWinner, Losing, NoCall, RemoveLocal, TInv, RiskInv, RiskIsOld, AtRisk, DiskOK,
                   CountsOK, PhaseInv
    <2>4. RiskIsPlanned'
      BY <1>22 DEF RemoveWinner, Losing, NoCall, RemoveLocal, TInv, RiskInv, RiskIsPlanned, AtRisk, Reconciling,
                   CallOK, DiskOK, CountsOK, PhaseInv
    <2>5. RiskIsUploaded'
      BY <1>22 DEF RemoveWinner, Losing, NoCall, RemoveLocal, TInv, RiskInv, RiskIsUploaded, AtRisk, Syncing,
                   DiskOK, CountsOK, PhaseInv
    <2> QED
      BY <2>1, <2>2, <2>3, <2>4, <2>5 DEF RiskInv
  <1>23. ASSUME PersistStartup PROVE RiskInv'
    <2>1. RiskIsNews'
      BY <1>23 DEF PersistStartup, Persisted, Seeded, StartupBaselineState, TInv, RiskInv, RiskIsNews, AtRisk,
                   BeingRecorded, BaselineOK, PhaseInv, RiskIsPlanned, Reconciling, RiskIsOld
    <2>2. RiskIsOld'
      BY <1>23 DEF PersistStartup, Persisted, Seeded, StartupBaselineState, TInv, RiskInv, RiskIsOld, AtRisk,
                   TreesOK, CountsOK, PhaseInv
    <2>3. RiskIsPlanned'
      BY <1>23 DEF PersistStartup, Persisted, Seeded, StartupBaselineState, TInv, RiskInv, RiskIsPlanned,
                   AtRisk, Reconciling, CountsOK, PhaseInv
    <2>4. RiskIsUploaded'
      BY <1>23 DEF PersistStartup, Persisted, Seeded, StartupBaselineState, TInv, RiskInv, RiskIsUploaded,
                   AtRisk, Syncing, TreesOK, CountsOK, PhaseInv, RiskIsPlanned, Reconciling, RiskIsOld
    <2>5. OfflineEditsSurvive'
      BY <1>23 DEF PersistStartup, RiskInv, OfflineEditsSurvive
    <2> QED
      BY <2>1, <2>2, <2>3, <2>4, <2>5 DEF RiskInv
  <1>24. ASSUME FinishStartupSync PROVE RiskInv'
    <2>1. RiskIsNews'
      BY <1>24 DEF FinishStartupSync, Persisted, TInv, RiskInv, RiskIsNews, AtRisk, BeingRecorded, BaselineOK,
                   Nothing, PhaseInv, RiskIsUploaded, Syncing
    <2>2. RiskIsOld'
      BY <1>24 DEF FinishStartupSync, Persisted, TInv, RiskInv, RiskIsOld, AtRisk, TreesOK, CountsOK, Nothing,
                   PhaseInv
    <2>3. RiskIsPlanned'
      BY <1>24 DEF FinishStartupSync, Persisted, TInv, RiskInv, RiskIsPlanned, AtRisk, Reconciling, CountsOK,
                   Nothing, PhaseInv
    <2>4. RiskIsUploaded'
      BY <1>24 DEF FinishStartupSync, Persisted, TInv, RiskInv, RiskIsUploaded, AtRisk, Syncing, TreesOK,
                   CountsOK, Nothing, PhaseInv
    <2>5. OfflineEditsSurvive'
      BY <1>24 DEF FinishStartupSync, RiskInv, OfflineEditsSurvive
    <2> QED
      BY <2>1, <2>2, <2>3, <2>4, <2>5 DEF RiskInv
  <1>25. ASSUME FinishStartup PROVE RiskInv'
    <2>1. RiskIsOld'
      BY <1>25 DEF FinishStartup, TInv, RiskInv, RiskIsOld, AtRisk, CountsOK, Nothing, PhaseInv, RiskIsUploaded,
                   Syncing
    <2>2. RiskIsPlanned'
      BY <1>25 DEF FinishStartup, TInv, RiskInv, RiskIsPlanned, AtRisk, Reconciling, CountsOK, Nothing, PhaseInv
    <2>3. RiskIsUploaded'
      BY <1>25 DEF FinishStartup, TInv, RiskInv, RiskIsUploaded, AtRisk, Syncing, CountsOK, Nothing, PhaseInv
    <2>4. OfflineEditsSurvive' /\ RiskIsNews'
      BY <1>25 DEF FinishStartup, RiskInv, OfflineEditsSurvive, RiskIsNews, AtRisk, BeingRecorded
    <2> QED
      BY <2>1, <2>2, <2>3, <2>4 DEF RiskInv
  <1>26. ASSUME NEW p \in Paths, Download(p) PROVE RiskInv'
    <2>1. RiskIsOld'
      BY <1>26 DEF Download, Diverged, Hash, HashIs, KeptAtStartup, RemoteHash, Stat, ToDownload, TInv, RiskInv,
                   RiskIsOld, AtRisk, CountsOK, PhaseInv
    <2>2. RiskIsPlanned'
      BY <1>26 DEF Download, Diverged, Hash, HashIs, KeptAtStartup, RemoteHash, Stat, ToDownload, TInv, RiskInv,
                   RiskIsPlanned, AtRisk, Reconciling, CallOK, CountsOK, PhaseInv, RiskIsOld
    <2>3. RiskIsUploaded'
      BY <1>26 DEF Download, Diverged, Hash, HashIs, KeptAtStartup, RemoteHash, Stat, ToDownload, TInv, RiskInv,
                   RiskIsUploaded, AtRisk, Syncing, CountsOK, PhaseInv
    <2>4. OfflineEditsSurvive' /\ RiskIsNews'
      BY <1>26 DEF Download, RiskInv, OfflineEditsSurvive, RiskIsNews, AtRisk, BeingRecorded
    <2> QED
      BY <2>1, <2>2, <2>3, <2>4 DEF RiskInv
  <1>27. ASSUME InstallDownload PROVE RiskInv'
    <2>1. OfflineEditsSurvive'
      BY <1>27, StampIsFresh, NoneAssumption DEF InstallDownload, Losing, Stat, TInv, RiskInv,
                                                 OfflineEditsSurvive, CallOK, PhaseInv, HeldInv, CallFromStore,
                                                 RiskIsPlanned, DiskOK, AtRisk
    <2>2. RiskIsNews'
      BY <1>27, StampIsFresh, NoneAssumption DEF InstallDownload, Losing, Stat, TInv, RiskInv, RiskIsNews,
                                                 AtRisk, BeingRecorded, DiskOK, CallOK, PhaseInv, HeldInv,
                                                 CallFromStore, RiskIsPlanned
    <2>3. RiskIsOld'
      BY <1>27, StampIsFresh, NoneAssumption DEF InstallDownload, Losing, Stat, TInv, RiskInv, RiskIsOld,
                                                 AtRisk, DiskOK, CountsOK, CallOK, PhaseInv, HeldInv,
                                                 CallFromStore, RiskIsPlanned
    <2>4. RiskIsPlanned'
      BY <1>27, StampIsFresh, NoneAssumption DEF InstallDownload, Losing, Stat, TInv, RiskInv, RiskIsPlanned,
                                                 AtRisk, Reconciling, DiskOK, CountsOK, CallOK, PhaseInv,
                                                 HeldInv, CallFromStore
    <2>5. RiskIsUploaded'
      BY <1>27, StampIsFresh, NoneAssumption DEF InstallDownload, Losing, Stat, TInv, RiskInv, RiskIsUploaded,
                                                 AtRisk, Syncing, DiskOK, CountsOK, CallOK, PhaseInv, HeldInv,
                                                 CallFromStore, RiskIsPlanned
    <2> QED
      BY <2>1, <2>2, <2>3, <2>4, <2>5 DEF RiskInv
  <1>28. ASSUME Record PROVE RiskInv'
    <2>1. RiskIsNews'
      BY <1>28 DEF Record, Adopt, Hash, HashIs, NoCall, RecordRow, Stat, TInv, RiskInv, RiskIsNews, AtRisk,
                   BeingRecorded, BaselineOK, CallOK, PhaseInv, RiskIsPlanned
    <2>2. RiskIsOld'
      BY <1>28 DEF Record, Adopt, Hash, HashIs, NoCall, RecordRow, Stat, TInv, RiskInv, RiskIsOld, AtRisk,
                   TreesOK, CountsOK, CallOK, PhaseInv, RiskIsPlanned
    <2>3. RiskIsPlanned'
      BY <1>28 DEF Record, Adopt, Hash, HashIs, NoCall, RecordRow, Stat, TInv, RiskInv, RiskIsPlanned, AtRisk,
                   Reconciling, CallOK, CountsOK, PhaseInv
    <2>4. RiskIsUploaded'
      BY <1>28 DEF Record, Adopt, Hash, HashIs, NoCall, RecordRow, Stat, TInv, RiskInv, RiskIsUploaded, AtRisk,
                   Syncing, TreesOK, CountsOK, SetsOK, CallOK, PhaseInv
    <2>5. OfflineEditsSurvive'
      BY <1>28 DEF Record, Adopt, RecordRow, RiskInv, OfflineEditsSurvive
    <2> QED
      BY <2>1, <2>2, <2>3, <2>4, <2>5 DEF RiskInv
  <1>29. ASSUME ScanLocal PROVE RiskInv'
    <2>1. RiskIsOld'
      BY <1>29 DEF ScanLocal, Scan, Seeded, Stat, TInv, RiskInv, RiskIsOld, AtRisk, TreesOK, CountsOK, PhaseInv
    <2>2. RiskIsPlanned'
      BY <1>29 DEF ScanLocal, Scan, Seeded, Stat, TInv, RiskInv, RiskIsPlanned, AtRisk, Reconciling, CountsOK,
                   PhaseInv
    <2>3. RiskIsUploaded'
      BY <1>29, NoneAssumption DEF ScanLocal, Scan, Seeded, Stat, TInv, RiskInv, RiskIsUploaded, AtRisk,
                                   Syncing, TreesOK, CountsOK, SetsOK, PhaseInv, RiskIsOld, DiskOK, File
    <2>4. OfflineEditsSurvive' /\ RiskIsNews'
      BY <1>29 DEF ScanLocal, RiskInv, OfflineEditsSurvive, RiskIsNews, AtRisk, BeingRecorded
    <2> QED
      BY <2>1, <2>2, <2>3, <2>4 DEF RiskInv
  <1>30. ASSUME NEW p \in Paths, SkipUpload(p) PROVE RiskInv'
    <2>1. RiskIsOld'
      BY <1>30 DEF SkipUpload, Suppressed, TInv, RiskInv, RiskIsOld, AtRisk, TreesOK, PhaseInv
    <2>2. RiskIsUploaded'
      BY <1>30 DEF SkipUpload, Suppressed, TInv, RiskInv, RiskIsUploaded, AtRisk, Syncing, SetsOK, PhaseInv,
                   RiskIsOld
    <2>3. OfflineEditsSurvive' /\ RiskIsNews' /\ RiskIsPlanned'
      BY <1>30 DEF SkipUpload, RiskInv, OfflineEditsSurvive, RiskIsNews, RiskIsPlanned, AtRisk, BeingRecorded,
                   Reconciling
    <2> QED
      BY <2>1, <2>2, <2>3 DEF RiskInv
  <1>31. ASSUME NEW p \in Paths, Upload(p) PROVE RiskInv'
    <2>1. RiskIsNews'
      BY <1>31, VersionIsFresh DEF Upload, Hash, Suppressed, TInv, RiskInv, RiskIsNews, AtRisk, BeingRecorded,
                                   PhaseInv
    <2>2. RiskIsOld'
      BY <1>31, VersionIsFresh DEF Upload, Hash, Suppressed, TInv, RiskInv, RiskIsOld, AtRisk, CountsOK,
                                   PhaseInv
    <2>3. RiskIsPlanned'
      BY <1>31, VersionIsFresh DEF Upload, Hash, Suppressed, TInv, RiskInv, RiskIsPlanned, AtRisk, Reconciling,
                                   CallOK, CountsOK, PhaseInv
    <2>4. RiskIsUploaded'
      BY <1>31, VersionIsFresh DEF Upload, Hash, Suppressed, TInv, RiskInv, RiskIsUploaded, AtRisk, Syncing,
                                   CountsOK, PhaseInv
    <2>5. OfflineEditsSurvive'
      BY <1>31 DEF Upload, RiskInv, OfflineEditsSurvive
    <2> QED
      BY <2>1, <2>2, <2>3, <2>4, <2>5 DEF RiskInv
  <1>32. ASSUME RecordUpload PROVE RiskInv'
    <2>1. RiskIsNews'
      BY <1>32 DEF RecordUpload, Hash, HashIs, NoCall, RecordRow, TInv, RiskInv, RiskIsNews, AtRisk,
                   BeingRecorded, BaselineOK, CallOK, PhaseInv, RiskIsPlanned
    <2>2. RiskIsOld'
      BY <1>32 DEF RecordUpload, Hash, HashIs, NoCall, RecordRow, TInv, RiskInv, RiskIsOld, AtRisk, CountsOK,
                   CallOK, PhaseInv
    <2>3. RiskIsPlanned'
      BY <1>32 DEF RecordUpload, Hash, HashIs, NoCall, RecordRow, TInv, RiskInv, RiskIsPlanned, AtRisk,
                   Reconciling, CallOK, CountsOK, PhaseInv
    <2>4. RiskIsUploaded'
      BY <1>32 DEF RecordUpload, Hash, HashIs, NoCall, RecordRow, TInv, RiskInv, RiskIsUploaded, AtRisk,
                   Syncing, CountsOK, SetsOK, CallOK, PhaseInv, RiskIsPlanned
    <2>5. OfflineEditsSurvive'
      BY <1>32 DEF RecordUpload, RecordRow, RiskInv, OfflineEditsSurvive
    <2> QED
      BY <2>1, <2>2, <2>3, <2>4, <2>5 DEF RiskInv
  <1>33. ASSUME NEW p \in Paths, DeleteRemote(p) PROVE RiskInv'
    <2>1. RiskIsOld'
      BY <1>33 DEF DeleteRemote, KnownRemote, NoCall, TInv, RiskInv, RiskIsOld, AtRisk, CountsOK, PhaseInv
    <2>2. RiskIsPlanned'
      BY <1>33 DEF DeleteRemote, KnownRemote, NoCall, TInv, RiskInv, RiskIsPlanned, AtRisk, Reconciling, CallOK,
                   CountsOK, PhaseInv, RiskIsUploaded, Syncing
    <2>3. RiskIsUploaded'
      BY <1>33 DEF DeleteRemote, KnownRemote, NoCall, TInv, RiskInv, RiskIsUploaded, AtRisk, Syncing, CountsOK,
                   PhaseInv
    <2>4. OfflineEditsSurvive' /\ RiskIsNews'
      BY <1>33 DEF DeleteRemote, RiskInv, OfflineEditsSurvive, RiskIsNews, AtRisk, BeingRecorded
    <2> QED
      BY <2>1, <2>2, <2>3, <2>4 DEF RiskInv
  <1>34. ASSUME ForgetRemote PROVE RiskInv'
    <2>1. RiskIsNews'
      BY <1>34 DEF ForgetRemote, NoCall, RemoveRow, TInv, RiskInv, RiskIsNews, AtRisk, BeingRecorded,
                   BaselineOK, CallOK, PhaseInv
    <2>2. RiskIsOld'
      BY <1>34 DEF ForgetRemote, NoCall, RemoveRow, TInv, RiskInv, RiskIsOld, AtRisk, CountsOK, TreesOK, CallOK,
                   PhaseInv
    <2>3. RiskIsPlanned'
      BY <1>34 DEF ForgetRemote, NoCall, RemoveRow, TInv, RiskInv, RiskIsPlanned, AtRisk, Reconciling, CallOK,
                   CountsOK, PhaseInv
    <2>4. RiskIsUploaded'
      BY <1>34 DEF ForgetRemote, NoCall, RemoveRow, TInv, RiskInv, RiskIsUploaded, AtRisk, Syncing, CountsOK,
                   SetsOK, CallOK, PhaseInv
    <2>5. OfflineEditsSurvive'
      BY <1>34 DEF ForgetRemote, RemoveRow, RiskInv, OfflineEditsSurvive
    <2> QED
      BY <2>1, <2>2, <2>3, <2>4, <2>5 DEF RiskInv
  <1>35. ASSUME NEW p \in Paths, SkipDelete(p) PROVE RiskInv'
    <2>1. RiskIsUploaded'
      BY <1>35 DEF SkipDelete, KnownRemote, TInv, RiskInv, RiskIsUploaded, AtRisk, Syncing, SetsOK, PhaseInv
    <2>2. OfflineEditsSurvive' /\ RiskIsNews' /\ RiskIsOld' /\ RiskIsPlanned'
      BY <1>35 DEF SkipDelete, RiskInv, OfflineEditsSurvive, RiskIsNews, RiskIsOld, RiskIsPlanned, AtRisk,
                   BeingRecorded, Reconciling
    <2> QED
      BY <2>1, <2>2 DEF RiskInv
  <1>36. ASSUME FinishScan PROVE RiskInv'
    <2>1. RiskIsNews'
      BY <1>36 DEF FinishScan, Persisted, TInv, RiskInv, RiskIsNews, AtRisk, BeingRecorded, BaselineOK, Nothing,
                   PhaseInv, RiskIsOld
    <2>2. RiskIsOld'
      BY <1>36 DEF FinishScan, Persisted, TInv, RiskInv, RiskIsOld, AtRisk, TreesOK, CountsOK, Nothing, PhaseInv
    <2>3. RiskIsPlanned'
      BY <1>36 DEF FinishScan, Persisted, TInv, RiskInv, RiskIsPlanned, AtRisk, Reconciling, CountsOK, Nothing,
                   PhaseInv
    <2>4. RiskIsUploaded'
      BY <1>36 DEF FinishScan, Persisted, TInv, RiskInv, RiskIsUploaded, AtRisk, Syncing, TreesOK, CountsOK,
                   Nothing, PhaseInv
    <2>5. OfflineEditsSurvive'
      BY <1>36 DEF FinishScan, RiskInv, OfflineEditsSurvive
    <2> QED
      BY <2>1, <2>2, <2>3, <2>4, <2>5 DEF RiskInv
  <1>37. ASSUME TakeUpdate PROVE RiskInv'
    <2>1. RiskIsOld'
      BY <1>37 DEF TakeUpdate, TInv, RiskInv, RiskIsOld, AtRisk, CountsOK, PhaseInv
    <2>2. RiskIsPlanned'
      BY <1>37 DEF TakeUpdate, TInv, RiskInv, RiskIsPlanned, AtRisk, Reconciling, CountsOK, PhaseInv
    <2>3. RiskIsUploaded'
      BY <1>37 DEF TakeUpdate, TInv, RiskInv, RiskIsUploaded, AtRisk, Syncing, CountsOK, SetsOK, PhaseInv
    <2>4. OfflineEditsSurvive' /\ RiskIsNews'
      BY <1>37 DEF TakeUpdate, RiskInv, OfflineEditsSurvive, RiskIsNews, AtRisk, BeingRecorded
    <2> QED
      BY <2>1, <2>2, <2>3, <2>4 DEF RiskInv
  <1>38. ASSUME NEW p \in Paths, SkipDiverged(p) PROVE RiskInv'
    <2>1. RiskIsUploaded'
      BY <1>38 DEF SkipDiverged, Diverged, Stat, TInv, RiskInv, RiskIsUploaded, AtRisk, Syncing, SetsOK,
                   PhaseInv
    <2>2. OfflineEditsSurvive' /\ RiskIsNews' /\ RiskIsOld' /\ RiskIsPlanned'
      BY <1>38 DEF SkipDiverged, RiskInv, OfflineEditsSurvive, RiskIsNews, RiskIsOld, RiskIsPlanned, AtRisk,
                   BeingRecorded, Reconciling
    <2> QED
      BY <2>1, <2>2 DEF RiskInv
  <1>39. ASSUME NEW p \in Paths, AdoptMatching(p) PROVE RiskInv'
    <2>1. RiskIsNews'
      BY <1>39 DEF AdoptMatching, Adopt, Diverged, Hash, HashIs, RecordRow, RemoteHash, Stat, TInv, RiskInv,
                   RiskIsNews, AtRisk, BeingRecorded, BaselineOK, PhaseInv, RiskIsOld
    <2>2. RiskIsOld'
      BY <1>39 DEF AdoptMatching, Adopt, Diverged, Hash, HashIs, RecordRow, RemoteHash, Stat, TInv, RiskInv,
                   RiskIsOld, AtRisk, TreesOK, PhaseInv
    <2>3. RiskIsUploaded'
      BY <1>39 DEF AdoptMatching, Adopt, Diverged, Hash, HashIs, RecordRow, RemoteHash, Stat, TInv, RiskInv,
                   RiskIsUploaded, AtRisk, Syncing, TreesOK, SetsOK, PhaseInv
    <2>4. OfflineEditsSurvive' /\ RiskIsPlanned'
      BY <1>39 DEF AdoptMatching, Adopt, RecordRow, RiskInv, OfflineEditsSurvive, RiskIsPlanned, AtRisk,
                   Reconciling
    <2> QED
      BY <2>1, <2>2, <2>3, <2>4 DEF RiskInv
  <1>40. ASSUME NEW p \in Paths, SkipStaleDelete(p) PROVE RiskInv'
    <2>1. RiskIsUploaded'
      BY <1>40 DEF SkipStaleDelete, StaleDelete, TInv, RiskInv, RiskIsUploaded, AtRisk, Syncing, SetsOK,
                   PhaseInv
    <2>2. OfflineEditsSurvive' /\ RiskIsNews' /\ RiskIsOld' /\ RiskIsPlanned'
      BY <1>40 DEF SkipStaleDelete, RiskInv, OfflineEditsSurvive, RiskIsNews, RiskIsOld, RiskIsPlanned, AtRisk,
                   BeingRecorded, Reconciling
    <2> QED
      BY <2>1, <2>2 DEF RiskInv
  <1>41. ASSUME NEW p \in Paths, ApplyDelete(p) PROVE RiskInv'
    <2>1. OfflineEditsSurvive'
      BY <1>41 DEF ApplyDelete, Losing, NoCall, RemoveLocal, StaleDelete, TInv, RiskInv, OfflineEditsSurvive,
                   PhaseInv, AtRisk, Reconciling, RiskIsPlanned, RiskIsOld, SetsOK
    <2>2. RiskIsNews'
      BY <1>41 DEF ApplyDelete, Losing, NoCall, RemoveLocal, StaleDelete, TInv, RiskInv, RiskIsNews, AtRisk,
                   BeingRecorded, DiskOK, PhaseInv
    <2>3. RiskIsOld'
      BY <1>41 DEF ApplyDelete, Losing, NoCall, RemoveLocal, StaleDelete, TInv, RiskInv, RiskIsOld, AtRisk,
                   DiskOK, CountsOK, PhaseInv
    <2>4. RiskIsPlanned'
      BY <1>41 DEF ApplyDelete, Losing, NoCall, RemoveLocal, StaleDelete, TInv, RiskInv, RiskIsPlanned, AtRisk,
                   Reconciling, CallOK, DiskOK, CountsOK, PhaseInv
    <2>5. RiskIsUploaded'
      BY <1>41 DEF ApplyDelete, Losing, NoCall, RemoveLocal, StaleDelete, TInv, RiskInv, RiskIsUploaded, AtRisk,
                   Syncing, DiskOK, CountsOK, PhaseInv
    <2> QED
      BY <2>1, <2>2, <2>3, <2>4, <2>5 DEF RiskInv
  <1>42. ASSUME ForgetLocal PROVE RiskInv'
    <2>1. RiskIsNews'
      BY <1>42 DEF ForgetLocal, NoCall, RemoveRow, TInv, RiskInv, RiskIsNews, AtRisk, BeingRecorded, BaselineOK,
                   CallOK, PhaseInv
    <2>2. RiskIsOld'
      BY <1>42 DEF ForgetLocal, NoCall, RemoveRow, TInv, RiskInv, RiskIsOld, AtRisk, TreesOK, CountsOK, CallOK,
                   PhaseInv
    <2>3. RiskIsPlanned'
      BY <1>42 DEF ForgetLocal, NoCall, RemoveRow, TInv, RiskInv, RiskIsPlanned, AtRisk, Reconciling, CallOK,
                   CountsOK, PhaseInv
    <2>4. RiskIsUploaded'
      BY <1>42 DEF ForgetLocal, NoCall, RemoveRow, TInv, RiskInv, RiskIsUploaded, AtRisk, Syncing, TreesOK,
                   CountsOK, SetsOK, CallOK, PhaseInv
    <2>5. OfflineEditsSurvive'
      BY <1>42 DEF ForgetLocal, RemoveRow, RiskInv, OfflineEditsSurvive
    <2> QED
      BY <2>1, <2>2, <2>3, <2>4, <2>5 DEF RiskInv
  <1>43. ASSUME FinishUpdate PROVE RiskInv'
    <2>1. RiskIsOld'
      BY <1>43 DEF FinishUpdate, Files, TInv, RiskInv, RiskIsOld, AtRisk, CountsOK, Nothing, PhaseInv
    <2>2. RiskIsPlanned'
      BY <1>43 DEF FinishUpdate, Files, TInv, RiskInv, RiskIsPlanned, AtRisk, Reconciling, CountsOK, Nothing,
                   PhaseInv
    <2>3. RiskIsUploaded'
      BY <1>43 DEF FinishUpdate, Files, TInv, RiskInv, RiskIsUploaded, AtRisk, Syncing, CountsOK, Nothing,
                   PhaseInv
    <2>4. OfflineEditsSurvive' /\ RiskIsNews'
      BY <1>43 DEF FinishUpdate, RiskInv, OfflineEditsSurvive, RiskIsNews, AtRisk, BeingRecorded
    <2> QED
      BY <2>1, <2>2, <2>3, <2>4 DEF RiskInv
  <1>44. ASSUME PersistUpdates PROVE RiskInv'
    <2>1. RiskIsNews'
      BY <1>44 DEF PersistUpdates, Persisted, Seeded, TInv, RiskInv, RiskIsNews, AtRisk, BeingRecorded,
                   BaselineOK, PhaseInv, RiskIsOld
    <2>2. RiskIsOld'
      BY <1>44 DEF PersistUpdates, Persisted, Seeded, TInv, RiskInv, RiskIsOld, AtRisk, TreesOK, CountsOK,
                   PhaseInv
    <2>3. RiskIsPlanned'
      BY <1>44 DEF PersistUpdates, Persisted, Seeded, TInv, RiskInv, RiskIsPlanned, AtRisk, Reconciling,
                   CountsOK, PhaseInv
    <2>4. RiskIsUploaded'
      BY <1>44 DEF PersistUpdates, Persisted, Seeded, TInv, RiskInv, RiskIsUploaded, AtRisk, Syncing, TreesOK,
                   CountsOK, PhaseInv
    <2>5. OfflineEditsSurvive'
      BY <1>44 DEF PersistUpdates, RiskInv, OfflineEditsSurvive
    <2> QED
      BY <2>1, <2>2, <2>3, <2>4, <2>5 DEF RiskInv
  <1>45. ASSUME Ends PROVE RiskInv'
    <2>1. RiskIsOld'
      BY <1>45 DEF Ends, Down, NoCall, TInv, RiskInv, RiskIsOld, AtRisk, LoadedOK, TreesOK, CountsOK, Nothing,
                   PhaseInv
    <2>2. RiskIsPlanned'
      BY <1>45 DEF Ends, Down, NoCall, TInv, RiskInv, RiskIsPlanned, AtRisk, Reconciling, CallOK, CountsOK,
                   Nothing, PhaseInv
    <2>3. RiskIsUploaded'
      BY <1>45 DEF Ends, Down, NoCall, TInv, RiskInv, RiskIsUploaded, AtRisk, Syncing, TreesOK, CountsOK,
                   SetsOK, Nothing, PhaseInv
    <2>4. OfflineEditsSurvive' /\ RiskIsNews'
      BY <1>45 DEF Ends, Down, RiskInv, OfflineEditsSurvive, RiskIsNews, AtRisk, BeingRecorded
    <2> QED
      BY <2>1, <2>2, <2>3, <2>4 DEF RiskInv
  <1>46. ASSUME \/ Poll
               \/ \E p \in Paths : KeepLocal(p) \/ RemoteDelete(p)
       PROVE  RiskInv'
    BY <1>46 DEF KeepLocal, ClearConflict, Move, RemoteDelete, Poll, RiskInv, OfflineEditsSurvive, RiskIsNews,
                 RiskIsOld, RiskIsPlanned, RiskIsUploaded, AtRisk, BeingRecorded, Reconciling, Syncing
  <1>47. CASE UNCHANGED folderVars
    BY <1>47 DEF folderVars, RiskInv, OfflineEditsSurvive, RiskIsNews, RiskIsOld, RiskIsPlanned, RiskIsUploaded,
                 AtRisk, BeingRecorded, Reconciling, Syncing
  <1> QED
    BY <1>1, <1>2, <1>3, <1>4, <1>5, <1>6, <1>7, <1>8, <1>9, <1>10, <1>11, <1>12, <1>13, <1>14, <1>15, <1>16,
       <1>17, <1>18, <1>19, <1>20, <1>21, <1>22, <1>23, <1>24, <1>25, <1>26, <1>27, <1>28, <1>29, <1>30, <1>31,
       <1>32, <1>33, <1>34, <1>35, <1>36, <1>37, <1>38, <1>39, <1>40, <1>41, <1>42, <1>43, <1>44, <1>45, <1>46,
       <1>47
    DEF FolderNext, UserStep, OthersStep, ResolverStep, StartupStep, DownloadStep, SyncStep, UpdateStep,
        DownloadFails, UploadFails, Stop, Ends

\* Nothing is on disk at first.
LEMMA RisksStart == FolderInit => RiskInv
  BY DEF FolderInit, RiskInv, OfflineEditsSurvive, RiskIsNews, RiskIsOld, RiskIsPlanned, RiskIsUploaded,
         AtRisk, Nothing

\* PreserveLocalFiles, StartupConflicts and the upload of what the first scan finds:
\* for any files, edits, updates of other clients, resolutions, stops between any two
\* calls, and lost rows or hashes, the agent never takes bytes off the disk that the
\* user wrote while it was down before the store has them, unless they were written
\* between the upload and the record of a resolution.
THEOREM OfflineEditsAreSafe == FolderSpec => []OfflineEditsSurvive
  <1>1. RiskInv => OfflineEditsSurvive
    BY DEF RiskInv
  <1> QED
    BY <1>1, TypesStart, TypesKept, BytesStart, BytesKept, RisksStart, RisksKept, PTL DEF FolderSpec

-------------------------------------------------------------------------------
(***************************************************************************)
(* Deletes                                                                 *)
(***************************************************************************)

\* The agent does not remember a file that it has removed itself.
RemovedIsForgottenHere ==
    \A q \in Paths : remover[q] = "agent" /\ disk[q] = None /\ ~(pc = "removed" /\ call.path = q) =>
        /\ local_state[q] = None /\ suppressed_uploads[q] = None
        /\ Syncing => current[q] = None

\* What a scan misses was removed by somebody else.
MissedIsNotTheAgents ==
    \A q \in Paths : Syncing /\ q \in todo /\ current[q] = None => remover[q] # "agent"

RemovalInv == RemovedIsForgottenHere /\ MissedIsNotTheAgents

\* Whoever removes a file says so, and the agent forgets the file after it.
LEMMA RemovalsKept ==
    ASSUME TInv, RemovalInv, [FolderNext]_folderVars
    PROVE  RemovalInv'
  <1> USE DEF fileVars, storeVars, rowVars, copyVars, treeVars, planVars, threadVars, pollVars, counterVars, agentVars
  <1>1. ASSUME NEW p \in Paths, Write(p) PROVE RemovalInv'
    <2>1. RemovedIsForgottenHere'
      <3>1. disk'[p] # None
        BY <1>1, SomeFile, StampIsFresh, BoundsAssumption DEF Write, TInv, DiskOK, Move, CountsOK, Contents
      <3> QED
        BY <1>1, <3>1 DEF Write, Move, TInv, DiskOK, CountsOK, RemovalInv, RemovedIsForgottenHere, Syncing
    <2>2. MissedIsNotTheAgents'
      BY <1>1 DEF Write, Move, RemovalInv, MissedIsNotTheAgents, Syncing
    <2> QED
      BY <2>1, <2>2 DEF RemovalInv
  <1>2. ASSUME NEW p \in Paths, Touch(p) PROVE RemovalInv'
    <2>1. RemovedIsForgottenHere'
      <3>1. disk'[p] # None
        BY <1>2, SomeFile, StampIsFresh, NoneAssumption DEF Touch, TInv, DiskOK, File
      <3> QED
        BY <1>2, <3>1 DEF Touch, Move, TInv, DiskOK, CountsOK, RemovalInv, RemovedIsForgottenHere, Syncing
    <2>2. MissedIsNotTheAgents'
      BY <1>2 DEF Touch, Move, RemovalInv, MissedIsNotTheAgents, Syncing
    <2> QED
      BY <2>1, <2>2 DEF RemovalInv
  <1>3. ASSUME NEW p \in Paths, Delete(p) PROVE RemovalInv'
    <2>1. RemovedIsForgottenHere'
      BY <1>3 DEF Delete, Move, TInv, RemovalInv, RemovedIsForgottenHere, Syncing, DiskOK, CountsOK, PhaseInv
    <2>2. MissedIsNotTheAgents'
      BY <1>3 DEF Delete, Move, TInv, RemovalInv, MissedIsNotTheAgents, Syncing, CountsOK, PhaseInv
    <2> QED
      BY <2>1, <2>2 DEF RemovalInv
  <1>4. ASSUME NEW p \in Paths, KeepRemote(p) PROVE RemovalInv'
    <2>1. RemovedIsForgottenHere'
      BY <1>4 DEF KeepRemote, Move, NoResolution, TInv, RemovalInv, RemovedIsForgottenHere, Syncing, DiskOK,
                  CountsOK, PhaseInv
    <2>2. MissedIsNotTheAgents'
      BY <1>4 DEF KeepRemote, Move, NoResolution, TInv, RemovalInv, MissedIsNotTheAgents, Syncing, CountsOK,
                  PhaseInv
    <2> QED
      BY <2>1, <2>2 DEF RemovalInv
  <1>5. ASSUME ApplyRemoteCopy PROVE RemovalInv'
    <2>0. /\ resolver = [path |-> resolver.path, step |-> resolver.step, content |-> resolver.content]
          /\ resolver.path \in Paths /\ resolver.content \in Contents
      BY <1>5, ResolverAtWork DEF ApplyRemoteCopy, Resolve, Steps
    <2>1. RemovedIsForgottenHere'
      <3>1. disk'[resolver.path] # None
        BY <1>5, SomeFile, <2>0, StampIsFresh DEF ApplyRemoteCopy, TInv, DiskOK
      <3> QED
        BY <1>5, <2>0, <3>1 DEF ApplyRemoteCopy, Resolve, TInv, DiskOK, CountsOK, RemovalInv, RemovedIsForgottenHere, Syncing
    <2>2. MissedIsNotTheAgents'
      BY <1>5 DEF ApplyRemoteCopy, Resolve, RemovalInv, MissedIsNotTheAgents, Syncing
    <2> QED
      BY <2>1, <2>2 DEF RemovalInv
  <1>6. ASSUME RemoveResolved PROVE RemovalInv'
    <2>0. /\ resolver = [path |-> resolver.path, step |-> resolver.step, content |-> resolver.content]
          /\ resolver.path \in Paths
      BY <1>6, ResolverAtWork DEF RemoveResolved, Resolve, Steps
    <2>1. RemovedIsForgottenHere'
      BY <1>6, <2>0 DEF RemoveResolved, Resolve, TInv, RemovalInv, RemovedIsForgottenHere, Syncing, DiskOK,
                        CountsOK, PhaseInv
    <2>2. MissedIsNotTheAgents'
      BY <1>6, <2>0 DEF RemoveResolved, Resolve, TInv, RemovalInv, MissedIsNotTheAgents, Syncing, CountsOK,
                        PhaseInv
    <2> QED
      BY <2>1, <2>2 DEF RemovalInv
  <1>7. ASSUME Start PROVE RemovalInv'
    <2>1. RemovedIsForgottenHere'
      BY <1>7 DEF Start, Scan, Stat, TInv, RemovalInv, RemovedIsForgottenHere, Syncing, TreesOK, CountsOK,
                  Nothing, PhaseInv
    <2>2. MissedIsNotTheAgents'
      BY <1>7 DEF Start, Scan, Stat, TInv, RemovalInv, MissedIsNotTheAgents, Syncing, CountsOK, Nothing,
                  PhaseInv
    <2> QED
      BY <2>1, <2>2 DEF RemovalInv
  <1>8. ASSUME Reconcile PROVE RemovalInv'
    <2>1. RemovedIsForgottenHere'
      BY <1>8 DEF Reconcile, BaselineHash, Files, Hash, HashIs, MatchingRemoteFiles, PreserveLocalFiles,
                  RemoteDeleteWinsPaths, StartupConflicts, Unchanged, TInv, RemovalInv, RemovedIsForgottenHere,
                  Syncing, CountsOK, Nothing, PhaseInv
    <2>2. MissedIsNotTheAgents'
      BY <1>8 DEF Reconcile, BaselineHash, Files, Hash, HashIs, MatchingRemoteFiles, PreserveLocalFiles,
                  RemoteDeleteWinsPaths, StartupConflicts, Unchanged, TInv, RemovalInv, MissedIsNotTheAgents,
                  Syncing, CountsOK, SetsOK, Nothing, PhaseInv
    <2> QED
      BY <2>1, <2>2 DEF RemovalInv
  <1>9. ASSUME NEW p \in Paths, RepairRow(p) PROVE RemovalInv'
    <2>1. MissedIsNotTheAgents'
      BY <1>9 DEF RepairRow, Hash, HashIs, RecordRow, RemoteHash, TInv, RemovalInv, MissedIsNotTheAgents,
                  Syncing, SetsOK, PhaseInv
    <2>2. RemovedIsForgottenHere'
      BY <1>9 DEF RepairRow, RecordRow, RemovalInv, RemovedIsForgottenHere, Syncing
    <2> QED
      BY <2>1, <2>2 DEF RemovalInv
  <1>10. ASSUME BeginCopies PROVE RemovalInv'
    <2>1. RemovedIsForgottenHere'
      BY <1>10 DEF BeginCopies, TInv, RemovalInv, RemovedIsForgottenHere, Syncing, CountsOK, PhaseInv
    <2>2. MissedIsNotTheAgents'
      BY <1>10 DEF BeginCopies, TInv, RemovalInv, MissedIsNotTheAgents, Syncing, CountsOK, SetsOK, PhaseInv
    <2> QED
      BY <2>1, <2>2 DEF RemovalInv
  <1>11. ASSUME NEW p \in Paths, CopyConflict(p) PROVE RemovalInv'
    <2>1. MissedIsNotTheAgents'
      BY <1>11 DEF CopyConflict, TInv, RemovalInv, MissedIsNotTheAgents, Syncing, SetsOK, PhaseInv
    <2>2. RemovedIsForgottenHere'
      BY <1>11 DEF CopyConflict, RemovalInv, RemovedIsForgottenHere, Syncing
    <2> QED
      BY <2>1, <2>2 DEF RemovalInv
  <1>12. ASSUME BeginApply PROVE RemovalInv'
    <2>1. RemovedIsForgottenHere'
      BY <1>12 DEF BeginApply, Files, TInv, RemovalInv, RemovedIsForgottenHere, Syncing, CountsOK, PhaseInv
    <2>2. MissedIsNotTheAgents'
      BY <1>12 DEF BeginApply, Files, TInv, RemovalInv, MissedIsNotTheAgents, Syncing, CountsOK, SetsOK,
                   PhaseInv
    <2> QED
      BY <2>1, <2>2 DEF RemovalInv
  <1>13. ASSUME NEW p \in Paths, SkipAtStartup(p) PROVE RemovalInv'
    <2>1. MissedIsNotTheAgents'
      BY <1>13 DEF SkipAtStartup, KeptAtStartup, TInv, RemovalInv, MissedIsNotTheAgents, Syncing, SetsOK,
                   PhaseInv
    <2>2. RemovedIsForgottenHere'
      BY <1>13 DEF SkipAtStartup, RemovalInv, RemovedIsForgottenHere, Syncing
    <2> QED
      BY <2>1, <2>2 DEF RemovalInv
  <1>14. ASSUME BeginRemovals PROVE RemovalInv'
    <2>1. RemovedIsForgottenHere'
      BY <1>14 DEF BeginRemovals, Files, TInv, RemovalInv, RemovedIsForgottenHere, Syncing, CountsOK, PhaseInv
    <2>2. MissedIsNotTheAgents'
      BY <1>14 DEF BeginRemovals, Files, TInv, RemovalInv, MissedIsNotTheAgents, Syncing, CountsOK, SetsOK,
                   PhaseInv
    <2> QED
      BY <2>1, <2>2 DEF RemovalInv
  <1>15. ASSUME NEW p \in Paths, RemoveWinner(p) PROVE RemovalInv'
    <2>1. RemovedIsForgottenHere'
      BY <1>15 DEF RemoveWinner, Losing, NoCall, RemoveLocal, TInv, RemovalInv, RemovedIsForgottenHere, Syncing,
                   CallOK, DiskOK, CountsOK, PhaseInv
    <2>2. MissedIsNotTheAgents'
      BY <1>15 DEF RemoveWinner, Losing, NoCall, RemoveLocal, TInv, RemovalInv, MissedIsNotTheAgents, Syncing,
                   CountsOK, PhaseInv
    <2> QED
      BY <2>1, <2>2 DEF RemovalInv
  <1>16. ASSUME PersistStartup PROVE RemovalInv'
    <2>1. RemovedIsForgottenHere'
      BY <1>16 DEF PersistStartup, Persisted, Seeded, StartupBaselineState, TInv, RemovalInv,
                   RemovedIsForgottenHere, Syncing, TreesOK, CountsOK, PhaseInv
    <2>2. MissedIsNotTheAgents'
      BY <1>16 DEF PersistStartup, Persisted, Seeded, StartupBaselineState, TInv, RemovalInv,
                   MissedIsNotTheAgents, Syncing, CountsOK, PhaseInv
    <2> QED
      BY <2>1, <2>2 DEF RemovalInv
  <1>17. ASSUME FinishStartupSync PROVE RemovalInv'
    <2>1. RemovedIsForgottenHere'
      BY <1>17 DEF FinishStartupSync, Persisted, TInv, RemovalInv, RemovedIsForgottenHere, Syncing, TreesOK,
                   CountsOK, Nothing, PhaseInv
    <2>2. MissedIsNotTheAgents'
      BY <1>17 DEF FinishStartupSync, Persisted, TInv, RemovalInv, MissedIsNotTheAgents, Syncing, TreesOK,
                   CountsOK, Nothing, PhaseInv
    <2> QED
      BY <2>1, <2>2 DEF RemovalInv
  <1>18. ASSUME FinishStartup PROVE RemovalInv'
    <2>1. RemovedIsForgottenHere'
      BY <1>18 DEF FinishStartup, TInv, RemovalInv, RemovedIsForgottenHere, Syncing, CountsOK, Nothing, PhaseInv
    <2>2. MissedIsNotTheAgents'
      BY <1>18 DEF FinishStartup, TInv, RemovalInv, MissedIsNotTheAgents, Syncing, CountsOK, Nothing, PhaseInv
    <2> QED
      BY <2>1, <2>2 DEF RemovalInv
  <1>19. ASSUME NEW p \in Paths, Download(p) PROVE RemovalInv'
    <2>1. RemovedIsForgottenHere'
      BY <1>19 DEF Download, Diverged, Hash, HashIs, KeptAtStartup, RemoteHash, Stat, ToDownload, TInv,
                   RemovalInv, RemovedIsForgottenHere, Syncing, CallOK, CountsOK, PhaseInv
    <2>2. MissedIsNotTheAgents'
      BY <1>19 DEF Download, Diverged, Hash, HashIs, KeptAtStartup, RemoteHash, Stat, ToDownload, TInv,
                   RemovalInv, MissedIsNotTheAgents, Syncing, CountsOK, PhaseInv
    <2> QED
      BY <2>1, <2>2 DEF RemovalInv
  <1>20. ASSUME InstallDownload PROVE RemovalInv'
    <2>1. RemovedIsForgottenHere'
      <3>1. disk'[call.path] # None
        BY <1>20, SomeFile, StampIsFresh DEF InstallDownload, TInv, DiskOK, CallOK
      <3> QED
        BY <1>20, <3>1 DEF InstallDownload, TInv, CallOK, DiskOK, CountsOK, RemovalInv, RemovedIsForgottenHere, Syncing
    <2>2. MissedIsNotTheAgents'
      BY <1>20, StampIsFresh DEF InstallDownload, Losing, Stat, TInv, RemovalInv, MissedIsNotTheAgents, Syncing,
                                 CountsOK, CallOK, PhaseInv
    <2> QED
      BY <2>1, <2>2 DEF RemovalInv
  <1>21. ASSUME Record PROVE RemovalInv'
    <2>1. RemovedIsForgottenHere'
      BY <1>21 DEF Record, Adopt, Hash, HashIs, NoCall, RecordRow, Stat, TInv, RemovalInv,
                   RemovedIsForgottenHere, Syncing, CallOK, TreesOK, CountsOK, PhaseInv
    <2>2. MissedIsNotTheAgents'
      BY <1>21 DEF Record, Adopt, Hash, HashIs, NoCall, RecordRow, Stat, TInv, RemovalInv, MissedIsNotTheAgents,
                   Syncing, CountsOK, SetsOK, CallOK, PhaseInv
    <2> QED
      BY <2>1, <2>2 DEF RemovalInv
  <1>22. ASSUME ScanLocal PROVE RemovalInv'
    <2>1. RemovedIsForgottenHere'
      BY <1>22 DEF ScanLocal, Scan, Seeded, Stat, TInv, RemovalInv, RemovedIsForgottenHere, Syncing, TreesOK,
                   CountsOK, PhaseInv
    <2>2. MissedIsNotTheAgents'
      BY <1>22, NoneAssumption DEF ScanLocal, Scan, Seeded, Stat, TInv, RemovalInv, MissedIsNotTheAgents,
                                   Syncing, TreesOK, CountsOK, SetsOK, PhaseInv, RemovedIsForgottenHere, DiskOK,
                                   File
    <2> QED
      BY <2>1, <2>2 DEF RemovalInv
  <1>23. ASSUME NEW p \in Paths, SkipUpload(p) PROVE RemovalInv'
    <2>1. RemovedIsForgottenHere'
      BY <1>23 DEF SkipUpload, Suppressed, TInv, RemovalInv, RemovedIsForgottenHere, Syncing, TreesOK, PhaseInv
    <2>2. MissedIsNotTheAgents'
      BY <1>23 DEF SkipUpload, Suppressed, TInv, RemovalInv, MissedIsNotTheAgents, Syncing, SetsOK, PhaseInv
    <2> QED
      BY <2>1, <2>2 DEF RemovalInv
  <1>24. ASSUME NEW p \in Paths, Upload(p) PROVE RemovalInv'
    <2>1. RemovedIsForgottenHere'
      BY <1>24, VersionIsFresh DEF Upload, Hash, Suppressed, TInv, RemovalInv, RemovedIsForgottenHere, Syncing,
                                   CallOK, CountsOK, PhaseInv
    <2>2. MissedIsNotTheAgents'
      BY <1>24, VersionIsFresh DEF Upload, Hash, Suppressed, TInv, RemovalInv, MissedIsNotTheAgents, Syncing,
                                   CountsOK, PhaseInv
    <2> QED
      BY <2>1, <2>2 DEF RemovalInv
  <1>25. ASSUME RecordUpload PROVE RemovalInv'
    <2>1. RemovedIsForgottenHere'
      BY <1>25 DEF RecordUpload, Hash, HashIs, NoCall, RecordRow, TInv, RemovalInv, RemovedIsForgottenHere,
                   Syncing, CallOK, CountsOK, PhaseInv
    <2>2. MissedIsNotTheAgents'
      BY <1>25 DEF RecordUpload, Hash, HashIs, NoCall, RecordRow, TInv, RemovalInv, MissedIsNotTheAgents,
                   Syncing, CountsOK, SetsOK, CallOK, PhaseInv
    <2> QED
      BY <2>1, <2>2 DEF RemovalInv
  <1>26. ASSUME NEW p \in Paths, DeleteRemote(p) PROVE RemovalInv'
    <2>1. RemovedIsForgottenHere'
      BY <1>26 DEF DeleteRemote, KnownRemote, NoCall, TInv, RemovalInv, RemovedIsForgottenHere, Syncing, CallOK,
                   CountsOK, PhaseInv
    <2>2. MissedIsNotTheAgents'
      BY <1>26 DEF DeleteRemote, KnownRemote, NoCall, TInv, RemovalInv, MissedIsNotTheAgents, Syncing, CountsOK,
                   PhaseInv
    <2> QED
      BY <2>1, <2>2 DEF RemovalInv
  <1>27. ASSUME ForgetRemote PROVE RemovalInv'
    <2>1. RemovedIsForgottenHere'
      BY <1>27 DEF ForgetRemote, NoCall, RemoveRow, TInv, RemovalInv, RemovedIsForgottenHere, Syncing, CallOK,
                   CountsOK, TreesOK, PhaseInv
    <2>2. MissedIsNotTheAgents'
      BY <1>27 DEF ForgetRemote, NoCall, RemoveRow, TInv, RemovalInv, MissedIsNotTheAgents, Syncing, CountsOK,
                   SetsOK, CallOK, PhaseInv
    <2> QED
      BY <2>1, <2>2 DEF RemovalInv
  <1>28. ASSUME NEW p \in Paths, SkipDelete(p) PROVE RemovalInv'
    <2>1. MissedIsNotTheAgents'
      BY <1>28 DEF SkipDelete, KnownRemote, TInv, RemovalInv, MissedIsNotTheAgents, Syncing, SetsOK, PhaseInv
    <2>2. RemovedIsForgottenHere'
      BY <1>28 DEF SkipDelete, RemovalInv, RemovedIsForgottenHere, Syncing
    <2> QED
      BY <2>1, <2>2 DEF RemovalInv
  <1>29. ASSUME FinishScan PROVE RemovalInv'
    <2>1. RemovedIsForgottenHere'
      BY <1>29 DEF FinishScan, Persisted, TInv, RemovalInv, RemovedIsForgottenHere, Syncing, TreesOK, CountsOK,
                   Nothing, PhaseInv
    <2>2. MissedIsNotTheAgents'
      BY <1>29 DEF FinishScan, Persisted, TInv, RemovalInv, MissedIsNotTheAgents, Syncing, TreesOK, CountsOK,
                   Nothing, PhaseInv
    <2> QED
      BY <2>1, <2>2 DEF RemovalInv
  <1>30. ASSUME TakeUpdate PROVE RemovalInv'
    <2>1. RemovedIsForgottenHere'
      BY <1>30 DEF TakeUpdate, TInv, RemovalInv, RemovedIsForgottenHere, Syncing, CountsOK, PhaseInv
    <2>2. MissedIsNotTheAgents'
      BY <1>30 DEF TakeUpdate, TInv, RemovalInv, MissedIsNotTheAgents, Syncing, CountsOK, SetsOK, PhaseInv
    <2> QED
      BY <2>1, <2>2 DEF RemovalInv
  <1>31. ASSUME NEW p \in Paths, SkipDiverged(p) PROVE RemovalInv'
    <2>1. MissedIsNotTheAgents'
      BY <1>31 DEF SkipDiverged, Diverged, Stat, TInv, RemovalInv, MissedIsNotTheAgents, Syncing, SetsOK,
                   PhaseInv
    <2>2. RemovedIsForgottenHere'
      BY <1>31 DEF SkipDiverged, RemovalInv, RemovedIsForgottenHere, Syncing
    <2> QED
      BY <2>1, <2>2 DEF RemovalInv
  <1>32. ASSUME NEW p \in Paths, AdoptMatching(p) PROVE RemovalInv'
    <2>1. RemovedIsForgottenHere'
      BY <1>32 DEF AdoptMatching, Adopt, Diverged, Hash, HashIs, RecordRow, RemoteHash, Stat, TInv, RemovalInv,
                   RemovedIsForgottenHere, Syncing, TreesOK, PhaseInv
    <2>2. MissedIsNotTheAgents'
      BY <1>32 DEF AdoptMatching, Adopt, Diverged, Hash, HashIs, RecordRow, RemoteHash, Stat, TInv, RemovalInv,
                   MissedIsNotTheAgents, Syncing, SetsOK, PhaseInv
    <2> QED
      BY <2>1, <2>2 DEF RemovalInv
  <1>33. ASSUME NEW p \in Paths, SkipStaleDelete(p) PROVE RemovalInv'
    <2>1. MissedIsNotTheAgents'
      BY <1>33 DEF SkipStaleDelete, StaleDelete, TInv, RemovalInv, MissedIsNotTheAgents, Syncing, SetsOK,
                   PhaseInv
    <2>2. RemovedIsForgottenHere'
      BY <1>33 DEF SkipStaleDelete, RemovalInv, RemovedIsForgottenHere, Syncing
    <2> QED
      BY <2>1, <2>2 DEF RemovalInv
  <1>34. ASSUME NEW p \in Paths, ApplyDelete(p) PROVE RemovalInv'
    <2>1. RemovedIsForgottenHere'
      BY <1>34 DEF ApplyDelete, Losing, NoCall, RemoveLocal, StaleDelete, TInv, RemovalInv,
                   RemovedIsForgottenHere, Syncing, CallOK, DiskOK, CountsOK, PhaseInv
    <2>2. MissedIsNotTheAgents'
      BY <1>34 DEF ApplyDelete, Losing, NoCall, RemoveLocal, StaleDelete, TInv, RemovalInv,
                   MissedIsNotTheAgents, Syncing, CountsOK, PhaseInv
    <2> QED
      BY <2>1, <2>2 DEF RemovalInv
  <1>35. ASSUME ForgetLocal PROVE RemovalInv'
    <2>1. RemovedIsForgottenHere'
      BY <1>35 DEF ForgetLocal, NoCall, RemoveRow, TInv, RemovalInv, RemovedIsForgottenHere, Syncing, CallOK,
                   TreesOK, CountsOK, PhaseInv
    <2>2. MissedIsNotTheAgents'
      BY <1>35 DEF ForgetLocal, NoCall, RemoveRow, TInv, RemovalInv, MissedIsNotTheAgents, Syncing, CountsOK,
                   SetsOK, CallOK, PhaseInv
    <2> QED
      BY <2>1, <2>2 DEF RemovalInv
  <1>36. ASSUME FinishUpdate PROVE RemovalInv'
    <2>1. RemovedIsForgottenHere'
      BY <1>36 DEF FinishUpdate, Files, TInv, RemovalInv, RemovedIsForgottenHere, Syncing, CountsOK, Nothing,
                   PhaseInv
    <2>2. MissedIsNotTheAgents'
      BY <1>36 DEF FinishUpdate, Files, TInv, RemovalInv, MissedIsNotTheAgents, Syncing, CountsOK, Nothing,
                   PhaseInv
    <2> QED
      BY <2>1, <2>2 DEF RemovalInv
  <1>37. ASSUME PersistUpdates PROVE RemovalInv'
    <2>1. RemovedIsForgottenHere'
      BY <1>37 DEF PersistUpdates, Persisted, Seeded, TInv, RemovalInv, RemovedIsForgottenHere, Syncing,
                   TreesOK, CountsOK, PhaseInv
    <2>2. MissedIsNotTheAgents'
      BY <1>37 DEF PersistUpdates, Persisted, Seeded, TInv, RemovalInv, MissedIsNotTheAgents, Syncing, CountsOK,
                   PhaseInv
    <2> QED
      BY <2>1, <2>2 DEF RemovalInv
  <1>38. ASSUME Ends PROVE RemovalInv'
    <2>1. RemovedIsForgottenHere'
      BY <1>38 DEF Ends, Down, NoCall, TInv, RemovalInv, RemovedIsForgottenHere, Syncing, CallOK, TreesOK,
                   CountsOK, Nothing, PhaseInv
    <2>2. MissedIsNotTheAgents'
      BY <1>38 DEF Ends, Down, NoCall, TInv, RemovalInv, MissedIsNotTheAgents, Syncing, TreesOK, CountsOK,
                   SetsOK, Nothing, PhaseInv
    <2> QED
      BY <2>1, <2>2 DEF RemovalInv
  <1>39. ASSUME \/ UploadResolved \/ RecordResolved \/ DeleteResolved \/ UnrecordResolved \/ FinishResolution \/ AbandonResolution \/ Poll
               \/ \E p \in Paths : KeepLocal(p) \/ RemotePut(p) \/ RemoteDelete(p)
       PROVE  RemovalInv'
    BY <1>39 DEF KeepLocal, ClearConflict, Move, RemotePut, RemoteDelete, UploadResolved, RecordResolved,
                 RecordRow, Resolve, DeleteResolved, UnrecordResolved, RemoveRow, FinishResolution,
                 AbandonResolution, Poll, RemovalInv, RemovedIsForgottenHere, MissedIsNotTheAgents, Syncing
  <1>40. CASE UNCHANGED folderVars
    BY <1>40 DEF folderVars, RemovalInv, RemovedIsForgottenHere, MissedIsNotTheAgents, Syncing
  <1> QED
    BY <1>1, <1>2, <1>3, <1>4, <1>5, <1>6, <1>7, <1>8, <1>9, <1>10, <1>11, <1>12, <1>13, <1>14, <1>15, <1>16,
       <1>17, <1>18, <1>19, <1>20, <1>21, <1>22, <1>23, <1>24, <1>25, <1>26, <1>27, <1>28, <1>29, <1>30, <1>31,
       <1>32, <1>33, <1>34, <1>35, <1>36, <1>37, <1>38, <1>39, <1>40
    DEF FolderNext, UserStep, OthersStep, ResolverStep, StartupStep, DownloadStep, SyncStep, UpdateStep,
        DownloadFails, UploadFails, Stop, Ends

\* The agent has removed nothing yet.
LEMMA RemovalsStart == FolderInit => RemovalInv
  BY DEF FolderInit, RemovalInv, RemovedIsForgottenHere, MissedIsNotTheAgents, Syncing

\* sync_local_changes: a file that the scan no longer finds is deleted in the store
\* only if the user or a resolution took it away, for any files and however updates,
\* downloads, scans and stops come between: what remove_local_path_with_logging has
\* removed is forgotten before the next scan.
THEOREM RemovalsDoNotEcho == FolderSpec => OwnRemovalsDoNotEcho
  <1> DEFINE Rightly(p) == pc = "sync" /\ pc' = "deleted" /\ call'.path = p /\ remote[p] # None
                             => remover[p] # "agent"
  <1>1. ASSUME TInv, RemovalInv, FolderNext, NEW p \in Paths PROVE Rightly(p)
    <2> SUFFICES ASSUME pc = "sync", pc' = "deleted", call'.path = p PROVE remover[p] # "agent"
      OBVIOUS
    <2> USE DEF agentVars, threadVars
    <2>1. \E q \in Paths : DeleteRemote(q)
      <3>1. CASE UserStep \/ OthersStep
        BY <3>1 DEF UserStep, OthersStep, Write, Touch, Delete, KeepLocal, KeepRemote, RemotePut, RemoteDelete
      <3>2. CASE ResolverStep
        BY <3>2 DEF ResolverStep, Resolve, ApplyRemoteCopy, UploadResolved, RecordResolved, RemoveResolved,
                    DeleteResolved, UnrecordResolved, FinishResolution, AbandonResolution
      <3>3. CASE StartupStep
        BY <3>3 DEF StartupStep, Start, Reconcile, BeginCopies, BeginApply, BeginRemovals, PersistStartup,
                    FinishStartupSync, FinishStartup, RepairRow, CopyConflict, SkipAtStartup, RemoveWinner
      <3>4. CASE DownloadStep \/ UpdateStep \/ Stop
        BY <3>4 DEF DownloadStep, InstallDownload, Record, DownloadFails, Download, Down, UpdateStep, Poll,
                    TakeUpdate, ForgetLocal, FinishUpdate, PersistUpdates, SkipDiverged, AdoptMatching,
                    SkipStaleDelete, ApplyDelete, Stop
      <3>5. CASE SyncStep
        BY <3>5 DEF SyncStep, ScanLocal, RecordUpload, ForgetRemote, FinishScan, SkipUpload, Upload, UploadFails,
                    Down, SkipDelete
      <3> QED
        BY <1>1, <3>1, <3>2, <3>3, <3>4, <3>5 DEF FolderNext
    <2>2. p \in todo /\ current[p] = None
      BY <2>1 DEF DeleteRemote, NoCall
    <2> QED
      BY <1>1, <2>2 DEF RemovalInv, MissedIsNotTheAgents, Syncing
  <1>2. TInv /\ RemovalInv /\ [FolderNext]_folderVars => [\A p \in Paths : Rightly(p)]_folderVars
    BY <1>1
  <1> QED
    BY <1>2, TypesStart, TypesKept, RemovalsStart, RemovalsKept, PTL DEF FolderSpec, OwnRemovalsDoNotEcho

-------------------------------------------------------------------------------
(***************************************************************************)
(* Rows                                                                    *)
(***************************************************************************)

RowIs(q, stamp) == baseline[q] = None \/ baseline[q].stamp = stamp

\* Startup has yet to look at the path of its snapshot.
Awaited(q) == pc \in {"repair", "copy"} \/ (pc \in {"apply", "install", "record"} /\ q \in todo)

RowsFit ==
    \A q \in Paths : disk[q] # None /\ q \notin misrecorded /\ baseline[q] # None /\ baseline[q].stamp = Stat(q)
        => baseline[q].hash \in {None, disk[q].content}

\* A file that the agent downloaded and has not scanned since.
DownloadedRows ==
    \A q \in Paths : disk[q] # None /\ suppressed_uploads[q] = Stat(q) =>
        /\ RowIs(q, Stat(q))
        /\ Syncing => current[q] = Stat(q)
        /\ ~Syncing => local_state[q] \in {None, Stat(q)}

\* A file that is as the agent knows it, when that is about to be persisted.
KnownRows ==
    \A q \in Paths : disk[q] # None /\ local_state[q] = Stat(q) /\ pc \notin {"down", "fetch"} /\ ~Syncing =>
        IF Reconciling
        THEN q \in Files(snapshot) \ preserve_local_files =>
                \/ RowIs(q, Stat(q))
                \/ Awaited(q) /\ q \notin matching_remote_files
                \/ pc = "repair" /\ q \in todo
        ELSE RowIs(q, Stat(q))

ScannedRows ==
    \A q \in Paths : disk[q] # None /\ Syncing /\ q \notin todo /\ current[q] = Stat(q) => RowIs(q, Stat(q))

RowInv == RowsFit /\ DownloadedRows /\ KnownRows /\ ScannedRows

\* Every step keeps the rows right, or marks them.
LEMMA RowsKept ==
    ASSUME TInv, RowInv, [FolderNext]_folderVars
    PROVE  RowInv'
  <1> USE DEF fileVars, storeVars, rowVars, copyVars, treeVars, planVars, threadVars, pollVars, counterVars, agentVars
  <1>1. ASSUME NEW p \in Paths, Write(p) PROVE RowInv'
    <2>1. RowsFit'
      BY <1>1, StampIsFresh DEF Write, BeingRecorded, Move, Stat, TInv, RowInv, RowsFit, DiskOK, PhaseInv
    <2>2. DownloadedRows'
      BY <1>1, StampIsFresh DEF Write, BeingRecorded, Move, Stat, TInv, RowInv, DownloadedRows, RowIs, Syncing,
                                DiskOK, PhaseInv
    <2>3. KnownRows'
      BY <1>1, StampIsFresh DEF Write, BeingRecorded, Move, Stat, TInv, RowInv, KnownRows, Awaited, Files,
                                Reconciling, RowIs, Syncing, DiskOK, PhaseInv
    <2>4. ScannedRows'
      BY <1>1, StampIsFresh DEF Write, BeingRecorded, Move, Stat, TInv, RowInv, ScannedRows, RowIs, Syncing,
                                DiskOK, PhaseInv
    <2> QED
      BY <2>1, <2>2, <2>3, <2>4 DEF RowInv
  <1>2. ASSUME NEW p \in Paths, Touch(p) PROVE RowInv'
    <2>1. RowsFit'
      BY <1>2, StampIsFresh DEF Touch, Move, Stat, TInv, RowInv, RowsFit, DiskOK, PhaseInv
    <2>2. DownloadedRows'
      BY <1>2, StampIsFresh DEF Touch, Move, Stat, TInv, RowInv, DownloadedRows, RowIs, Syncing, DiskOK,
                                PhaseInv
    <2>3. KnownRows'
      BY <1>2, StampIsFresh DEF Touch, Move, Stat, TInv, RowInv, KnownRows, Awaited, Files, Reconciling, RowIs,
                                Syncing, DiskOK, PhaseInv
    <2>4. ScannedRows'
      BY <1>2, StampIsFresh DEF Touch, Move, Stat, TInv, RowInv, ScannedRows, RowIs, Syncing, DiskOK, PhaseInv
    <2> QED
      BY <2>1, <2>2, <2>3, <2>4 DEF RowInv
  <1>3. ASSUME NEW p \in Paths, Delete(p) PROVE RowInv'
    <2>1. RowsFit'
      BY <1>3 DEF Delete, Move, TInv, RowInv, RowsFit, Stat, DiskOK, PhaseInv
    <2>2. DownloadedRows'
      BY <1>3 DEF Delete, Move, TInv, RowInv, DownloadedRows, RowIs, Stat, Syncing, DiskOK, PhaseInv
    <2>3. KnownRows'
      BY <1>3 DEF Delete, Move, TInv, RowInv, KnownRows, Awaited, Files, Reconciling, RowIs, Stat, Syncing,
                  DiskOK, PhaseInv
    <2>4. ScannedRows'
      BY <1>3 DEF Delete, Move, TInv, RowInv, ScannedRows, RowIs, Stat, Syncing, DiskOK, PhaseInv
    <2> QED
      BY <2>1, <2>2, <2>3, <2>4 DEF RowInv
  <1>4. ASSUME NEW p \in Paths, KeepRemote(p) PROVE RowInv'
    <2>1. RowsFit'
      BY <1>4 DEF KeepRemote, Move, NoResolution, TInv, RowInv, RowsFit, Stat, DiskOK, PhaseInv
    <2>2. DownloadedRows'
      BY <1>4 DEF KeepRemote, Move, NoResolution, TInv, RowInv, DownloadedRows, RowIs, Stat, Syncing, DiskOK,
                  PhaseInv
    <2>3. KnownRows'
      BY <1>4 DEF KeepRemote, Move, NoResolution, TInv, RowInv, KnownRows, Awaited, Files, Reconciling, RowIs,
                  Stat, Syncing, DiskOK, PhaseInv
    <2>4. ScannedRows'
      BY <1>4 DEF KeepRemote, Move, NoResolution, TInv, RowInv, ScannedRows, RowIs, Stat, Syncing, DiskOK,
                  PhaseInv
    <2> QED
      BY <2>1, <2>2, <2>3, <2>4 DEF RowInv
  <1>5. ASSUME ApplyRemoteCopy PROVE RowInv'
    <2>0. /\ resolver = [path |-> resolver.path, step |-> resolver.step, content |-> resolver.content]
          /\ resolver.path \in Paths /\ resolver.content \in Contents
      BY <1>5, ResolverAtWork DEF ApplyRemoteCopy, Resolve, Steps
    <2>1. RowsFit'
      BY <1>5, StampIsFresh, <2>0 DEF ApplyRemoteCopy, Resolve, Stat, TInv, RowInv, RowsFit, DiskOK, PhaseInv
    <2>2. DownloadedRows'
      BY <1>5, StampIsFresh, <2>0 DEF ApplyRemoteCopy, Resolve, Stat, TInv, RowInv, DownloadedRows, RowIs,
                                      Syncing, DiskOK, PhaseInv
    <2>3. KnownRows'
      BY <1>5, StampIsFresh, <2>0 DEF ApplyRemoteCopy, Resolve, Stat, TInv, RowInv, KnownRows, Awaited, Files,
                                      Reconciling, RowIs, Syncing, DiskOK, PhaseInv
    <2>4. ScannedRows'
      BY <1>5, StampIsFresh, <2>0 DEF ApplyRemoteCopy, Resolve, Stat, TInv, RowInv, ScannedRows, RowIs, Syncing,
                                      DiskOK, PhaseInv
    <2> QED
      BY <2>1, <2>2, <2>3, <2>4 DEF RowInv
  <1>6. ASSUME RecordResolved PROVE RowInv'
    <2>0. /\ resolver = [path |-> resolver.path, step |-> resolver.step, content |-> resolver.content]
          /\ resolver.path \in Paths /\ resolver.content \in Contents
      BY <1>6, ResolverAtWork DEF RecordResolved, Resolve, Steps
    <2>1. RowsFit'
      BY <1>6, <2>0 DEF RecordResolved, Hash, HashIs, RecordRow, Resolve, Stat, TInv, RowInv, RowsFit,
                        BaselineOK, PhaseInv
    <2>2. DownloadedRows'
      BY <1>6, <2>0 DEF RecordResolved, Hash, HashIs, RecordRow, Resolve, Stat, TInv, RowInv, DownloadedRows,
                        RowIs, Syncing, BaselineOK, PhaseInv
    <2>3. KnownRows'
      BY <1>6, <2>0 DEF RecordResolved, Hash, HashIs, RecordRow, Resolve, Stat, TInv, RowInv, KnownRows,
                        Awaited, Files, Reconciling, RowIs, Syncing, BaselineOK, PhaseInv
    <2>4. ScannedRows'
      BY <1>6, <2>0 DEF RecordResolved, Hash, HashIs, RecordRow, Resolve, Stat, TInv, RowInv, ScannedRows,
                        RowIs, Syncing, BaselineOK, PhaseInv
    <2> QED
      BY <2>1, <2>2, <2>3, <2>4 DEF RowInv
  <1>7. ASSUME RemoveResolved PROVE RowInv'
    <2>0. /\ resolver = [path |-> resolver.path, step |-> resolver.step, content |-> resolver.content]
          /\ resolver.path \in Paths
      BY <1>7, ResolverAtWork DEF RemoveResolved, Resolve, Steps
    <2>1. RowsFit'
      BY <1>7, <2>0 DEF RemoveResolved, Resolve, TInv, RowInv, RowsFit, Stat, DiskOK, PhaseInv
    <2>2. DownloadedRows'
      BY <1>7, <2>0 DEF RemoveResolved, Resolve, TInv, RowInv, DownloadedRows, RowIs, Stat, Syncing, DiskOK,
                        PhaseInv
    <2>3. KnownRows'
      BY <1>7, <2>0 DEF RemoveResolved, Resolve, TInv, RowInv, KnownRows, Awaited, Files, Reconciling, RowIs,
                        Stat, Syncing, DiskOK, PhaseInv
    <2>4. ScannedRows'
      BY <1>7, <2>0 DEF RemoveResolved, Resolve, TInv, RowInv, ScannedRows, RowIs, Stat, Syncing, DiskOK,
                        PhaseInv
    <2> QED
      BY <2>1, <2>2, <2>3, <2>4 DEF RowInv
  <1>8. ASSUME UnrecordResolved PROVE RowInv'
    <2>0. /\ resolver = [path |-> resolver.path, step |-> resolver.step, content |-> resolver.content]
          /\ resolver.path \in Paths
      BY <1>8, ResolverAtWork DEF UnrecordResolved, Resolve, Steps
    <2>1. RowsFit'
      BY <1>8, <2>0 DEF UnrecordResolved, RemoveRow, Resolve, TInv, RowInv, RowsFit, Stat, BaselineOK, PhaseInv
    <2>2. DownloadedRows'
      BY <1>8, <2>0 DEF UnrecordResolved, RemoveRow, Resolve, TInv, RowInv, DownloadedRows, RowIs, Stat,
                        Syncing, BaselineOK, PhaseInv
    <2>3. KnownRows'
      BY <1>8, <2>0 DEF UnrecordResolved, RemoveRow, Resolve, TInv, RowInv, KnownRows, Awaited, Files,
                        Reconciling, RowIs, Stat, Syncing, BaselineOK, PhaseInv
    <2>4. ScannedRows'
      BY <1>8, <2>0 DEF UnrecordResolved, RemoveRow, Resolve, TInv, RowInv, ScannedRows, RowIs, Stat, Syncing,
                        BaselineOK, PhaseInv
    <2> QED
      BY <2>1, <2>2, <2>3, <2>4 DEF RowInv
  <1>9. ASSUME Start PROVE RowInv'
    <2>1. RowsFit'
      BY <1>9 DEF Start, Scan, Stat, TInv, RowInv, RowsFit, BaselineOK, Nothing, PhaseInv
    <2>2. DownloadedRows'
      BY <1>9, StatIsSome DEF Start, Scan, Stat, TInv, RowInv, DownloadedRows, RowIs, Syncing, BaselineOK,
                              TreesOK, CountsOK, Nothing, PhaseInv
    <2>3. KnownRows'
      BY <1>9 DEF Start, Scan, Stat, TInv, RowInv, KnownRows, Awaited, Files, Reconciling, RowIs, Syncing,
                  BaselineOK, TreesOK, CountsOK, Nothing, PhaseInv
    <2>4. ScannedRows'
      BY <1>9 DEF Start, Scan, Stat, TInv, RowInv, ScannedRows, RowIs, Syncing, BaselineOK, CountsOK, Nothing,
                  PhaseInv
    <2> QED
      BY <2>1, <2>2, <2>3, <2>4 DEF RowInv
  <1>10. ASSUME Reconcile PROVE RowInv'
    <2>1. DownloadedRows'
      BY <1>10 DEF Reconcile, BaselineHash, Files, Hash, HashIs, MatchingRemoteFiles, PreserveLocalFiles,
                   RemoteDeleteWinsPaths, StartupConflicts, Unchanged, TInv, RowInv, DownloadedRows, RowIs,
                   Stat, Syncing, CountsOK, Nothing, PhaseInv
    <2>2. KnownRows'
      BY <1>10 DEF Reconcile, BaselineHash, Files, Hash, HashIs, MatchingRemoteFiles, PreserveLocalFiles,
                   RemoteDeleteWinsPaths, StartupConflicts, Unchanged, TInv, RowInv, KnownRows, Awaited,
                   Reconciling, RowIs, Stat, Syncing, CountsOK, StoreOK, SetsOK, Nothing, PhaseInv
    <2>3. ScannedRows'
      BY <1>10 DEF Reconcile, BaselineHash, Files, Hash, HashIs, MatchingRemoteFiles, PreserveLocalFiles,
                   RemoteDeleteWinsPaths, StartupConflicts, Unchanged, TInv, RowInv, ScannedRows, RowIs, Stat,
                   Syncing, CountsOK, SetsOK, Nothing, PhaseInv
    <2>4. RowsFit'
      BY <1>10 DEF Reconcile, RowInv, RowsFit, Stat
    <2> QED
      BY <2>1, <2>2, <2>3, <2>4 DEF RowInv
  <1>11. ASSUME NEW p \in Paths, RepairRow(p) PROVE RowInv'
    <2>1. RowsFit'
      BY <1>11 DEF RepairRow, Hash, HashIs, RecordRow, RemoteHash, TInv, RowInv, RowsFit, Stat, BaselineOK,
                   PhaseInv
    <2>2. DownloadedRows'
      BY <1>11 DEF RepairRow, Hash, HashIs, RecordRow, RemoteHash, TInv, RowInv, DownloadedRows, RowIs, Stat,
                   Syncing, BaselineOK, PhaseInv, Files, SetsOK
    <2>3. KnownRows'
      BY <1>11 DEF RepairRow, Hash, HashIs, RecordRow, RemoteHash, TInv, RowInv, KnownRows, Awaited, Files,
                   Reconciling, RowIs, Stat, Syncing, BaselineOK, SetsOK, PhaseInv
    <2>4. ScannedRows'
      BY <1>11 DEF RepairRow, Hash, HashIs, RecordRow, RemoteHash, TInv, RowInv, ScannedRows, RowIs, Stat,
                   Syncing, BaselineOK, SetsOK, PhaseInv
    <2> QED
      BY <2>1, <2>2, <2>3, <2>4 DEF RowInv
  <1>12. ASSUME BeginCopies PROVE RowInv'
    <2>1. DownloadedRows'
      BY <1>12 DEF BeginCopies, TInv, RowInv, DownloadedRows, RowIs, Stat, Syncing, CountsOK, PhaseInv
    <2>2. KnownRows'
      BY <1>12 DEF BeginCopies, TInv, RowInv, KnownRows, Awaited, Files, Reconciling, RowIs, Stat, Syncing,
                   CountsOK, SetsOK, PhaseInv
    <2>3. ScannedRows'
      BY <1>12 DEF BeginCopies, TInv, RowInv, ScannedRows, RowIs, Stat, Syncing, CountsOK, SetsOK, PhaseInv
    <2>4. RowsFit'
      BY <1>12 DEF BeginCopies, RowInv, RowsFit, Stat
    <2> QED
      BY <2>1, <2>2, <2>3, <2>4 DEF RowInv
  <1>13. ASSUME NEW p \in Paths, CopyConflict(p) PROVE RowInv'
    <2>1. KnownRows'
      BY <1>13 DEF CopyConflict, TInv, RowInv, KnownRows, Awaited, Files, Reconciling, RowIs, Stat, Syncing,
                   SetsOK, PhaseInv
    <2>2. ScannedRows'
      BY <1>13 DEF CopyConflict, TInv, RowInv, ScannedRows, RowIs, Stat, Syncing, SetsOK, PhaseInv
    <2>3. RowsFit' /\ DownloadedRows'
      BY <1>13 DEF CopyConflict, RowInv, RowsFit, DownloadedRows, Stat, RowIs, Syncing
    <2> QED
      BY <2>1, <2>2, <2>3 DEF RowInv
  <1>14. ASSUME BeginApply PROVE RowInv'
    <2>1. DownloadedRows'
      BY <1>14 DEF BeginApply, Files, TInv, RowInv, DownloadedRows, RowIs, Stat, Syncing, CountsOK, PhaseInv
    <2>2. KnownRows'
      BY <1>14 DEF BeginApply, Files, TInv, RowInv, KnownRows, Awaited, Reconciling, RowIs, Stat, Syncing,
                   CountsOK, SetsOK, PhaseInv
    <2>3. ScannedRows'
      BY <1>14 DEF BeginApply, Files, TInv, RowInv, ScannedRows, RowIs, Stat, Syncing, CountsOK, SetsOK,
                   PhaseInv
    <2>4. RowsFit'
      BY <1>14 DEF BeginApply, RowInv, RowsFit, Stat
    <2> QED
      BY <2>1, <2>2, <2>3, <2>4 DEF RowInv
  <1>15. ASSUME NEW p \in Paths, SkipAtStartup(p) PROVE RowInv'
    <2>1. KnownRows'
      BY <1>15 DEF SkipAtStartup, KeptAtStartup, TInv, RowInv, KnownRows, Awaited, Files, Reconciling, RowIs,
                   Stat, Syncing, SetsOK, PhaseInv
    <2>2. ScannedRows'
      BY <1>15 DEF SkipAtStartup, KeptAtStartup, TInv, RowInv, ScannedRows, RowIs, Stat, Syncing, SetsOK,
                   PhaseInv
    <2>3. RowsFit' /\ DownloadedRows'
      BY <1>15 DEF SkipAtStartup, RowInv, RowsFit, DownloadedRows, Stat, RowIs, Syncing
    <2> QED
      BY <2>1, <2>2, <2>3 DEF RowInv
  <1>16. ASSUME BeginRemovals PROVE RowInv'
    <2>1. DownloadedRows'
      BY <1>16 DEF BeginRemovals, Files, TInv, RowInv, DownloadedRows, RowIs, Stat, Syncing, CountsOK, PhaseInv
    <2>2. KnownRows'
      BY <1>16 DEF BeginRemovals, Files, TInv, RowInv, KnownRows, Awaited, Reconciling, RowIs, Stat, Syncing,
                   CountsOK, SetsOK, PhaseInv
    <2>3. ScannedRows'
      BY <1>16 DEF BeginRemovals, Files, TInv, RowInv, ScannedRows, RowIs, Stat, Syncing, CountsOK, SetsOK,
                   PhaseInv
    <2>4. RowsFit'
      BY <1>16 DEF BeginRemovals, RowInv, RowsFit, Stat
    <2> QED
      BY <2>1, <2>2, <2>3, <2>4 DEF RowInv
  <1>17. ASSUME NEW p \in Paths, RemoveWinner(p) PROVE RowInv'
    <2>1. RowsFit'
      BY <1>17 DEF RemoveWinner, Losing, NoCall, RemoveLocal, TInv, RowInv, RowsFit, Stat, DiskOK, PhaseInv
    <2>2. DownloadedRows'
      BY <1>17 DEF RemoveWinner, Losing, NoCall, RemoveLocal, TInv, RowInv, DownloadedRows, RowIs, Stat,
                   Syncing, DiskOK, CountsOK, PhaseInv
    <2>3. KnownRows'
      BY <1>17 DEF RemoveWinner, Losing, NoCall, RemoveLocal, TInv, RowInv, KnownRows, Awaited, Files,
                   Reconciling, RowIs, Stat, Syncing, DiskOK, CountsOK, PhaseInv
    <2>4. ScannedRows'
      BY <1>17 DEF RemoveWinner, Losing, NoCall, RemoveLocal, TInv, RowInv, ScannedRows, RowIs, Stat, Syncing,
                   DiskOK, CountsOK, PhaseInv
    <2> QED
      BY <2>1, <2>2, <2>3, <2>4 DEF RowInv
  <1>18. ASSUME PersistStartup PROVE RowInv'
    <2>1. RowsFit'
      BY <1>18, StatIsSome DEF PersistStartup, Persisted, Seeded, StartupBaselineState, TInv, RowInv, RowsFit,
                               Stat, BaselineOK, PhaseInv, KnownRows, DownloadedRows, RowIs, Reconciling,
                               Awaited, Syncing, Files
    <2>2. DownloadedRows'
      BY <1>18 DEF PersistStartup, Persisted, Seeded, StartupBaselineState, TInv, RowInv, DownloadedRows, RowIs,
                   Stat, Syncing, BaselineOK, TreesOK, CountsOK, PhaseInv
    <2>3. KnownRows'
      BY <1>18 DEF PersistStartup, Persisted, Seeded, StartupBaselineState, TInv, RowInv, KnownRows, Awaited,
                   Files, Reconciling, RowIs, Stat, Syncing, BaselineOK, TreesOK, CountsOK, PhaseInv
    <2>4. ScannedRows'
      BY <1>18 DEF PersistStartup, Persisted, Seeded, StartupBaselineState, TInv, RowInv, ScannedRows, RowIs,
                   Stat, Syncing, BaselineOK, CountsOK, PhaseInv
    <2> QED
      BY <2>1, <2>2, <2>3, <2>4 DEF RowInv
  <1>19. ASSUME FinishStartupSync PROVE RowInv'
    <2>1. RowsFit'
      BY <1>19, StatIsSome DEF FinishStartupSync, Persisted, TInv, RowInv, RowsFit, Stat, BaselineOK, Nothing,
                               PhaseInv, ScannedRows, RowIs, Syncing
    <2>2. DownloadedRows'
      BY <1>19 DEF FinishStartupSync, Persisted, TInv, RowInv, DownloadedRows, RowIs, Stat, Syncing, BaselineOK,
                   TreesOK, CountsOK, Nothing, PhaseInv
    <2>3. KnownRows'
      BY <1>19 DEF FinishStartupSync, Persisted, TInv, RowInv, KnownRows, Awaited, Files, Reconciling, RowIs,
                   Stat, Syncing, BaselineOK, TreesOK, CountsOK, Nothing, PhaseInv
    <2>4. ScannedRows'
      BY <1>19 DEF FinishStartupSync, Persisted, TInv, RowInv, ScannedRows, RowIs, Stat, Syncing, BaselineOK,
                   TreesOK, CountsOK, Nothing, PhaseInv
    <2> QED
      BY <2>1, <2>2, <2>3, <2>4 DEF RowInv
  <1>20. ASSUME FinishStartup PROVE RowInv'
    <2>1. DownloadedRows'
      BY <1>20 DEF FinishStartup, TInv, RowInv, DownloadedRows, RowIs, Stat, Syncing, CountsOK, Nothing,
                   PhaseInv
    <2>2. KnownRows'
      BY <1>20 DEF FinishStartup, TInv, RowInv, KnownRows, Awaited, Files, Reconciling, RowIs, Stat, Syncing,
                   CountsOK, StoreOK, Nothing, PhaseInv
    <2>3. ScannedRows'
      BY <1>20 DEF FinishStartup, TInv, RowInv, ScannedRows, RowIs, Stat, Syncing, CountsOK, Nothing, PhaseInv
    <2>4. RowsFit'
      BY <1>20 DEF FinishStartup, RowInv, RowsFit, Stat
    <2> QED
      BY <2>1, <2>2, <2>3, <2>4 DEF RowInv
  <1>21. ASSUME NEW p \in Paths, Download(p) PROVE RowInv'
    <2>1. DownloadedRows'
      BY <1>21 DEF Download, Diverged, Hash, HashIs, KeptAtStartup, RemoteHash, Stat, ToDownload, TInv, RowInv,
                   DownloadedRows, RowIs, Syncing, CountsOK, PhaseInv
    <2>2. KnownRows'
      BY <1>21 DEF Download, Diverged, Hash, HashIs, KeptAtStartup, RemoteHash, Stat, ToDownload, TInv, RowInv,
                   KnownRows, Awaited, Files, Reconciling, RowIs, Syncing, CountsOK, PhaseInv
    <2>3. ScannedRows'
      BY <1>21 DEF Download, Diverged, Hash, HashIs, KeptAtStartup, RemoteHash, Stat, ToDownload, TInv, RowInv,
                   ScannedRows, RowIs, Syncing, CountsOK, PhaseInv
    <2>4. RowsFit'
      BY <1>21 DEF Download, RowInv, RowsFit, Stat
    <2> QED
      BY <2>1, <2>2, <2>3, <2>4 DEF RowInv
  <1>22. ASSUME InstallDownload PROVE RowInv'
    <2>1. RowsFit'
      BY <1>22, StampIsFresh DEF InstallDownload, Losing, Stat, TInv, RowInv, RowsFit, DiskOK, CallOK, PhaseInv
    <2>2. DownloadedRows'
      BY <1>22, StampIsFresh DEF InstallDownload, Losing, Stat, TInv, RowInv, DownloadedRows, RowIs, Syncing,
                                 DiskOK, CountsOK, CallOK, PhaseInv
    <2>3. KnownRows'
      BY <1>22, StampIsFresh DEF InstallDownload, Losing, Stat, TInv, RowInv, KnownRows, Awaited, Files,
                                 Reconciling, RowIs, Syncing, DiskOK, CountsOK, CallOK, PhaseInv
    <2>4. ScannedRows'
      BY <1>22, StampIsFresh DEF InstallDownload, Losing, Stat, TInv, RowInv, ScannedRows, RowIs, Syncing,
                                 DiskOK, CountsOK, CallOK, PhaseInv
    <2> QED
      BY <2>1, <2>2, <2>3, <2>4 DEF RowInv
  <1>23. ASSUME Record PROVE RowInv'
    <2>1. RowsFit'
      BY <1>23 DEF Record, Adopt, Hash, HashIs, NoCall, RecordRow, Stat, TInv, RowInv, RowsFit, BaselineOK,
                   CallOK, PhaseInv
    <2>2. DownloadedRows'
      BY <1>23 DEF Record, Adopt, Hash, HashIs, NoCall, RecordRow, Stat, TInv, RowInv, DownloadedRows, RowIs,
                   Syncing, BaselineOK, TreesOK, CountsOK, CallOK, PhaseInv
    <2>3. KnownRows'
      BY <1>23 DEF Record, Adopt, Hash, HashIs, NoCall, RecordRow, Stat, TInv, RowInv, KnownRows, Awaited,
                   Files, Reconciling, RowIs, Syncing, BaselineOK, TreesOK, CountsOK, SetsOK, CallOK, PhaseInv
    <2>4. ScannedRows'
      BY <1>23 DEF Record, Adopt, Hash, HashIs, NoCall, RecordRow, Stat, TInv, RowInv, ScannedRows, RowIs,
                   Syncing, BaselineOK, CountsOK, SetsOK, CallOK, PhaseInv
    <2> QED
      BY <2>1, <2>2, <2>3, <2>4 DEF RowInv
  <1>24. ASSUME ScanLocal PROVE RowInv'
    <2>1. DownloadedRows'
      BY <1>24 DEF ScanLocal, Scan, Seeded, Stat, TInv, RowInv, DownloadedRows, RowIs, Syncing, TreesOK,
                   CountsOK, PhaseInv
    <2>2. KnownRows'
      BY <1>24 DEF ScanLocal, Scan, Seeded, Stat, TInv, RowInv, KnownRows, Awaited, Files, Reconciling, RowIs,
                   Syncing, TreesOK, CountsOK, SetsOK, PhaseInv
    <2>3. ScannedRows'
      BY <1>24, StatIsSome DEF ScanLocal, Scan, Seeded, Stat, TInv, RowInv, ScannedRows, RowIs, Syncing,
                               TreesOK, CountsOK, SetsOK, PhaseInv, KnownRows, DownloadedRows, Reconciling
    <2>4. RowsFit'
      BY <1>24 DEF ScanLocal, RowInv, RowsFit, Stat
    <2> QED
      BY <2>1, <2>2, <2>3, <2>4 DEF RowInv
  <1>25. ASSUME NEW p \in Paths, SkipUpload(p) PROVE RowInv'
    <2>1. DownloadedRows'
      BY <1>25, StatIsSome DEF SkipUpload, Suppressed, TInv, RowInv, DownloadedRows, RowIs, Stat, Syncing,
                               TreesOK, PhaseInv
    <2>2. KnownRows'
      BY <1>25 DEF SkipUpload, Suppressed, TInv, RowInv, KnownRows, Awaited, Files, Reconciling, RowIs, Stat,
                   Syncing, SetsOK, PhaseInv
    <2>3. ScannedRows'
      BY <1>25 DEF SkipUpload, Suppressed, TInv, RowInv, ScannedRows, RowIs, Stat, Syncing, SetsOK, PhaseInv,
                   DownloadedRows
    <2>4. RowsFit'
      BY <1>25 DEF SkipUpload, RowInv, RowsFit, Stat
    <2> QED
      BY <2>1, <2>2, <2>3, <2>4 DEF RowInv
  <1>26. ASSUME NEW p \in Paths, Upload(p) PROVE RowInv'
    <2>1. DownloadedRows'
      BY <1>26, VersionIsFresh DEF Upload, Hash, Suppressed, TInv, RowInv, DownloadedRows, RowIs, Stat, Syncing,
                                   CountsOK, PhaseInv
    <2>2. KnownRows'
      BY <1>26, VersionIsFresh DEF Upload, Hash, Suppressed, TInv, RowInv, KnownRows, Awaited, Files,
                                   Reconciling, RowIs, Stat, Syncing, CountsOK, PhaseInv
    <2>3. ScannedRows'
      BY <1>26, VersionIsFresh DEF Upload, Hash, Suppressed, TInv, RowInv, ScannedRows, RowIs, Stat, Syncing,
                                   CountsOK, PhaseInv
    <2>4. RowsFit'
      BY <1>26 DEF Upload, RowInv, RowsFit, Stat
    <2> QED
      BY <2>1, <2>2, <2>3, <2>4 DEF RowInv
  <1>27. ASSUME RecordUpload PROVE RowInv'
    <2>1. RowsFit'
      BY <1>27 DEF RecordUpload, Hash, HashIs, NoCall, RecordRow, TInv, RowInv, RowsFit, Stat, BaselineOK,
                   CallOK, PhaseInv
    <2>2. DownloadedRows'
      BY <1>27 DEF RecordUpload, Hash, HashIs, NoCall, RecordRow, TInv, RowInv, DownloadedRows, RowIs, Stat,
                   Syncing, BaselineOK, CountsOK, CallOK, PhaseInv
    <2>3. KnownRows'
      BY <1>27 DEF RecordUpload, Hash, HashIs, NoCall, RecordRow, TInv, RowInv, KnownRows, Awaited, Files,
                   Reconciling, RowIs, Stat, Syncing, BaselineOK, CountsOK, SetsOK, CallOK, PhaseInv
    <2>4. ScannedRows'
      BY <1>27 DEF RecordUpload, Hash, HashIs, NoCall, RecordRow, TInv, RowInv, ScannedRows, RowIs, Stat,
                   Syncing, BaselineOK, CountsOK, SetsOK, CallOK, PhaseInv
    <2> QED
      BY <2>1, <2>2, <2>3, <2>4 DEF RowInv
  <1>28. ASSUME NEW p \in Paths, DeleteRemote(p) PROVE RowInv'
    <2>1. DownloadedRows'
      BY <1>28 DEF DeleteRemote, KnownRemote, NoCall, TInv, RowInv, DownloadedRows, RowIs, Stat, Syncing,
                   CountsOK, PhaseInv
    <2>2. KnownRows'
      BY <1>28 DEF DeleteRemote, KnownRemote, NoCall, TInv, RowInv, KnownRows, Awaited, Files, Reconciling,
                   RowIs, Stat, Syncing, CountsOK, PhaseInv
    <2>3. ScannedRows'
      BY <1>28 DEF DeleteRemote, KnownRemote, NoCall, TInv, RowInv, ScannedRows, RowIs, Stat, Syncing, CountsOK,
                   PhaseInv
    <2>4. RowsFit'
      BY <1>28 DEF DeleteRemote, RowInv, RowsFit, Stat
    <2> QED
      BY <2>1, <2>2, <2>3, <2>4 DEF RowInv
  <1>29. ASSUME ForgetRemote PROVE RowInv'
    <2>1. RowsFit'
      BY <1>29 DEF ForgetRemote, NoCall, RemoveRow, TInv, RowInv, RowsFit, Stat, BaselineOK, CallOK, PhaseInv
    <2>2. DownloadedRows'
      BY <1>29 DEF ForgetRemote, NoCall, RemoveRow, TInv, RowInv, DownloadedRows, RowIs, Stat, Syncing,
                   BaselineOK, CountsOK, TreesOK, CallOK, PhaseInv
    <2>3. KnownRows'
      BY <1>29 DEF ForgetRemote, NoCall, RemoveRow, TInv, RowInv, KnownRows, Awaited, Files, Reconciling, RowIs,
                   Stat, Syncing, BaselineOK, CountsOK, SetsOK, CallOK, PhaseInv
    <2>4. ScannedRows'
      BY <1>29 DEF ForgetRemote, NoCall, RemoveRow, TInv, RowInv, ScannedRows, RowIs, Stat, Syncing, BaselineOK,
                   CountsOK, SetsOK, CallOK, PhaseInv
    <2> QED
      BY <2>1, <2>2, <2>3, <2>4 DEF RowInv
  <1>30. ASSUME NEW p \in Paths, SkipDelete(p) PROVE RowInv'
    <2>1. KnownRows'
      BY <1>30 DEF SkipDelete, KnownRemote, TInv, RowInv, KnownRows, Awaited, Files, Reconciling, RowIs, Stat,
                   Syncing, SetsOK, PhaseInv
    <2>2. ScannedRows'
      BY <1>30, StatIsSome DEF SkipDelete, KnownRemote, TInv, RowInv, ScannedRows, RowIs, Stat, Syncing, SetsOK,
                               PhaseInv
    <2>3. RowsFit' /\ DownloadedRows'
      BY <1>30 DEF SkipDelete, RowInv, RowsFit, DownloadedRows, Stat, RowIs, Syncing
    <2> QED
      BY <2>1, <2>2, <2>3 DEF RowInv
  <1>31. ASSUME FinishScan PROVE RowInv'
    <2>1. RowsFit'
      BY <1>31, StatIsSome DEF FinishScan, Persisted, TInv, RowInv, RowsFit, Stat, BaselineOK, Nothing,
                               PhaseInv, ScannedRows, RowIs, Syncing
    <2>2. DownloadedRows'
      BY <1>31 DEF FinishScan, Persisted, TInv, RowInv, DownloadedRows, RowIs, Stat, Syncing, BaselineOK,
                   TreesOK, CountsOK, Nothing, PhaseInv
    <2>3. KnownRows'
      BY <1>31 DEF FinishScan, Persisted, TInv, RowInv, KnownRows, Awaited, Files, Reconciling, RowIs, Stat,
                   Syncing, BaselineOK, TreesOK, CountsOK, Nothing, PhaseInv
    <2>4. ScannedRows'
      BY <1>31 DEF FinishScan, Persisted, TInv, RowInv, ScannedRows, RowIs, Stat, Syncing, BaselineOK, TreesOK,
                   CountsOK, Nothing, PhaseInv
    <2> QED
      BY <2>1, <2>2, <2>3, <2>4 DEF RowInv
  <1>32. ASSUME TakeUpdate PROVE RowInv'
    <2>1. DownloadedRows'
      BY <1>32 DEF TakeUpdate, TInv, RowInv, DownloadedRows, RowIs, Stat, Syncing, CountsOK, PhaseInv
    <2>2. KnownRows'
      BY <1>32 DEF TakeUpdate, TInv, RowInv, KnownRows, Awaited, Files, Reconciling, RowIs, Stat, Syncing,
                   CountsOK, StoreOK, SetsOK, PhaseInv
    <2>3. ScannedRows'
      BY <1>32 DEF TakeUpdate, TInv, RowInv, ScannedRows, RowIs, Stat, Syncing, CountsOK, SetsOK, PhaseInv
    <2>4. RowsFit'
      BY <1>32 DEF TakeUpdate, RowInv, RowsFit, Stat
    <2> QED
      BY <2>1, <2>2, <2>3, <2>4 DEF RowInv
  <1>33. ASSUME NEW p \in Paths, SkipDiverged(p) PROVE RowInv'
    <2>1. KnownRows'
      BY <1>33 DEF SkipDiverged, Diverged, Stat, TInv, RowInv, KnownRows, Awaited, Files, Reconciling, RowIs,
                   Syncing, SetsOK, PhaseInv
    <2>2. ScannedRows'
      BY <1>33 DEF SkipDiverged, Diverged, Stat, TInv, RowInv, ScannedRows, RowIs, Syncing, SetsOK, PhaseInv
    <2>3. RowsFit' /\ DownloadedRows'
      BY <1>33 DEF SkipDiverged, RowInv, RowsFit, DownloadedRows, Stat, RowIs, Syncing
    <2> QED
      BY <2>1, <2>2, <2>3 DEF RowInv
  <1>34. ASSUME NEW p \in Paths, AdoptMatching(p) PROVE RowInv'
    <2>1. RowsFit'
      BY <1>34 DEF AdoptMatching, Adopt, Diverged, Hash, HashIs, RecordRow, RemoteHash, Stat, TInv, RowInv,
                   RowsFit, BaselineOK, PhaseInv
    <2>2. DownloadedRows'
      BY <1>34 DEF AdoptMatching, Adopt, Diverged, Hash, HashIs, RecordRow, RemoteHash, Stat, TInv, RowInv,
                   DownloadedRows, RowIs, Syncing, BaselineOK, TreesOK, PhaseInv
    <2>3. KnownRows'
      BY <1>34 DEF AdoptMatching, Adopt, Diverged, Hash, HashIs, RecordRow, RemoteHash, Stat, TInv, RowInv,
                   KnownRows, Awaited, Files, Reconciling, RowIs, Syncing, BaselineOK, TreesOK, SetsOK, PhaseInv
    <2>4. ScannedRows'
      BY <1>34 DEF AdoptMatching, Adopt, Diverged, Hash, HashIs, RecordRow, RemoteHash, Stat, TInv, RowInv,
                   ScannedRows, RowIs, Syncing, BaselineOK, SetsOK, PhaseInv
    <2> QED
      BY <2>1, <2>2, <2>3, <2>4 DEF RowInv
  <1>35. ASSUME NEW p \in Paths, SkipStaleDelete(p) PROVE RowInv'
    <2>1. KnownRows'
      BY <1>35 DEF SkipStaleDelete, StaleDelete, TInv, RowInv, KnownRows, Awaited, Files, Reconciling, RowIs,
                   Stat, Syncing, SetsOK, PhaseInv
    <2>2. ScannedRows'
      BY <1>35 DEF SkipStaleDelete, StaleDelete, TInv, RowInv, ScannedRows, RowIs, Stat, Syncing, SetsOK,
                   PhaseInv
    <2>3. RowsFit' /\ DownloadedRows'
      BY <1>35 DEF SkipStaleDelete, RowInv, RowsFit, DownloadedRows, Stat, RowIs, Syncing
    <2> QED
      BY <2>1, <2>2, <2>3 DEF RowInv
  <1>36. ASSUME NEW p \in Paths, ApplyDelete(p) PROVE RowInv'
    <2>1. RowsFit'
      BY <1>36 DEF ApplyDelete, Losing, NoCall, RemoveLocal, StaleDelete, TInv, RowInv, RowsFit, Stat, DiskOK,
                   PhaseInv
    <2>2. DownloadedRows'
      BY <1>36 DEF ApplyDelete, Losing, NoCall, RemoveLocal, StaleDelete, TInv, RowInv, DownloadedRows, RowIs,
                   Stat, Syncing, DiskOK, CountsOK, PhaseInv
    <2>3. KnownRows'
      BY <1>36 DEF ApplyDelete, Losing, NoCall, RemoveLocal, StaleDelete, TInv, RowInv, KnownRows, Awaited,
                   Files, Reconciling, RowIs, Stat, Syncing, DiskOK, CountsOK, PhaseInv
    <2>4. ScannedRows'
      BY <1>36 DEF ApplyDelete, Losing, NoCall, RemoveLocal, StaleDelete, TInv, RowInv, ScannedRows, RowIs,
                   Stat, Syncing, DiskOK, CountsOK, PhaseInv
    <2> QED
      BY <2>1, <2>2, <2>3, <2>4 DEF RowInv
  <1>37. ASSUME ForgetLocal PROVE RowInv'
    <2>1. RowsFit'
      BY <1>37 DEF ForgetLocal, NoCall, RemoveRow, TInv, RowInv, RowsFit, Stat, BaselineOK, CallOK, PhaseInv
    <2>2. DownloadedRows'
      BY <1>37 DEF ForgetLocal, NoCall, RemoveRow, TInv, RowInv, DownloadedRows, RowIs, Stat, Syncing,
                   BaselineOK, TreesOK, CountsOK, CallOK, PhaseInv
    <2>3. KnownRows'
      BY <1>37 DEF ForgetLocal, NoCall, RemoveRow, TInv, RowInv, KnownRows, Awaited, Files, Reconciling, RowIs,
                   Stat, Syncing, BaselineOK, TreesOK, CountsOK, SetsOK, CallOK, PhaseInv
    <2>4. ScannedRows'
      BY <1>37 DEF ForgetLocal, NoCall, RemoveRow, TInv, RowInv, ScannedRows, RowIs, Stat, Syncing, BaselineOK,
                   CountsOK, SetsOK, CallOK, PhaseInv
    <2> QED
      BY <2>1, <2>2, <2>3, <2>4 DEF RowInv
  <1>38. ASSUME FinishUpdate PROVE RowInv'
    <2>1. DownloadedRows'
      BY <1>38 DEF FinishUpdate, Files, TInv, RowInv, DownloadedRows, RowIs, Stat, Syncing, CountsOK, Nothing,
                   PhaseInv
    <2>2. KnownRows'
      BY <1>38 DEF FinishUpdate, Files, TInv, RowInv, KnownRows, Awaited, Reconciling, RowIs, Stat, Syncing,
                   CountsOK, StoreOK, Nothing, PhaseInv
    <2>3. ScannedRows'
      BY <1>38 DEF FinishUpdate, Files, TInv, RowInv, ScannedRows, RowIs, Stat, Syncing, CountsOK, Nothing,
                   PhaseInv
    <2>4. RowsFit'
      BY <1>38 DEF FinishUpdate, RowInv, RowsFit, Stat
    <2> QED
      BY <2>1, <2>2, <2>3, <2>4 DEF RowInv
  <1>39. ASSUME PersistUpdates PROVE RowInv'
    <2>1. RowsFit'
      BY <1>39, StatIsSome DEF PersistUpdates, Persisted, Seeded, TInv, RowInv, RowsFit, Stat, BaselineOK,
                               PhaseInv, KnownRows, DownloadedRows, RowIs, Reconciling, Syncing
    <2>2. DownloadedRows'
      BY <1>39 DEF PersistUpdates, Persisted, Seeded, TInv, RowInv, DownloadedRows, RowIs, Stat, Syncing,
                   BaselineOK, TreesOK, CountsOK, PhaseInv
    <2>3. KnownRows'
      BY <1>39 DEF PersistUpdates, Persisted, Seeded, TInv, RowInv, KnownRows, Awaited, Files, Reconciling,
                   RowIs, Stat, Syncing, BaselineOK, TreesOK, CountsOK, PhaseInv
    <2>4. ScannedRows'
      BY <1>39 DEF PersistUpdates, Persisted, Seeded, TInv, RowInv, ScannedRows, RowIs, Stat, Syncing,
                   BaselineOK, CountsOK, PhaseInv
    <2> QED
      BY <2>1, <2>2, <2>3, <2>4 DEF RowInv
  <1>40. ASSUME Ends PROVE RowInv'
    <2>1. DownloadedRows'
      BY <1>40, StatIsSome DEF Ends, Down, NoCall, TInv, RowInv, DownloadedRows, RowIs, Stat, Syncing, TreesOK,
                               CountsOK, Nothing, PhaseInv
    <2>2. KnownRows'
      BY <1>40 DEF Ends, Down, NoCall, TInv, RowInv, KnownRows, Awaited, Files, Reconciling, RowIs, Stat,
                   Syncing, TreesOK, CountsOK, StoreOK, SetsOK, Nothing, PhaseInv
    <2>3. ScannedRows'
      BY <1>40 DEF Ends, Down, NoCall, TInv, RowInv, ScannedRows, RowIs, Stat, Syncing, TreesOK, CountsOK,
                   SetsOK, Nothing, PhaseInv
    <2>4. RowsFit'
      BY <1>40 DEF Ends, Down, RowInv, RowsFit, Stat
    <2> QED
      BY <2>1, <2>2, <2>3, <2>4 DEF RowInv
  <1>41. ASSUME \/ UploadResolved \/ DeleteResolved \/ FinishResolution \/ AbandonResolution \/ Poll
               \/ \E p \in Paths : KeepLocal(p) \/ RemotePut(p) \/ RemoteDelete(p)
       PROVE  RowInv'
    BY <1>41 DEF KeepLocal, ClearConflict, Move, RemotePut, RemoteDelete, UploadResolved, DeleteResolved,
                 Resolve, FinishResolution, AbandonResolution, Poll, RowInv, RowsFit, DownloadedRows, KnownRows,
                 ScannedRows, Stat, RowIs, Syncing, Awaited, Files, Reconciling
  <1>42. CASE UNCHANGED folderVars
    BY <1>42 DEF folderVars, RowInv, RowsFit, DownloadedRows, KnownRows, ScannedRows, Stat, RowIs, Syncing,
                 Awaited, Files, Reconciling
  <1> QED
    BY <1>1, <1>2, <1>3, <1>4, <1>5, <1>6, <1>7, <1>8, <1>9, <1>10, <1>11, <1>12, <1>13, <1>14, <1>15, <1>16,
       <1>17, <1>18, <1>19, <1>20, <1>21, <1>22, <1>23, <1>24, <1>25, <1>26, <1>27, <1>28, <1>29, <1>30, <1>31,
       <1>32, <1>33, <1>34, <1>35, <1>36, <1>37, <1>38, <1>39, <1>40, <1>41, <1>42
    DEF FolderNext, UserStep, OthersStep, ResolverStep, StartupStep, DownloadStep, SyncStep, UpdateStep,
        DownloadFails, UploadFails, Stop, Ends

\* Nothing is recorded at first.
LEMMA RowsStart == FolderInit => RowInv
  BY DEF FolderInit, RowInv, RowsFit, DownloadedRows, KnownRows, ScannedRows, Nothing

-------------------------------------------------------------------------------
(***************************************************************************)
(* A startup that nobody disturbs                                          *)
(***************************************************************************)

\* Both sides have the same bytes, or both have none.
Same(q) == IF remote[q] = None THEN disk[q] = None ELSE HashIs(q, remote[q].content)

\* The row is wrong about the file, and says that it is what the store has.
Excused(q) ==
    q \in misrecorded /\ baseline[q] # None /\ remote[q] # None /\ baseline[q].hash = remote[q].content

Settled(q) == (Same(q) \/ Excused(q)) /\ (disk[q] = None => remote[q] = None)

\* The file was written or removed, and the agent has not taken note of it.
InHand(q) == pc \in {"record", "removed"} /\ call.path = q

\* Nobody but the agent has written since the initial scan.
QuietFetch ==
    quiet /\ pc = "fetch" => \A q \in Paths :
        /\ local_state[q] = Stat(q)
        /\ loaded[q] # None => /\ baseline[q] # None /\ loaded[q].stamp = baseline[q].stamp
                               /\ loaded[q].hash \in {None, baseline[q].hash}

\* What the plan leaves alone is the same on both sides or is going to be uploaded.
QuietPlan ==
    quiet /\ Reconciling =>
        /\ snapshot = remote
        /\ \A q \in Paths :
            /\ InHand(q) \/ local_state[q] = Stat(q)
            /\ q \in preserve_local_files \/ remote[q] = None => suppressed_uploads[q] = None
            /\ remote[q] # None /\ q \in preserve_local_files => disk[q] # None
            /\ remote[q] # None /\ q \notin preserve_local_files /\ (q \in matching_remote_files \/ ~Awaited(q))
                  => disk[q] # None /\ Settled(q)
            /\ q \in remote_delete_wins_paths => remote[q] = None
            /\ pc = "removed" /\ call.path = q => disk[q] = None

QuietDownload ==
    quiet /\ pc \in {"install", "record"} =>
        /\ remote[call.path] # None /\ call.content = remote[call.path].content
        /\ call.hash = call.content
        /\ starting => call.path \notin preserve_local_files /\ call.path \notin matching_remote_files
        /\ pc = "record" => HashIs(call.path, call.content)

QuietScan ==
    quiet /\ pc = "scan" => \A q \in Paths :
        \/ local_state[q] = Stat(q) /\ Settled(q)
        \/ local_state[q] = None /\ disk[q] # None /\ suppressed_uploads[q] = None

\* What the first scan finds is to be uploaded; later scans find nothing.
QuietSync ==
    quiet /\ Syncing =>
        /\ starting /\ pc # "deleted"
        /\ \A q \in Paths : /\ current[q] = Stat(q)
                            /\ q \notin todo => Settled(q)
                            /\ q \in todo => disk[q] # None /\ suppressed_uploads[q] = None
        /\ pc = "uploaded" => remote[call.path] # None /\ HashIs(call.path, remote[call.path].content)
                              /\ call.hash = remote[call.path].content

\* After it only the poller notices the agent's own uploads.
QuietSteady ==
    quiet /\ (pc = "persist" \/ (~starting /\ pc # "down")) =>
        /\ \A q \in Paths : Settled(q) /\ (InHand(q) \/ local_state[q] = Stat(q))
        /\ \A i \in DOMAIN queue : queue[i].snapshot = remote
        /\ pc \in {"apply", "install", "record", "removed"} => snapshot = remote
        /\ pc = "applied" => remote_index = Files(remote)
        /\ pc = "removed" => disk[call.path] = None

QuietInv == QuietFetch /\ QuietPlan /\ QuietDownload /\ QuietScan /\ QuietSync /\ QuietSteady

\* The startup brings the two sides together, path by path.
LEMMA QuietKept ==
    ASSUME TInv, HeldInv, RowInv, QuietInv, [FolderNext]_folderVars
    PROVE  QuietInv'
  <1> USE DEF fileVars, storeVars, rowVars, copyVars, treeVars, planVars, threadVars, pollVars, counterVars, agentVars
  <1>1. ASSUME NEW p \in Paths, Write(p) PROVE QuietInv'
    <2>1. QuietFetch'
      BY <1>1, StampIsFresh DEF Write, BeingRecorded, Move, Stat, TInv, QuietInv, QuietFetch, DiskOK, PhaseInv
    <2>2. QuietPlan'
      BY <1>1, StampIsFresh DEF Write, BeingRecorded, Move, Stat, TInv, QuietInv, QuietPlan, Awaited, Excused,
                                Hash, HashIs, InHand, Reconciling, Same, Settled, DiskOK, PhaseInv
    <2>3. QuietDownload'
      BY <1>1, StampIsFresh DEF Write, BeingRecorded, Move, Stat, TInv, QuietInv, QuietDownload, Hash, HashIs,
                                DiskOK, PhaseInv
    <2>4. QuietScan'
      BY <1>1, StampIsFresh DEF Write, BeingRecorded, Move, Stat, TInv, QuietInv, QuietScan, Excused, Hash,
                                HashIs, Same, Settled, DiskOK, PhaseInv
    <2>5. QuietSync'
      BY <1>1, StampIsFresh DEF Write, BeingRecorded, Move, Stat, TInv, QuietInv, QuietSync, Excused, Hash,
                                HashIs, Same, Settled, Syncing, DiskOK, PhaseInv
    <2>6. QuietSteady'
      BY <1>1, StampIsFresh DEF Write, BeingRecorded, Move, Stat, TInv, QuietInv, QuietSteady, Excused, Files,
                                Hash, HashIs, InHand, Same, Settled, DiskOK, PhaseInv
    <2> QED
      BY <2>1, <2>2, <2>3, <2>4, <2>5, <2>6 DEF QuietInv
  <1>2. ASSUME NEW p \in Paths, Touch(p) PROVE QuietInv'
    <2>1. QuietFetch'
      BY <1>2, StampIsFresh DEF Touch, Move, Stat, TInv, QuietInv, QuietFetch, DiskOK, PhaseInv
    <2>2. QuietPlan'
      BY <1>2, StampIsFresh DEF Touch, Move, Stat, TInv, QuietInv, QuietPlan, Awaited, Excused, Hash, HashIs,
                                InHand, Reconciling, Same, Settled, DiskOK, PhaseInv
    <2>3. QuietDownload'
      BY <1>2, StampIsFresh DEF Touch, Move, Stat, TInv, QuietInv, QuietDownload, Hash, HashIs, DiskOK, PhaseInv
    <2>4. QuietScan'
      BY <1>2, StampIsFresh DEF Touch, Move, Stat, TInv, QuietInv, QuietScan, Excused, Hash, HashIs, Same,
                                Settled, DiskOK, PhaseInv
    <2>5. QuietSync'
      BY <1>2, StampIsFresh DEF Touch, Move, Stat, TInv, QuietInv, QuietSync, Excused, Hash, HashIs, Same,
                                Settled, Syncing, DiskOK, PhaseInv
    <2>6. QuietSteady'
      BY <1>2, StampIsFresh DEF Touch, Move, Stat, TInv, QuietInv, QuietSteady, Excused, Files, Hash, HashIs,
                                InHand, Same, Settled, DiskOK, PhaseInv
    <2> QED
      BY <2>1, <2>2, <2>3, <2>4, <2>5, <2>6 DEF QuietInv
  <1>3. ASSUME NEW p \in Paths, Delete(p) PROVE QuietInv'
    <2>1. QuietFetch'
      BY <1>3 DEF Delete, Move, TInv, QuietInv, QuietFetch, Stat, DiskOK, PhaseInv
    <2>2. QuietPlan'
      BY <1>3 DEF Delete, Move, TInv, QuietInv, QuietPlan, Awaited, Excused, Hash, HashIs, InHand, Reconciling,
                  Same, Settled, Stat, DiskOK, PhaseInv
    <2>3. QuietDownload'
      BY <1>3 DEF Delete, Move, TInv, QuietInv, QuietDownload, Hash, HashIs, DiskOK, PhaseInv
    <2>4. QuietScan'
      BY <1>3 DEF Delete, Move, TInv, QuietInv, QuietScan, Excused, Hash, HashIs, Same, Settled, Stat, DiskOK,
                  PhaseInv
    <2>5. QuietSync'
      BY <1>3 DEF Delete, Move, TInv, QuietInv, QuietSync, Excused, Hash, HashIs, Same, Settled, Stat, Syncing,
                  DiskOK, PhaseInv
    <2>6. QuietSteady'
      BY <1>3 DEF Delete, Move, TInv, QuietInv, QuietSteady, Excused, Files, Hash, HashIs, InHand, Same,
                  Settled, Stat, DiskOK, PhaseInv
    <2> QED
      BY <2>1, <2>2, <2>3, <2>4, <2>5, <2>6 DEF QuietInv
  <1>4. ASSUME NEW p \in Paths, KeepLocal(p) PROVE QuietInv'
    <2>1. QuietFetch'
      BY <1>4 DEF KeepLocal, ClearConflict, Move, NoResolution, TInv, QuietInv, QuietFetch, Stat, PhaseInv
    <2>2. QuietPlan'
      BY <1>4 DEF KeepLocal, ClearConflict, Move, NoResolution, TInv, QuietInv, QuietPlan, Awaited, Excused,
                  Hash, HashIs, InHand, Reconciling, Same, Settled, Stat, PhaseInv
    <2>3. QuietDownload'
      BY <1>4 DEF KeepLocal, ClearConflict, Move, NoResolution, TInv, QuietInv, QuietDownload, Hash, HashIs,
                  PhaseInv
    <2>4. QuietScan'
      BY <1>4 DEF KeepLocal, ClearConflict, Move, NoResolution, TInv, QuietInv, QuietScan, Excused, Hash,
                  HashIs, Same, Settled, Stat, PhaseInv
    <2>5. QuietSync'
      BY <1>4 DEF KeepLocal, ClearConflict, Move, NoResolution, TInv, QuietInv, QuietSync, Excused, Hash,
                  HashIs, Same, Settled, Stat, Syncing, PhaseInv
    <2>6. QuietSteady'
      BY <1>4 DEF KeepLocal, ClearConflict, Move, NoResolution, TInv, QuietInv, QuietSteady, Excused, Files,
                  Hash, HashIs, InHand, Same, Settled, Stat, PhaseInv
    <2> QED
      BY <2>1, <2>2, <2>3, <2>4, <2>5, <2>6 DEF QuietInv
  <1>5. ASSUME NEW p \in Paths, KeepRemote(p) PROVE QuietInv'
    <2>1. QuietFetch'
      BY <1>5 DEF KeepRemote, Move, NoResolution, TInv, QuietInv, QuietFetch, Stat, DiskOK, PhaseInv
    <2>2. QuietPlan'
      BY <1>5 DEF KeepRemote, Move, NoResolution, TInv, QuietInv, QuietPlan, Awaited, Excused, Hash, HashIs,
                  InHand, Reconciling, Same, Settled, Stat, DiskOK, PhaseInv
    <2>3. QuietDownload'
      BY <1>5 DEF KeepRemote, Move, NoResolution, TInv, QuietInv, QuietDownload, Hash, HashIs, DiskOK, PhaseInv
    <2>4. QuietScan'
      BY <1>5 DEF KeepRemote, Move, NoResolution, TInv, QuietInv, QuietScan, Excused, Hash, HashIs, Same,
                  Settled, Stat, DiskOK, PhaseInv
    <2>5. QuietSync'
      BY <1>5 DEF KeepRemote, Move, NoResolution, TInv, QuietInv, QuietSync, Excused, Hash, HashIs, Same,
                  Settled, Stat, Syncing, DiskOK, PhaseInv
    <2>6. QuietSteady'
      BY <1>5 DEF KeepRemote, Move, NoResolution, TInv, QuietInv, QuietSteady, Excused, Files, Hash, HashIs,
                  InHand, Same, Settled, Stat, DiskOK, PhaseInv
    <2> QED
      BY <2>1, <2>2, <2>3, <2>4, <2>5, <2>6 DEF QuietInv
  <1>6. ASSUME NEW p \in Paths, RemotePut(p) PROVE QuietInv'
    <2>1. QuietFetch'
      BY <1>6, VersionIsFresh DEF RemotePut, Move, TInv, QuietInv, QuietFetch, Stat, PhaseInv
    <2>2. QuietPlan'
      BY <1>6, VersionIsFresh DEF RemotePut, Move, TInv, QuietInv, QuietPlan, Awaited, Excused, Hash, HashIs,
                                  InHand, Reconciling, Same, Settled, Stat, StoreOK, PhaseInv
    <2>3. QuietDownload'
      BY <1>6, VersionIsFresh DEF RemotePut, Move, TInv, QuietInv, QuietDownload, Hash, HashIs, StoreOK,
                                  PhaseInv
    <2>4. QuietScan'
      BY <1>6, VersionIsFresh DEF RemotePut, Move, TInv, QuietInv, QuietScan, Excused, Hash, HashIs, Same,
                                  Settled, Stat, StoreOK, PhaseInv
    <2>5. QuietSync'
      BY <1>6, VersionIsFresh DEF RemotePut, Move, TInv, QuietInv, QuietSync, Excused, Hash, HashIs, Same,
                                  Settled, Stat, Syncing, StoreOK, PhaseInv
    <2>6. QuietSteady'
      BY <1>6, VersionIsFresh DEF RemotePut, Move, TInv, QuietInv, QuietSteady, Excused, Files, Hash, HashIs,
                                  InHand, Same, Settled, Stat, StoreOK, PhaseInv
    <2> QED
      BY <2>1, <2>2, <2>3, <2>4, <2>5, <2>6 DEF QuietInv
  <1>7. ASSUME NEW p \in Paths, RemoteDelete(p) PROVE QuietInv'
    <2>1. QuietFetch'
      BY <1>7 DEF RemoteDelete, Move, TInv, QuietInv, QuietFetch, Stat, PhaseInv
    <2>2. QuietPlan'
      BY <1>7 DEF RemoteDelete, Move, TInv, QuietInv, QuietPlan, Awaited, Excused, Hash, HashIs, InHand,
                  Reconciling, Same, Settled, Stat, StoreOK, PhaseInv
    <2>3. QuietDownload'
      BY <1>7 DEF RemoteDelete, Move, TInv, QuietInv, QuietDownload, Hash, HashIs, StoreOK, PhaseInv
    <2>4. QuietScan'
      BY <1>7 DEF RemoteDelete, Move, TInv, QuietInv, QuietScan, Excused, Hash, HashIs, Same, Settled, Stat,
                  StoreOK, PhaseInv
    <2>5. QuietSync'
      BY <1>7 DEF RemoteDelete, Move, TInv, QuietInv, QuietSync, Excused, Hash, HashIs, Same, Settled, Stat,
                  Syncing, StoreOK, PhaseInv
    <2>6. QuietSteady'
      BY <1>7 DEF RemoteDelete, Move, TInv, QuietInv, QuietSteady, Excused, Files, Hash, HashIs, InHand, Same,
                  Settled, Stat, StoreOK, PhaseInv
    <2> QED
      BY <2>1, <2>2, <2>3, <2>4, <2>5, <2>6 DEF QuietInv
  <1>8. ASSUME ApplyRemoteCopy PROVE QuietInv'
    <2>0. /\ resolver = [path |-> resolver.path, step |-> resolver.step, content |-> resolver.content]
          /\ resolver.path \in Paths /\ resolver.content \in Contents
      BY <1>8, ResolverAtWork DEF ApplyRemoteCopy, Resolve, Steps
    <2>1. QuietFetch'
      BY <1>8, StampIsFresh, <2>0 DEF ApplyRemoteCopy, Resolve, Stat, TInv, QuietInv, QuietFetch, DiskOK,
                                      PhaseInv
    <2>2. QuietPlan'
      BY <1>8, StampIsFresh, <2>0 DEF ApplyRemoteCopy, Resolve, Stat, TInv, QuietInv, QuietPlan, Awaited,
                                      Excused, Hash, HashIs, InHand, Reconciling, Same, Settled, DiskOK,
                                      PhaseInv
    <2>3. QuietDownload'
      BY <1>8, StampIsFresh, <2>0 DEF ApplyRemoteCopy, Resolve, Stat, TInv, QuietInv, QuietDownload, Hash,
                                      HashIs, DiskOK, PhaseInv
    <2>4. QuietScan'
      BY <1>8, StampIsFresh, <2>0 DEF ApplyRemoteCopy, Resolve, Stat, TInv, QuietInv, QuietScan, Excused, Hash,
                                      HashIs, Same, Settled, DiskOK, PhaseInv
    <2>5. QuietSync'
      BY <1>8, StampIsFresh, <2>0 DEF ApplyRemoteCopy, Resolve, Stat, TInv, QuietInv, QuietSync, Excused, Hash,
                                      HashIs, Same, Settled, Syncing, DiskOK, PhaseInv
    <2>6. QuietSteady'
      BY <1>8, StampIsFresh, <2>0 DEF ApplyRemoteCopy, Resolve, Stat, TInv, QuietInv, QuietSteady, Excused,
                                      Files, Hash, HashIs, InHand, Same, Settled, DiskOK, PhaseInv
    <2> QED
      BY <2>1, <2>2, <2>3, <2>4, <2>5, <2>6 DEF QuietInv
  <1>9. ASSUME UploadResolved PROVE QuietInv'
    <2>0. /\ resolver = [path |-> resolver.path, step |-> resolver.step, content |-> resolver.content]
          /\ resolver.path \in Paths /\ disk[resolver.path].content \in Contents
      BY <1>9, ResolverAtWork, StatIsSome DEF UploadResolved, Steps
    <2>1. QuietFetch'
      BY <1>9, VersionIsFresh, <2>0 DEF UploadResolved, Hash, TInv, QuietInv, QuietFetch, Stat, PhaseInv
    <2>2. QuietPlan'
      BY <1>9, VersionIsFresh, <2>0 DEF UploadResolved, Hash, TInv, QuietInv, QuietPlan, Awaited, Excused,
                                        HashIs, InHand, Reconciling, Same, Settled, Stat, StoreOK, PhaseInv
    <2>3. QuietDownload'
      BY <1>9, VersionIsFresh, <2>0 DEF UploadResolved, Hash, TInv, QuietInv, QuietDownload, HashIs, StoreOK,
                                        PhaseInv
    <2>4. QuietScan'
      BY <1>9, VersionIsFresh, <2>0 DEF UploadResolved, Hash, TInv, QuietInv, QuietScan, Excused, HashIs, Same,
                                        Settled, Stat, StoreOK, PhaseInv
    <2>5. QuietSync'
      BY <1>9, VersionIsFresh, <2>0 DEF UploadResolved, Hash, TInv, QuietInv, QuietSync, Excused, HashIs, Same,
                                        Settled, Stat, Syncing, StoreOK, PhaseInv
    <2>6. QuietSteady'
      BY <1>9, VersionIsFresh, <2>0 DEF UploadResolved, Hash, TInv, QuietInv, QuietSteady, Excused, Files,
                                        HashIs, InHand, Same, Settled, Stat, StoreOK, PhaseInv
    <2> QED
      BY <2>1, <2>2, <2>3, <2>4, <2>5, <2>6 DEF QuietInv
  <1>10. ASSUME RecordResolved PROVE QuietInv'
    <2>0. /\ resolver = [path |-> resolver.path, step |-> resolver.step, content |-> resolver.content]
          /\ resolver.path \in Paths /\ resolver.content \in Contents
      BY <1>10, ResolverAtWork DEF RecordResolved, Resolve, Steps
    <2>1. QuietFetch'
      BY <1>10, <2>0 DEF RecordResolved, Hash, HashIs, RecordRow, Resolve, Stat, TInv, QuietInv, QuietFetch,
                         BaselineOK, PhaseInv
    <2>2. QuietPlan'
      BY <1>10, <2>0 DEF RecordResolved, Hash, HashIs, RecordRow, Resolve, Stat, TInv, QuietInv, QuietPlan,
                         Awaited, Excused, InHand, Reconciling, Same, Settled, BaselineOK, PhaseInv
    <2>3. QuietDownload'
      BY <1>10, <2>0 DEF RecordResolved, Hash, HashIs, RecordRow, Resolve, Stat, TInv, QuietInv, QuietDownload,
                         PhaseInv
    <2>4. QuietScan'
      BY <1>10, <2>0 DEF RecordResolved, Hash, HashIs, RecordRow, Resolve, Stat, TInv, QuietInv, QuietScan,
                         Excused, Same, Settled, BaselineOK, PhaseInv
    <2>5. QuietSync'
      BY <1>10, <2>0 DEF RecordResolved, Hash, HashIs, RecordRow, Resolve, Stat, TInv, QuietInv, QuietSync,
                         Excused, Same, Settled, Syncing, BaselineOK, PhaseInv
    <2>6. QuietSteady'
      BY <1>10, <2>0 DEF RecordResolved, Hash, HashIs, RecordRow, Resolve, Stat, TInv, QuietInv, QuietSteady,
                         Excused, Files, InHand, Same, Settled, BaselineOK, PhaseInv
    <2> QED
      BY <2>1, <2>2, <2>3, <2>4, <2>5, <2>6 DEF QuietInv
  <1>11. ASSUME RemoveResolved PROVE QuietInv'
    <2>0. /\ resolver = [path |-> resolver.path, step |-> resolver.step, content |-> resolver.content]
          /\ resolver.path \in Paths
      BY <1>11, ResolverAtWork DEF RemoveResolved, Resolve, Steps
    <2>1. QuietFetch'
      BY <1>11, <2>0 DEF RemoveResolved, Resolve, TInv, QuietInv, QuietFetch, Stat, DiskOK, PhaseInv
    <2>2. QuietPlan'
      BY <1>11, <2>0 DEF RemoveResolved, Resolve, TInv, QuietInv, QuietPlan, Awaited, Excused, Hash, HashIs,
                         InHand, Reconciling, Same, Settled, Stat, DiskOK, PhaseInv
    <2>3. QuietDownload'
      BY <1>11, <2>0 DEF RemoveResolved, Resolve, TInv, QuietInv, QuietDownload, Hash, HashIs, DiskOK, PhaseInv
    <2>4. QuietScan'
      BY <1>11, <2>0 DEF RemoveResolved, Resolve, TInv, QuietInv, QuietScan, Excused, Hash, HashIs, Same,
                         Settled, Stat, DiskOK, PhaseInv
    <2>5. QuietSync'
      BY <1>11, <2>0 DEF RemoveResolved, Resolve, TInv, QuietInv, QuietSync, Excused, Hash, HashIs, Same,
                         Settled, Stat, Syncing, DiskOK, PhaseInv
    <2>6. QuietSteady'
      BY <1>11, <2>0 DEF RemoveResolved, Resolve, TInv, QuietInv, QuietSteady, Excused, Files, Hash, HashIs,
                         InHand, Same, Settled, Stat, DiskOK, PhaseInv
    <2> QED
      BY <2>1, <2>2, <2>3, <2>4, <2>5, <2>6 DEF QuietInv
  <1>12. ASSUME DeleteResolved PROVE QuietInv'
    <2>0. /\ resolver = [path |-> resolver.path, step |-> resolver.step, content |-> resolver.content]
          /\ resolver.path \in Paths
      BY <1>12, ResolverAtWork DEF DeleteResolved, Resolve, Steps
    <2>1. QuietFetch'
      BY <1>12, <2>0 DEF DeleteResolved, Resolve, TInv, QuietInv, QuietFetch, Stat, PhaseInv
    <2>2. QuietPlan'
      BY <1>12, <2>0 DEF DeleteResolved, Resolve, TInv, QuietInv, QuietPlan, Awaited, Excused, Hash, HashIs,
                         InHand, Reconciling, Same, Settled, Stat, StoreOK, PhaseInv
    <2>3. QuietDownload'
      BY <1>12, <2>0 DEF DeleteResolved, Resolve, TInv, QuietInv, QuietDownload, Hash, HashIs, StoreOK, PhaseInv
    <2>4. QuietScan'
      BY <1>12, <2>0 DEF DeleteResolved, Resolve, TInv, QuietInv, QuietScan, Excused, Hash, HashIs, Same,
                         Settled, Stat, StoreOK, PhaseInv
    <2>5. QuietSync'
      BY <1>12, <2>0 DEF DeleteResolved, Resolve, TInv, QuietInv, QuietSync, Excused, Hash, HashIs, Same,
                         Settled, Stat, Syncing, StoreOK, PhaseInv
    <2>6. QuietSteady'
      BY <1>12, <2>0 DEF DeleteResolved, Resolve, TInv, QuietInv, QuietSteady, Excused, Files, Hash, HashIs,
                         InHand, Same, Settled, Stat, StoreOK, PhaseInv
    <2> QED
      BY <2>1, <2>2, <2>3, <2>4, <2>5, <2>6 DEF QuietInv
  <1>13. ASSUME UnrecordResolved PROVE QuietInv'
    <2>0. /\ resolver = [path |-> resolver.path, step |-> resolver.step, content |-> resolver.content]
          /\ resolver.path \in Paths
      BY <1>13, ResolverAtWork DEF UnrecordResolved, Resolve, Steps
    <2>1. QuietFetch'
      BY <1>13, <2>0 DEF UnrecordResolved, RemoveRow, Resolve, TInv, QuietInv, QuietFetch, Stat, BaselineOK,
                         PhaseInv
    <2>2. QuietPlan'
      BY <1>13, <2>0 DEF UnrecordResolved, RemoveRow, Resolve, TInv, QuietInv, QuietPlan, Awaited, Excused,
                         Hash, HashIs, InHand, Reconciling, Same, Settled, Stat, BaselineOK, PhaseInv
    <2>3. QuietDownload'
      BY <1>13, <2>0 DEF UnrecordResolved, RemoveRow, Resolve, TInv, QuietInv, QuietDownload, Hash, HashIs,
                         PhaseInv
    <2>4. QuietScan'
      BY <1>13, <2>0 DEF UnrecordResolved, RemoveRow, Resolve, TInv, QuietInv, QuietScan, Excused, Hash, HashIs,
                         Same, Settled, Stat, BaselineOK, PhaseInv
    <2>5. QuietSync'
      BY <1>13, <2>0 DEF UnrecordResolved, RemoveRow, Resolve, TInv, QuietInv, QuietSync, Excused, Hash, HashIs,
                         Same, Settled, Stat, Syncing, BaselineOK, PhaseInv
    <2>6. QuietSteady'
      BY <1>13, <2>0 DEF UnrecordResolved, RemoveRow, Resolve, TInv, QuietInv, QuietSteady, Excused, Files,
                         Hash, HashIs, InHand, Same, Settled, Stat, BaselineOK, PhaseInv
    <2> QED
      BY <2>1, <2>2, <2>3, <2>4, <2>5, <2>6 DEF QuietInv
  <1>14. ASSUME FinishResolution PROVE QuietInv'
    <2>0. /\ resolver = [path |-> resolver.path, step |-> resolver.step, content |-> resolver.content]
          /\ resolver.path \in Paths
      BY <1>14, ResolverAtWork DEF FinishResolution, Steps
    <2>1. QuietFetch'
      BY <1>14, <2>0 DEF FinishResolution, ClearConflict, NoResolution, TInv, QuietInv, QuietFetch, Stat,
                         PhaseInv
    <2>2. QuietPlan'
      BY <1>14, <2>0 DEF FinishResolution, ClearConflict, NoResolution, TInv, QuietInv, QuietPlan, Awaited,
                         Excused, Hash, HashIs, InHand, Reconciling, Same, Settled, Stat, PhaseInv
    <2>3. QuietDownload'
      BY <1>14, <2>0 DEF FinishResolution, ClearConflict, NoResolution, TInv, QuietInv, QuietDownload, Hash,
                         HashIs, PhaseInv
    <2>4. QuietScan'
      BY <1>14, <2>0 DEF FinishResolution, ClearConflict, NoResolution, TInv, QuietInv, QuietScan, Excused,
                         Hash, HashIs, Same, Settled, Stat, PhaseInv
    <2>5. QuietSync'
      BY <1>14, <2>0 DEF FinishResolution, ClearConflict, NoResolution, TInv, QuietInv, QuietSync, Excused,
                         Hash, HashIs, Same, Settled, Stat, Syncing, PhaseInv
    <2>6. QuietSteady'
      BY <1>14, <2>0 DEF FinishResolution, ClearConflict, NoResolution, TInv, QuietInv, QuietSteady, Excused,
                         Files, Hash, HashIs, InHand, Same, Settled, Stat, PhaseInv
    <2> QED
      BY <2>1, <2>2, <2>3, <2>4, <2>5, <2>6 DEF QuietInv
  <1>15. ASSUME AbandonResolution PROVE QuietInv'
    <2>1. QuietFetch'
      BY <1>15 DEF AbandonResolution, NoResolution, TInv, QuietInv, QuietFetch, Stat, PhaseInv
    <2>2. QuietPlan'
      BY <1>15 DEF AbandonResolution, NoResolution, TInv, QuietInv, QuietPlan, Awaited, Excused, Hash, HashIs,
                   InHand, Reconciling, Same, Settled, Stat, PhaseInv
    <2>3. QuietDownload'
      BY <1>15 DEF AbandonResolution, NoResolution, TInv, QuietInv, QuietDownload, Hash, HashIs, PhaseInv
    <2>4. QuietScan'
      BY <1>15 DEF AbandonResolution, NoResolution, TInv, QuietInv, QuietScan, Excused, Hash, HashIs, Same,
                   Settled, Stat, PhaseInv
    <2>5. QuietSync'
      BY <1>15 DEF AbandonResolution, NoResolution, TInv, QuietInv, QuietSync, Excused, Hash, HashIs, Same,
                   Settled, Stat, Syncing, PhaseInv
    <2>6. QuietSteady'
      BY <1>15 DEF AbandonResolution, NoResolution, TInv, QuietInv, QuietSteady, Excused, Files, Hash, HashIs,
                   InHand, Same, Settled, Stat, PhaseInv
    <2> QED
      BY <2>1, <2>2, <2>3, <2>4, <2>5, <2>6 DEF QuietInv
  <1>16. ASSUME Start PROVE QuietInv'
    <2>1. QuietFetch'
      BY <1>16 DEF Start, Scan, Stat, TInv, QuietInv, QuietFetch, BaselineOK, LoadedOK, TreesOK, CountsOK,
                   Nothing, PhaseInv, Row
    <2>2. QuietPlan'
      BY <1>16 DEF Start, Scan, Stat, TInv, QuietInv, QuietPlan, Awaited, Excused, Hash, HashIs, InHand,
                   Reconciling, Same, Settled, BaselineOK, TreesOK, CountsOK, Nothing, PhaseInv
    <2>3. QuietDownload'
      BY <1>16 DEF Start, Scan, Stat, TInv, QuietInv, QuietDownload, Hash, HashIs, CountsOK, Nothing, PhaseInv
    <2>4. QuietScan'
      BY <1>16 DEF Start, Scan, Stat, TInv, QuietInv, QuietScan, Excused, Hash, HashIs, Same, Settled,
                   BaselineOK, TreesOK, CountsOK, Nothing, PhaseInv
    <2>5. QuietSync'
      BY <1>16 DEF Start, Scan, Stat, TInv, QuietInv, QuietSync, Excused, Hash, HashIs, Same, Settled, Syncing,
                   BaselineOK, CountsOK, Nothing, PhaseInv
    <2>6. QuietSteady'
      BY <1>16 DEF Start, Scan, Stat, TInv, QuietInv, QuietSteady, Excused, Files, Hash, HashIs, InHand, Same,
                   Settled, BaselineOK, TreesOK, CountsOK, Nothing, PhaseInv
    <2> QED
      BY <2>1, <2>2, <2>3, <2>4, <2>5, <2>6 DEF QuietInv
  <1>17. ASSUME Reconcile PROVE QuietInv'
    <2>1. QuietFetch'
      BY <1>17 DEF Reconcile, BaselineHash, Files, Hash, HashIs, MatchingRemoteFiles, PreserveLocalFiles,
                   RemoteDeleteWinsPaths, StartupConflicts, Unchanged, TInv, QuietInv, QuietFetch, Stat,
                   LoadedOK, CountsOK, Nothing, PhaseInv
    <2>2. QuietPlan'
      <3> DEFINE preserve == PreserveLocalFiles(remote)
                 matching == MatchingRemoteFiles(remote)
                 wins == RemoteDeleteWinsPaths(remote)
      <3>1. /\ pc' = "repair" /\ snapshot' = remote /\ preserve_local_files' = preserve
            /\ matching_remote_files' = matching /\ remote_delete_wins_paths' = wins
            /\ UNCHANGED <<disk, remote, baseline, misrecorded, local_state, suppressed_uploads, quiet, starting>>
        BY <1>17 DEF Reconcile
      <3>2. pc = "fetch" /\ starting /\ suppressed_uploads = Nothing
        BY <1>17 DEF Reconcile, TInv, PhaseInv
      <3> SUFFICES ASSUME quiet PROVE QuietPlan'
        BY <3>1 DEF QuietPlan
      <3>3. \A q \in Paths : local_state[q] = Stat(q)
        BY <3>2 DEF QuietInv, QuietFetch
      <3>4. \A q \in Paths : q \in preserve => disk[q] # None
        BY <3>3 DEF PreserveLocalFiles, Files, Stat
      <3>5. \A q \in Paths : q \in wins => remote[q] = None
        BY DEF RemoteDeleteWinsPaths, Files
      <3>6. ASSUME NEW q \in Paths, q \in matching PROVE disk[q] # None /\ Settled(q)
        <4>1. disk[q] # None /\ remote[q] # None
          BY <3>3, <3>6 DEF MatchingRemoteFiles, Files, Stat
        <4>2. CASE HashIs(q, remote[q].content)
          BY <4>1, <4>2 DEF Settled, Same
        <4>3. CASE Unchanged(q) /\ BaselineHash(q) = remote[q].content
          <5>1. remote[q].content # None
            BY <4>1, NoneAssumption DEF TInv, StoreOK, RemoteFile
          <5>2. loaded[q] # None /\ loaded[q].stamp = Stat(q) /\ loaded[q].hash = remote[q].content
            BY <3>3, <4>3 DEF Unchanged, BaselineHash
          <5>3. baseline[q] # None /\ baseline[q].stamp = Stat(q) /\ baseline[q].hash = remote[q].content
            BY <3>2, <5>1, <5>2 DEF QuietInv, QuietFetch
          <5>4. q \in misrecorded \/ baseline[q].hash = disk[q].content
            BY <4>1, <5>1, <5>3 DEF RowInv, RowsFit
          <5> QED
            BY <4>1, <5>3, <5>4 DEF Settled, Same, Excused, HashIs, Hash
        <4> QED
          BY <3>6, <4>2, <4>3 DEF MatchingRemoteFiles
      <3>7. \A q \in Paths : Settled(q)' = Settled(q) /\ Stat(q)' = Stat(q)
        BY <3>1 DEF Settled, Same, Excused, HashIs, Hash, Stat
      <3> HIDE DEF preserve, matching, wins
      <3> QED
        BY <3>1, <3>2, <3>3, <3>4, <3>5, <3>6, <3>7 DEF QuietPlan, Awaited, Nothing
    <2>3. QuietDownload'
      BY <1>17 DEF Reconcile, BaselineHash, Files, Hash, HashIs, MatchingRemoteFiles, PreserveLocalFiles,
                   RemoteDeleteWinsPaths, StartupConflicts, Unchanged, TInv, QuietInv, QuietDownload, CountsOK,
                   Nothing, PhaseInv
    <2>4. QuietScan'
      BY <1>17 DEF Reconcile, BaselineHash, Files, Hash, HashIs, MatchingRemoteFiles, PreserveLocalFiles,
                   RemoteDeleteWinsPaths, StartupConflicts, Unchanged, TInv, QuietInv, QuietScan, Excused, Same,
                   Settled, Stat, CountsOK, Nothing, PhaseInv
    <2>5. QuietSync'
      BY <1>17 DEF Reconcile, BaselineHash, Files, Hash, HashIs, MatchingRemoteFiles, PreserveLocalFiles,
                   RemoteDeleteWinsPaths, StartupConflicts, Unchanged, TInv, QuietInv, QuietSync, Excused, Same,
                   Settled, Stat, Syncing, CountsOK, SetsOK, Nothing, PhaseInv
    <2>6. QuietSteady'
      BY <1>17 DEF Reconcile, BaselineHash, Files, Hash, HashIs, MatchingRemoteFiles, PreserveLocalFiles,
                   RemoteDeleteWinsPaths, StartupConflicts, Unchanged, TInv, QuietInv, QuietSteady, Excused,
                   InHand, Same, Settled, Stat, CountsOK, StoreOK, Nothing, PhaseInv
    <2> QED
      BY <2>1, <2>2, <2>3, <2>4, <2>5, <2>6 DEF QuietInv
  <1>18. ASSUME NEW p \in Paths, RepairRow(p) PROVE QuietInv'
    <2>1. QuietFetch'
      BY <1>18 DEF RepairRow, Hash, HashIs, RecordRow, RemoteHash, TInv, QuietInv, QuietFetch, Stat, BaselineOK,
                   PhaseInv
    <2>2. QuietPlan'
      <3> SUFFICES ASSUME quiet PROVE QuietPlan'
        BY <1>18 DEF RepairRow, QuietPlan
      <3>1. /\ pc = "repair" /\ Reconciling /\ snapshot = remote /\ p \in matching_remote_files /\ remote[p] # None
            /\ pc' = pc /\ Reconciling'
        BY <1>18 DEF RepairRow, TInv, PhaseInv, QuietInv, QuietPlan, Reconciling, Files
      <3>2. /\ baseline'[p] = [stamp |-> local_state[p], hash |-> remote[p].content]
            /\ HashIs(p, remote[p].content) \/ p \in misrecorded'
            /\ \A q \in Paths \ {p} : baseline'[q] = baseline[q] /\ (q \in misrecorded' <=> q \in misrecorded)
        BY <1>18, <3>1 DEF RepairRow, RecordRow, RemoteHash, TInv, BaselineOK
      <3>3. baseline'[p] # None
        BY <1>18, <3>1, <3>2, NoneAssumption
        DEF RepairRow, TInv, PhaseInv, SetsOK, Files, TreesOK, StoreOK, RemoteFile, Row
      <3>4. ASSUME NEW q \in Paths, Settled(q) PROVE Settled(q)'
        BY <1>18, <3>1, <3>2, <3>3, <3>4 DEF RepairRow, Settled, Same, Excused, HashIs, Hash
      <3> QED
        BY <1>18, <3>1, <3>4 DEF RepairRow, QuietInv, QuietPlan, InHand, Awaited, Stat
    <2>3. QuietScan'
      BY <1>18 DEF RepairRow, Hash, HashIs, RecordRow, RemoteHash, TInv, QuietInv, QuietScan, Excused, Same,
                   Settled, Stat, BaselineOK, PhaseInv
    <2>4. QuietSync'
      BY <1>18 DEF RepairRow, Hash, HashIs, RecordRow, RemoteHash, TInv, QuietInv, QuietSync, Excused, Same,
                   Settled, Stat, Syncing, BaselineOK, SetsOK, PhaseInv
    <2>5. QuietSteady'
      BY <1>18 DEF RepairRow, Hash, HashIs, RecordRow, RemoteHash, TInv, QuietInv, QuietSteady, Excused, Files,
                   InHand, Same, Settled, Stat, BaselineOK, PhaseInv
    <2>6. QuietDownload'
      BY <1>18 DEF RepairRow, RecordRow, QuietInv, QuietDownload, Hash, HashIs
    <2> QED
      BY <2>1, <2>2, <2>3, <2>4, <2>5, <2>6 DEF QuietInv
  <1>19. ASSUME BeginCopies PROVE QuietInv'
    <2>1. QuietFetch'
      BY <1>19 DEF BeginCopies, TInv, QuietInv, QuietFetch, Stat, CountsOK, PhaseInv
    <2>2. QuietPlan'
      BY <1>19 DEF BeginCopies, TInv, QuietInv, QuietPlan, Awaited, Excused, Hash, HashIs, InHand, Reconciling,
                   Same, Settled, Stat, CountsOK, SetsOK, PhaseInv
    <2>3. QuietDownload'
      BY <1>19 DEF BeginCopies, TInv, QuietInv, QuietDownload, Hash, HashIs, CountsOK, PhaseInv
    <2>4. QuietScan'
      BY <1>19 DEF BeginCopies, TInv, QuietInv, QuietScan, Excused, Hash, HashIs, Same, Settled, Stat, CountsOK,
                   PhaseInv
    <2>5. QuietSync'
      BY <1>19 DEF BeginCopies, TInv, QuietInv, QuietSync, Excused, Hash, HashIs, Same, Settled, Stat, Syncing,
                   CountsOK, SetsOK, PhaseInv
    <2>6. QuietSteady'
      BY <1>19 DEF BeginCopies, TInv, QuietInv, QuietSteady, Excused, Files, Hash, HashIs, InHand, Same,
                   Settled, Stat, CountsOK, PhaseInv
    <2> QED
      BY <2>1, <2>2, <2>3, <2>4, <2>5, <2>6 DEF QuietInv
  <1>20. ASSUME NEW p \in Paths, CopyConflict(p) PROVE QuietInv'
    <2>1. QuietPlan'
      BY <1>20 DEF CopyConflict, TInv, QuietInv, QuietPlan, Awaited, Excused, Hash, HashIs, InHand, Reconciling,
                   Same, Settled, Stat, SetsOK, PhaseInv
    <2>2. QuietSync'
      BY <1>20 DEF CopyConflict, TInv, QuietInv, QuietSync, Excused, Hash, HashIs, Same, Settled, Stat, Syncing,
                   SetsOK, PhaseInv
    <2>3. QuietFetch' /\ QuietDownload' /\ QuietScan' /\ QuietSteady'
      BY <1>20 DEF CopyConflict, QuietInv, QuietFetch, QuietDownload, QuietScan, QuietSteady, Stat, Hash,
                   HashIs, Excused, Same, Settled, Files, InHand
    <2> QED
      BY <2>1, <2>2, <2>3 DEF QuietInv
  <1>21. ASSUME BeginApply PROVE QuietInv'
    <2>1. QuietFetch'
      BY <1>21 DEF BeginApply, Files, TInv, QuietInv, QuietFetch, Stat, CountsOK, PhaseInv
    <2>2. QuietPlan'
      BY <1>21 DEF BeginApply, Files, TInv, QuietInv, QuietPlan, Awaited, Excused, Hash, HashIs, InHand,
                   Reconciling, Same, Settled, Stat, CountsOK, SetsOK, PhaseInv
    <2>3. QuietDownload'
      BY <1>21 DEF BeginApply, Files, TInv, QuietInv, QuietDownload, Hash, HashIs, CountsOK, PhaseInv
    <2>4. QuietScan'
      BY <1>21 DEF BeginApply, Files, TInv, QuietInv, QuietScan, Excused, Hash, HashIs, Same, Settled, Stat,
                   CountsOK, PhaseInv
    <2>5. QuietSync'
      BY <1>21 DEF BeginApply, Files, TInv, QuietInv, QuietSync, Excused, Hash, HashIs, Same, Settled, Stat,
                   Syncing, CountsOK, SetsOK, PhaseInv
    <2>6. QuietSteady'
      BY <1>21 DEF BeginApply, Files, TInv, QuietInv, QuietSteady, Excused, Hash, HashIs, InHand, Same, Settled,
                   Stat, CountsOK, PhaseInv
    <2> QED
      BY <2>1, <2>2, <2>3, <2>4, <2>5, <2>6 DEF QuietInv
  <1>22. ASSUME NEW p \in Paths, SkipAtStartup(p) PROVE QuietInv'
    <2>1. QuietPlan'
      BY <1>22 DEF SkipAtStartup, KeptAtStartup, TInv, QuietInv, QuietPlan, Awaited, Excused, Hash, HashIs,
                   InHand, Reconciling, Same, Settled, Stat, SetsOK, PhaseInv
    <2>2. QuietSync'
      BY <1>22 DEF SkipAtStartup, KeptAtStartup, TInv, QuietInv, QuietSync, Excused, Hash, HashIs, Same,
                   Settled, Stat, Syncing, SetsOK, PhaseInv
    <2>3. QuietFetch' /\ QuietDownload' /\ QuietScan' /\ QuietSteady'
      BY <1>22 DEF SkipAtStartup, QuietInv, QuietFetch, QuietDownload, QuietScan, QuietSteady, Stat, Hash,
                   HashIs, Excused, Same, Settled, Files, InHand
    <2> QED
      BY <2>1, <2>2, <2>3 DEF QuietInv
  <1>23. ASSUME BeginRemovals PROVE QuietInv'
    <2>1. QuietFetch'
      BY <1>23 DEF BeginRemovals, Files, TInv, QuietInv, QuietFetch, Stat, CountsOK, PhaseInv
    <2>2. QuietPlan'
      BY <1>23 DEF BeginRemovals, Files, TInv, QuietInv, QuietPlan, Awaited, Excused, Hash, HashIs, InHand,
                   Reconciling, Same, Settled, Stat, CountsOK, SetsOK, PhaseInv
    <2>3. QuietDownload'
      BY <1>23 DEF BeginRemovals, Files, TInv, QuietInv, QuietDownload, Hash, HashIs, CountsOK, PhaseInv
    <2>4. QuietScan'
      BY <1>23 DEF BeginRemovals, Files, TInv, QuietInv, QuietScan, Excused, Hash, HashIs, Same, Settled, Stat,
                   CountsOK, PhaseInv
    <2>5. QuietSync'
      BY <1>23 DEF BeginRemovals, Files, TInv, QuietInv, QuietSync, Excused, Hash, HashIs, Same, Settled, Stat,
                   Syncing, CountsOK, SetsOK, PhaseInv
    <2>6. QuietSteady'
      BY <1>23 DEF BeginRemovals, Files, TInv, QuietInv, QuietSteady, Excused, Hash, HashIs, InHand, Same,
                   Settled, Stat, CountsOK, SetsOK, PhaseInv
    <2> QED
      BY <2>1, <2>2, <2>3, <2>4, <2>5, <2>6 DEF QuietInv
  <1>24. ASSUME NEW p \in Paths, RemoveWinner(p) PROVE QuietInv'
    <2>1. QuietFetch'
      BY <1>24 DEF RemoveWinner, Losing, NoCall, RemoveLocal, TInv, QuietInv, QuietFetch, Stat, DiskOK,
                   CountsOK, PhaseInv
    <2>2. QuietPlan'
      BY <1>24 DEF RemoveWinner, Losing, NoCall, RemoveLocal, TInv, QuietInv, QuietPlan, Awaited, Excused, Hash,
                   HashIs, InHand, Reconciling, Same, Settled, Stat, CallOK, DiskOK, CountsOK, PhaseInv
    <2>3. QuietDownload'
      BY <1>24 DEF RemoveWinner, Losing, NoCall, RemoveLocal, TInv, QuietInv, QuietDownload, Hash, HashIs,
                   CallOK, DiskOK, CountsOK, PhaseInv
    <2>4. QuietScan'
      BY <1>24 DEF RemoveWinner, Losing, NoCall, RemoveLocal, TInv, QuietInv, QuietScan, Excused, Hash, HashIs,
                   Same, Settled, Stat, DiskOK, CountsOK, PhaseInv
    <2>5. QuietSync'
      BY <1>24 DEF RemoveWinner, Losing, NoCall, RemoveLocal, TInv, QuietInv, QuietSync, Excused, Hash, HashIs,
                   Same, Settled, Stat, Syncing, CallOK, DiskOK, CountsOK, PhaseInv
    <2>6. QuietSteady'
      BY <1>24 DEF RemoveWinner, Losing, NoCall, RemoveLocal, TInv, QuietInv, QuietSteady, Excused, Files, Hash,
                   HashIs, InHand, Same, Settled, Stat, CallOK, DiskOK, CountsOK, PhaseInv
    <2> QED
      BY <2>1, <2>2, <2>3, <2>4, <2>5, <2>6 DEF QuietInv
  <1>25. ASSUME PersistStartup PROVE QuietInv'
    <2>1. QuietFetch'
      BY <1>25 DEF PersistStartup, Persisted, Seeded, StartupBaselineState, TInv, QuietInv, QuietFetch, Stat,
                   BaselineOK, TreesOK, CountsOK, PhaseInv
    <2>2. QuietPlan'
      BY <1>25 DEF PersistStartup, Persisted, Seeded, StartupBaselineState, TInv, QuietInv, QuietPlan, Awaited,
                   Excused, Hash, HashIs, InHand, Reconciling, Same, Settled, Stat, BaselineOK, TreesOK,
                   CountsOK, PhaseInv
    <2>3. QuietDownload'
      BY <1>25 DEF PersistStartup, Persisted, Seeded, StartupBaselineState, TInv, QuietInv, QuietDownload, Hash,
                   HashIs, CountsOK, PhaseInv
    <2>4. QuietScan'
      <3> SUFFICES ASSUME quiet, NEW q \in Paths
                   PROVE  \/ local_state'[q] = Stat(q)' /\ Settled(q)'
                          \/ local_state'[q] = None /\ disk'[q] # None /\ suppressed_uploads'[q] = None
        BY <1>25 DEF PersistStartup, QuietScan
      <3>1. /\ pc = "remove" /\ starting /\ Reconciling /\ snapshot = remote
            /\ remote_index = Files(remote) /\ q \notin todo
            /\ UNCHANGED <<disk, remote, misrecorded, suppressed_uploads>>
        BY <1>25 DEF PersistStartup, TInv, PhaseInv, QuietInv, QuietPlan, Reconciling
      <3>2. /\ local_state[q] = Stat(q)
            /\ q \in preserve_local_files \/ remote[q] = None => suppressed_uploads[q] = None
            /\ remote[q] # None /\ q \in preserve_local_files => disk[q] # None
            /\ remote[q] # None /\ q \notin preserve_local_files => disk[q] # None /\ Settled(q)
        BY <3>1 DEF QuietInv, QuietPlan, InHand, Awaited
      <3>3. CASE q \in remote_index \ preserve_local_files
        <4>1. local_state'[q] = Stat(q) /\ disk[q] # None /\ Settled(q)
          BY <1>25, <3>1, <3>2, <3>3, StatIsSome DEF PersistStartup, Seeded, StartupBaselineState, Files
        <4>2. baseline[q] # None => baseline'[q] # None /\ baseline'[q].hash = baseline[q].hash
          <5>1. baseline'[q] = [stamp |-> Stat(q), hash |-> IF baseline[q] = None THEN None ELSE baseline[q].hash]
            BY <1>25, <4>1, StatIsSome DEF PersistStartup, Persisted
          <5>2. baseline[q] # None => baseline'[q] \in Row
            BY <4>1, <5>1, StatIsSome DEF TInv, BaselineOK, Row
          <5> QED
            BY <5>1, <5>2, NoneAssumption
        <4> QED
          BY <3>1, <4>1, <4>2 DEF Settled, Same, Excused, HashIs, Hash, Stat
      <3>4. CASE q \notin remote_index \ preserve_local_files
        <4>1. local_state'[q] = None
          BY <1>25, <3>4 DEF PersistStartup, Seeded, StartupBaselineState
        <4>2. CASE disk[q] # None
          BY <3>1, <3>2, <3>4, <4>1, <4>2 DEF Files
        <4>3. CASE disk[q] = None
          BY <3>1, <3>2, <3>4, <4>1, <4>3 DEF Files, Settled, Same, Stat
        <4> QED
          BY <4>2, <4>3
      <3> QED
        BY <3>3, <3>4
    <2>5. QuietSync'
      BY <1>25 DEF PersistStartup, Persisted, Seeded, StartupBaselineState, TInv, QuietInv, QuietSync, Excused,
                   Hash, HashIs, Same, Settled, Stat, Syncing, BaselineOK, CountsOK, PhaseInv
    <2>6. QuietSteady'
      BY <1>25 DEF PersistStartup, Persisted, Seeded, StartupBaselineState, TInv, QuietInv, QuietSteady,
                   Excused, Files, Hash, HashIs, InHand, Same, Settled, Stat, BaselineOK, TreesOK, CountsOK,
                   PhaseInv
    <2> QED
      BY <2>1, <2>2, <2>3, <2>4, <2>5, <2>6 DEF QuietInv
  <1>26. ASSUME FinishStartupSync PROVE QuietInv'
    <2>1. QuietFetch'
      BY <1>26 DEF FinishStartupSync, Persisted, TInv, QuietInv, QuietFetch, Stat, BaselineOK, TreesOK,
                   CountsOK, Nothing, PhaseInv
    <2>2. QuietPlan'
      BY <1>26 DEF FinishStartupSync, Persisted, TInv, QuietInv, QuietPlan, Awaited, Excused, Hash, HashIs,
                   InHand, Reconciling, Same, Settled, Stat, BaselineOK, TreesOK, CountsOK, Nothing, PhaseInv
    <2>3. QuietDownload'
      BY <1>26 DEF FinishStartupSync, Persisted, TInv, QuietInv, QuietDownload, Hash, HashIs, CountsOK, Nothing,
                   PhaseInv
    <2>4. QuietScan'
      BY <1>26 DEF FinishStartupSync, Persisted, TInv, QuietInv, QuietScan, Excused, Hash, HashIs, Same,
                   Settled, Stat, BaselineOK, TreesOK, CountsOK, Nothing, PhaseInv
    <2>5. QuietSync'
      BY <1>26 DEF FinishStartupSync, Persisted, TInv, QuietInv, QuietSync, Excused, Hash, HashIs, Same,
                   Settled, Stat, Syncing, BaselineOK, TreesOK, CountsOK, Nothing, PhaseInv
    <2>6. QuietSteady'
      <3> SUFFICES ASSUME quiet PROVE QuietSteady'
        BY <1>26 DEF FinishStartupSync, QuietSteady
      <3>1. /\ pc' = "persist" /\ queue = <<>> /\ UNCHANGED <<disk, remote, misrecorded, queue>>
            /\ local_state' = current /\ baseline' = Persisted(local_state')
        BY <1>26 DEF FinishStartupSync, TInv, PhaseInv
      <3>2. ASSUME NEW q \in Paths PROVE Settled(q)' /\ local_state'[q] = Stat(q)'
        <4>1. local_state'[q] = Stat(q) /\ Settled(q)
          BY <1>26, <3>1 DEF FinishStartupSync, QuietInv, QuietSync, Syncing
        <4>2. disk[q] # None /\ baseline[q] # None => baseline'[q] # None /\ baseline'[q].hash = baseline[q].hash
          <5>1. disk[q] # None => baseline'[q] = [stamp |-> Stat(q), hash |-> IF baseline[q] = None THEN None ELSE baseline[q].hash]
            BY <3>1, <4>1, StatIsSome DEF Persisted
          <5>2. disk[q] # None /\ baseline[q] # None => baseline'[q] \in Row
            BY <5>1, StatIsSome DEF TInv, BaselineOK, Row
          <5> QED
            BY <5>1, <5>2, NoneAssumption
        <4> QED
          BY <3>1, <4>1, <4>2 DEF Settled, Same, Excused, HashIs, Hash, Stat
      <3> QED
        BY <3>1, <3>2 DEF QuietSteady
    <2> QED
      BY <2>1, <2>2, <2>3, <2>4, <2>5, <2>6 DEF QuietInv
  <1>27. ASSUME FinishStartup PROVE QuietInv'
    <2>1. QuietFetch'
      BY <1>27 DEF FinishStartup, TInv, QuietInv, QuietFetch, Stat, CountsOK, Nothing, PhaseInv
    <2>2. QuietPlan'
      BY <1>27 DEF FinishStartup, TInv, QuietInv, QuietPlan, Awaited, Excused, Hash, HashIs, InHand,
                   Reconciling, Same, Settled, Stat, CountsOK, StoreOK, Nothing, PhaseInv
    <2>3. QuietDownload'
      BY <1>27 DEF FinishStartup, TInv, QuietInv, QuietDownload, Hash, HashIs, CountsOK, Nothing, PhaseInv
    <2>4. QuietScan'
      BY <1>27 DEF FinishStartup, TInv, QuietInv, QuietScan, Excused, Hash, HashIs, Same, Settled, Stat,
                   CountsOK, Nothing, PhaseInv
    <2>5. QuietSync'
      BY <1>27 DEF FinishStartup, TInv, QuietInv, QuietSync, Excused, Hash, HashIs, Same, Settled, Stat,
                   Syncing, CountsOK, Nothing, PhaseInv
    <2>6. QuietSteady'
      BY <1>27 DEF FinishStartup, TInv, QuietInv, QuietSteady, Excused, Files, Hash, HashIs, InHand, Same,
                   Settled, Stat, CountsOK, StoreOK, Nothing, PhaseInv
    <2> QED
      BY <2>1, <2>2, <2>3, <2>4, <2>5, <2>6 DEF QuietInv
  <1>28. ASSUME NEW p \in Paths, Download(p) PROVE QuietInv'
    <2>1. QuietFetch'
      BY <1>28 DEF Download, Diverged, Hash, HashIs, KeptAtStartup, RemoteHash, Stat, ToDownload, TInv,
                   QuietInv, QuietFetch, CountsOK, PhaseInv
    <2>2. QuietPlan'
      BY <1>28 DEF Download, Diverged, Hash, HashIs, KeptAtStartup, RemoteHash, Stat, ToDownload, TInv,
                   QuietInv, QuietPlan, Awaited, Excused, InHand, Reconciling, Same, Settled, CallOK, CountsOK,
                   PhaseInv
    <2>3. QuietDownload'
      BY <1>28 DEF Download, Diverged, Hash, HashIs, KeptAtStartup, RemoteHash, Stat, ToDownload, TInv,
                   QuietInv, QuietDownload, CallOK, CountsOK, PhaseInv, QuietPlan, QuietSteady, Reconciling,
                   Awaited, InHand, StoreOK
    <2>4. QuietScan'
      BY <1>28 DEF Download, Diverged, Hash, HashIs, KeptAtStartup, RemoteHash, Stat, ToDownload, TInv,
                   QuietInv, QuietScan, Excused, Same, Settled, CountsOK, PhaseInv
    <2>5. QuietSync'
      BY <1>28 DEF Download, Diverged, Hash, HashIs, KeptAtStartup, RemoteHash, Stat, ToDownload, TInv,
                   QuietInv, QuietSync, Excused, Same, Settled, Syncing, CallOK, CountsOK, PhaseInv
    <2>6. QuietSteady'
      BY <1>28 DEF Download, Diverged, Hash, HashIs, KeptAtStartup, RemoteHash, Stat, ToDownload, TInv,
                   QuietInv, QuietSteady, Excused, Files, InHand, Same, Settled, CallOK, CountsOK, PhaseInv
    <2> QED
      BY <2>1, <2>2, <2>3, <2>4, <2>5, <2>6 DEF QuietInv
  <1>29. ASSUME InstallDownload PROVE QuietInv'
    <2>1. QuietFetch'
      BY <1>29, StampIsFresh DEF InstallDownload, Losing, Stat, TInv, QuietInv, QuietFetch, DiskOK, CountsOK,
                                 CallOK, PhaseInv
    <2>2. QuietPlan'
      <3> DEFINE p == call.path
      <3> SUFFICES ASSUME quiet PROVE QuietPlan'
        BY <1>29 DEF InstallDownload, QuietPlan
      <3>1. /\ p \in Paths /\ call.content \in Contents /\ pc = "install" /\ pc' = "record" /\ p \in todo
            /\ UNCHANGED <<remote, baseline, misrecorded, snapshot, local_state, suppressed_uploads, quiet, starting,
                           queue, todo, call, preserve_local_files, matching_remote_files, remote_delete_wins_paths>>
        BY <1>29 DEF InstallDownload, TInv, CallOK, PhaseInv
      <3>2. /\ disk'[p] # None /\ disk'[p].content = call.content
            /\ \A q \in Paths \ {p} : disk'[q] = disk[q]
        BY <1>29, <3>1, SomeFile, StampIsFresh DEF InstallDownload, TInv, DiskOK
      <3>3. remote[p] # None /\ call.content = remote[p].content /\ HashIs(p, call.content)'
        BY <3>1, <3>2 DEF QuietInv, QuietDownload, HashIs, Hash
      <3>4. /\ \A q \in Paths : (q = p \/ Settled(q)) => Settled(q)'
            /\ \A q \in Paths \ {p} : Stat(q)' = Stat(q)
        BY <3>1, <3>2, <3>3 DEF Settled, Same, Excused, HashIs, Hash, Stat
      <3> HIDE DEF p
      <3> QED
        BY <3>1, <3>2, <3>3, <3>4 DEF p, QuietInv, QuietPlan, QuietDownload, Reconciling, Awaited, InHand
    <2>3. QuietDownload'
      <3> DEFINE p == call.path
      <3> SUFFICES ASSUME quiet PROVE QuietDownload'
        BY <1>29 DEF InstallDownload, QuietDownload
      <3>1. /\ p \in Paths /\ call.content \in Contents /\ pc = "install" /\ pc' = "record" /\ p \in todo
            /\ UNCHANGED <<remote, baseline, misrecorded, snapshot, local_state, suppressed_uploads, quiet, starting,
                           queue, todo, call, preserve_local_files, matching_remote_files, remote_delete_wins_paths>>
        BY <1>29 DEF InstallDownload, TInv, CallOK, PhaseInv
      <3>2. /\ disk'[p] # None /\ disk'[p].content = call.content
            /\ \A q \in Paths \ {p} : disk'[q] = disk[q]
        BY <1>29, <3>1, SomeFile, StampIsFresh DEF InstallDownload, TInv, DiskOK
      <3>3. remote[p] # None /\ call.content = remote[p].content /\ HashIs(p, call.content)'
        BY <3>1, <3>2 DEF QuietInv, QuietDownload, HashIs, Hash
      <3>4. /\ \A q \in Paths : (q = p \/ Settled(q)) => Settled(q)'
            /\ \A q \in Paths \ {p} : Stat(q)' = Stat(q)
        BY <3>1, <3>2, <3>3 DEF Settled, Same, Excused, HashIs, Hash, Stat
      <3> HIDE DEF p
      <3> QED
        BY <3>1, <3>2, <3>3, <3>4 DEF p, QuietInv, QuietDownload
    <2>4. QuietScan'
      BY <1>29, StampIsFresh DEF InstallDownload, Losing, Stat, TInv, QuietInv, QuietScan, Excused, Hash,
                                 HashIs, Same, Settled, DiskOK, CountsOK, CallOK, PhaseInv
    <2>5. QuietSync'
      BY <1>29, StampIsFresh DEF InstallDownload, Losing, Stat, TInv, QuietInv, QuietSync, Excused, Hash,
                                 HashIs, Same, Settled, Syncing, DiskOK, CountsOK, CallOK, PhaseInv
    <2>6. QuietSteady'
      <3> DEFINE p == call.path
      <3> SUFFICES ASSUME quiet PROVE QuietSteady'
        BY <1>29 DEF InstallDownload, QuietSteady
      <3>1. /\ p \in Paths /\ call.content \in Contents /\ pc = "install" /\ pc' = "record" /\ p \in todo
            /\ UNCHANGED <<remote, baseline, misrecorded, snapshot, local_state, suppressed_uploads, quiet, starting,
                           queue, todo, call, preserve_local_files, matching_remote_files, remote_delete_wins_paths>>
        BY <1>29 DEF InstallDownload, TInv, CallOK, PhaseInv
      <3>2. /\ disk'[p] # None /\ disk'[p].content = call.content
            /\ \A q \in Paths \ {p} : disk'[q] = disk[q]
        BY <1>29, <3>1, SomeFile, StampIsFresh DEF InstallDownload, TInv, DiskOK
      <3>3. remote[p] # None /\ call.content = remote[p].content /\ HashIs(p, call.content)'
        BY <3>1, <3>2 DEF QuietInv, QuietDownload, HashIs, Hash
      <3>4. /\ \A q \in Paths : (q = p \/ Settled(q)) => Settled(q)'
            /\ \A q \in Paths \ {p} : Stat(q)' = Stat(q)
        BY <3>1, <3>2, <3>3 DEF Settled, Same, Excused, HashIs, Hash, Stat
      <3> HIDE DEF p
      <3> QED
        BY <3>1, <3>2, <3>3, <3>4 DEF p, QuietInv, QuietSteady, InHand
    <2> QED
      BY <2>1, <2>2, <2>3, <2>4, <2>5, <2>6 DEF QuietInv
  <1>30. ASSUME Record PROVE QuietInv'
    <2>1. QuietFetch'
      BY <1>30 DEF Record, Adopt, Hash, HashIs, NoCall, RecordRow, Stat, TInv, QuietInv, QuietFetch, BaselineOK,
                   TreesOK, CountsOK, CallOK, PhaseInv
    <2>2. QuietPlan'
      <3> DEFINE p == call.path
      <3> SUFFICES ASSUME quiet PROVE QuietPlan'
        BY <1>30 DEF Record, QuietPlan
      <3>1. /\ p \in Paths /\ pc = "record" /\ pc' = "apply" /\ todo' = todo \ {p}
            /\ UNCHANGED <<disk, remote, snapshot, quiet, starting, queue, preserve_local_files, matching_remote_files,
                           remote_delete_wins_paths>>
        BY <1>30 DEF Record, TInv, CallOK
      <3>2. /\ remote[p] # None /\ HashIs(p, remote[p].content) /\ call.hash = remote[p].content
            /\ starting => p \notin preserve_local_files /\ p \notin matching_remote_files
        BY <3>1 DEF QuietInv, QuietDownload
      <3>3. \A q \in Paths \ {p} : /\ baseline'[q] = baseline[q] /\ (q \in misrecorded' <=> q \in misrecorded)
                                   /\ local_state'[q] = local_state[q] /\ suppressed_uploads'[q] = suppressed_uploads[q]
        BY <1>30, <3>1 DEF Record, Adopt, RecordRow, TInv, BaselineOK, TreesOK
      <3>4. local_state'[p] = Stat(p) /\ (\A q \in Paths : Stat(q)' = Stat(q))
        BY <1>30, <3>1 DEF Record, Adopt, TInv, TreesOK, Stat
      <3>5. \A q \in Paths : (q = p \/ Settled(q)) => Settled(q)'
        BY <3>1, <3>2, <3>3 DEF Settled, Same, Excused, HashIs, Hash
      <3>6. disk[p] # None
        BY <3>2 DEF HashIs
      <3> HIDE DEF p
      <3> QED
        BY <3>1, <3>2, <3>3, <3>4, <3>5, <3>6 DEF p, QuietInv, QuietPlan, Reconciling, Awaited, InHand
    <2>3. QuietDownload'
      BY <1>30 DEF Record, Adopt, Hash, HashIs, NoCall, RecordRow, Stat, TInv, QuietInv, QuietDownload, CallOK,
                   CountsOK, PhaseInv
    <2>4. QuietScan'
      BY <1>30 DEF Record, Adopt, Hash, HashIs, NoCall, RecordRow, Stat, TInv, QuietInv, QuietScan, Excused,
                   Same, Settled, BaselineOK, TreesOK, CountsOK, CallOK, PhaseInv
    <2>5. QuietSync'
      BY <1>30 DEF Record, Adopt, Hash, HashIs, NoCall, RecordRow, Stat, TInv, QuietInv, QuietSync, Excused,
                   Same, Settled, Syncing, BaselineOK, CallOK, CountsOK, TreesOK, SetsOK, PhaseInv
    <2>6. QuietSteady'
      <3> DEFINE p == call.path
      <3> SUFFICES ASSUME quiet PROVE QuietSteady'
        BY <1>30 DEF Record, QuietSteady
      <3>1. /\ p \in Paths /\ pc = "record" /\ pc' = "apply" /\ todo' = todo \ {p}
            /\ UNCHANGED <<disk, remote, snapshot, quiet, starting, queue, preserve_local_files, matching_remote_files,
                           remote_delete_wins_paths>>
        BY <1>30 DEF Record, TInv, CallOK
      <3>2. /\ remote[p] # None /\ HashIs(p, remote[p].content) /\ call.hash = remote[p].content
            /\ starting => p \notin preserve_local_files /\ p \notin matching_remote_files
        BY <3>1 DEF QuietInv, QuietDownload
      <3>3. \A q \in Paths \ {p} : /\ baseline'[q] = baseline[q] /\ (q \in misrecorded' <=> q \in misrecorded)
                                   /\ local_state'[q] = local_state[q] /\ suppressed_uploads'[q] = suppressed_uploads[q]
        BY <1>30, <3>1 DEF Record, Adopt, RecordRow, TInv, BaselineOK, TreesOK
      <3>4. local_state'[p] = Stat(p) /\ (\A q \in Paths : Stat(q)' = Stat(q))
        BY <1>30, <3>1 DEF Record, Adopt, TInv, TreesOK, Stat
      <3>5. \A q \in Paths : (q = p \/ Settled(q)) => Settled(q)'
        BY <3>1, <3>2, <3>3 DEF Settled, Same, Excused, HashIs, Hash
      <3>6. disk[p] # None
        BY <3>2 DEF HashIs
      <3> HIDE DEF p
      <3> QED
        BY <3>1, <3>2, <3>3, <3>4, <3>5, <3>6 DEF p, QuietInv, QuietSteady, InHand
    <2> QED
      BY <2>1, <2>2, <2>3, <2>4, <2>5, <2>6 DEF QuietInv
  <1>31. ASSUME ScanLocal PROVE QuietInv'
    <2>1. QuietFetch'
      BY <1>31 DEF ScanLocal, Scan, Seeded, Stat, TInv, QuietInv, QuietFetch, TreesOK, CountsOK, PhaseInv
    <2>2. QuietPlan'
      BY <1>31 DEF ScanLocal, Scan, Seeded, Stat, TInv, QuietInv, QuietPlan, Awaited, Excused, Hash, HashIs,
                   InHand, Reconciling, Same, Settled, TreesOK, CountsOK, SetsOK, PhaseInv
    <2>3. QuietDownload'
      BY <1>31 DEF ScanLocal, Scan, Seeded, Stat, TInv, QuietInv, QuietDownload, Hash, HashIs, CountsOK,
                   PhaseInv
    <2>4. QuietScan'
      BY <1>31 DEF ScanLocal, Scan, Seeded, Stat, TInv, QuietInv, QuietScan, Excused, Hash, HashIs, Same,
                   Settled, TreesOK, CountsOK, PhaseInv
    <2>5. QuietSync'
      <3> SUFFICES ASSUME quiet PROVE QuietSync'
        BY <1>31 DEF ScanLocal, QuietSync
      <3>1. pc = "scan"
        <4> SUFFICES ASSUME pc \in {"idle", "applied"} PROVE FALSE
          BY <1>31 DEF ScanLocal
        <4>1. \A q \in Paths : local_state[q] = Stat(q) /\ (disk[q] = None => remote[q] = None)
          BY DEF QuietInv, QuietSteady, TInv, PhaseInv, InHand, Settled
        <4>2. \A q \in Paths : local_state'[q] = local_state[q]
          BY <1>31, <4>1, StatIsSome DEF ScanLocal, Seeded, QuietInv, QuietSteady, TInv, PhaseInv, Files
        <4>3. todo' = {}
          BY <1>31, <4>1, <4>2 DEF ScanLocal, Scan
        <4> QED
          BY <1>31, <4>3 DEF ScanLocal
      <3>2. /\ pc' = "sync" /\ current' = Scan /\ starting
            /\ UNCHANGED <<disk, remote, baseline, misrecorded, suppressed_uploads, quiet, starting>>
        BY <1>31, <3>1 DEF ScanLocal, TInv, PhaseInv
      <3>3. \A q \in Paths : q \in todo' <=> Stat(q) # local_state[q]
        BY <1>31, <3>1 DEF ScanLocal, Scan
      <3>4. ASSUME NEW q \in Paths
            PROVE  /\ current'[q] = Stat(q)' /\ (q \notin todo' => Settled(q)')
                   /\ q \in todo' => disk'[q] # None /\ suppressed_uploads'[q] = None
        <4>1. Settled(q)' = Settled(q) /\ Stat(q)' = Stat(q) /\ current'[q] = Stat(q)
          BY <3>2 DEF Settled, Same, Excused, HashIs, Hash, Stat, Scan
        <4> QED
          BY <3>1, <3>2, <3>3, <4>1, StatIsSome DEF QuietInv, QuietScan
      <3> QED
        BY <3>2, <3>4 DEF QuietSync
    <2>6. QuietSteady'
      <3> SUFFICES ASSUME quiet PROVE QuietSteady'
        BY <1>31 DEF ScanLocal, QuietSteady
      <3>1. pc = "scan"
        <4> SUFFICES ASSUME pc \in {"idle", "applied"} PROVE FALSE
          BY <1>31 DEF ScanLocal
        <4>1. \A q \in Paths : local_state[q] = Stat(q) /\ (disk[q] = None => remote[q] = None)
          BY DEF QuietInv, QuietSteady, TInv, PhaseInv, InHand, Settled
        <4>2. \A q \in Paths : local_state'[q] = local_state[q]
          BY <1>31, <4>1, StatIsSome DEF ScanLocal, Seeded, QuietInv, QuietSteady, TInv, PhaseInv, Files
        <4>3. todo' = {}
          BY <1>31, <4>1, <4>2 DEF ScanLocal, Scan
        <4> QED
          BY <1>31, <4>3 DEF ScanLocal
      <3> QED
        BY <1>31, <3>1 DEF ScanLocal, QuietSteady, TInv, PhaseInv
    <2> QED
      BY <2>1, <2>2, <2>3, <2>4, <2>5, <2>6 DEF QuietInv
  <1>32. ASSUME NEW p \in Paths, SkipUpload(p) PROVE QuietInv'
    <2>1. QuietPlan'
      BY <1>32 DEF SkipUpload, Suppressed, TInv, QuietInv, QuietPlan, Awaited, Excused, Hash, HashIs, InHand,
                   Reconciling, Same, Settled, Stat, TreesOK, SetsOK, PhaseInv
    <2>2. QuietScan'
      BY <1>32 DEF SkipUpload, Suppressed, TInv, QuietInv, QuietScan, Excused, Hash, HashIs, Same, Settled,
                   Stat, TreesOK, PhaseInv
    <2>3. QuietSync'
      BY <1>32 DEF SkipUpload, Suppressed, TInv, QuietInv, QuietSync, Excused, Hash, HashIs, Same, Settled,
                   Stat, Syncing, TreesOK, SetsOK, PhaseInv
    <2>4. QuietFetch' /\ QuietDownload' /\ QuietSteady'
      BY <1>32 DEF SkipUpload, QuietInv, QuietFetch, QuietDownload, QuietSteady, Stat, Hash, HashIs, Excused,
                   Files, InHand, Same, Settled
    <2> QED
      BY <2>1, <2>2, <2>3, <2>4 DEF QuietInv
  <1>33. ASSUME NEW p \in Paths, Upload(p) PROVE QuietInv'
    <2>1. QuietFetch'
      BY <1>33, VersionIsFresh DEF Upload, Hash, Suppressed, TInv, QuietInv, QuietFetch, Stat, CountsOK,
                                   PhaseInv
    <2>2. QuietPlan'
      BY <1>33, VersionIsFresh DEF Upload, Hash, Suppressed, TInv, QuietInv, QuietPlan, Awaited, Excused,
                                   HashIs, InHand, Reconciling, Same, Settled, Stat, CallOK, CountsOK, StoreOK,
                                   PhaseInv
    <2>3. QuietDownload'
      BY <1>33, VersionIsFresh DEF Upload, Hash, Suppressed, TInv, QuietInv, QuietDownload, HashIs, CallOK,
                                   CountsOK, StoreOK, PhaseInv
    <2>4. QuietScan'
      BY <1>33, VersionIsFresh DEF Upload, Hash, Suppressed, TInv, QuietInv, QuietScan, Excused, HashIs, Same,
                                   Settled, Stat, CountsOK, StoreOK, PhaseInv
    <2>5. QuietSync'
      <3> SUFFICES ASSUME quiet PROVE QuietSync'
        BY <1>33 DEF Upload, QuietSync
      <3>1. /\ pc' = "uploaded" /\ p \in todo /\ disk[p] # None /\ call' = [path |-> p, content |-> Hash(p), hash |-> Hash(p)]
            /\ UNCHANGED <<disk, baseline, misrecorded, starting, todo, current, suppressed_uploads>>
        BY <1>33 DEF Upload
      <3>2. /\ remote'[p] # None /\ remote'[p].content = Hash(p)
            /\ \A q \in Paths \ {p} : remote'[q] = remote[q]
        BY <1>33, StatIsSome, SomeRemote DEF Upload, Hash, TInv, StoreOK
      <3>3. /\ \A q \in Paths \ {p} : Settled(q)' = Settled(q)
            /\ \A q \in Paths : Stat(q)' = Stat(q)
            /\ disk'[p] # None /\ disk'[p].content = remote'[p].content /\ call'.path = p /\ call'.hash = remote'[p].content
        BY <3>1, <3>2 DEF Settled, Same, Excused, HashIs, Hash, Stat
      <3>4. /\ starting
            /\ \A q \in Paths : /\ current[q] = Stat(q) /\ (q \notin todo => Settled(q))
                                /\ q \in todo => disk[q] # None /\ suppressed_uploads[q] = None
        BY <1>33 DEF Upload, QuietInv, QuietSync, Syncing
      <3> QED
        BY <3>1, <3>2, <3>3, <3>4 DEF QuietSync, HashIs, Hash
    <2>6. QuietSteady'
      BY <1>33, VersionIsFresh DEF Upload, Hash, Suppressed, TInv, QuietInv, QuietSteady, Excused, Files,
                                   HashIs, InHand, Same, Settled, Stat, CallOK, CountsOK, StoreOK, PhaseInv,
                                   QuietSync, Syncing
    <2> QED
      BY <2>1, <2>2, <2>3, <2>4, <2>5, <2>6 DEF QuietInv
  <1>34. ASSUME RecordUpload PROVE QuietInv'
    <2>1. QuietFetch'
      BY <1>34 DEF RecordUpload, Hash, HashIs, NoCall, RecordRow, TInv, QuietInv, QuietFetch, Stat, BaselineOK,
                   CountsOK, CallOK, PhaseInv
    <2>2. QuietPlan'
      BY <1>34 DEF RecordUpload, Hash, HashIs, NoCall, RecordRow, TInv, QuietInv, QuietPlan, Awaited, Excused,
                   InHand, Reconciling, Same, Settled, Stat, BaselineOK, CallOK, CountsOK, SetsOK, PhaseInv
    <2>3. QuietDownload'
      BY <1>34 DEF RecordUpload, Hash, HashIs, NoCall, RecordRow, TInv, QuietInv, QuietDownload, CallOK,
                   CountsOK, PhaseInv
    <2>4. QuietScan'
      BY <1>34 DEF RecordUpload, Hash, HashIs, NoCall, RecordRow, TInv, QuietInv, QuietScan, Excused, Same,
                   Settled, Stat, BaselineOK, CountsOK, CallOK, PhaseInv
    <2>5. QuietSync'
      BY <1>34 DEF RecordUpload, Hash, HashIs, NoCall, RecordRow, TInv, QuietInv, QuietSync, Excused, Same,
                   Settled, Stat, Syncing, BaselineOK, CallOK, CountsOK, SetsOK, PhaseInv
    <2>6. QuietSteady'
      BY <1>34 DEF RecordUpload, Hash, HashIs, NoCall, RecordRow, TInv, QuietInv, QuietSteady, Excused, Files,
                   InHand, Same, Settled, Stat, BaselineOK, CallOK, CountsOK, SetsOK, PhaseInv, QuietSync,
                   Syncing
    <2> QED
      BY <2>1, <2>2, <2>3, <2>4, <2>5, <2>6 DEF QuietInv
  <1>35. ASSUME NEW p \in Paths, DeleteRemote(p) PROVE QuietInv'
    <2>1. QuietFetch'
      BY <1>35 DEF DeleteRemote, KnownRemote, NoCall, TInv, QuietInv, QuietFetch, Stat, CountsOK, PhaseInv
    <2>2. QuietPlan'
      BY <1>35 DEF DeleteRemote, KnownRemote, NoCall, TInv, QuietInv, QuietPlan, Awaited, Excused, Hash, HashIs,
                   InHand, Reconciling, Same, Settled, Stat, CallOK, CountsOK, StoreOK, PhaseInv
    <2>3. QuietDownload'
      BY <1>35 DEF DeleteRemote, KnownRemote, NoCall, TInv, QuietInv, QuietDownload, Hash, HashIs, CallOK,
                   CountsOK, StoreOK, PhaseInv
    <2>4. QuietScan'
      BY <1>35 DEF DeleteRemote, KnownRemote, NoCall, TInv, QuietInv, QuietScan, Excused, Hash, HashIs, Same,
                   Settled, Stat, CountsOK, StoreOK, PhaseInv
    <2>5. QuietSync'
      BY <1>35, StatIsSome DEF DeleteRemote, KnownRemote, NoCall, TInv, QuietInv, QuietSync, Excused, Hash,
                               HashIs, Same, Settled, Stat, Syncing, CallOK, CountsOK, StoreOK, PhaseInv
    <2>6. QuietSteady'
      BY <1>35 DEF DeleteRemote, KnownRemote, NoCall, TInv, QuietInv, QuietSteady, Excused, Files, Hash, HashIs,
                   InHand, Same, Settled, Stat, CallOK, CountsOK, StoreOK, PhaseInv, QuietSync, Syncing
    <2> QED
      BY <2>1, <2>2, <2>3, <2>4, <2>5, <2>6 DEF QuietInv
  <1>36. ASSUME ForgetRemote PROVE QuietInv'
    <2>1. QuietFetch'
      BY <1>36 DEF ForgetRemote, NoCall, RemoveRow, TInv, QuietInv, QuietFetch, Stat, BaselineOK, CountsOK,
                   CallOK, PhaseInv
    <2>2. QuietPlan'
      BY <1>36 DEF ForgetRemote, NoCall, RemoveRow, TInv, QuietInv, QuietPlan, Awaited, Excused, Hash, HashIs,
                   InHand, Reconciling, Same, Settled, Stat, BaselineOK, CallOK, CountsOK, TreesOK, SetsOK,
                   PhaseInv
    <2>3. QuietDownload'
      BY <1>36 DEF ForgetRemote, NoCall, RemoveRow, TInv, QuietInv, QuietDownload, Hash, HashIs, CallOK,
                   CountsOK, PhaseInv
    <2>4. QuietScan'
      BY <1>36 DEF ForgetRemote, NoCall, RemoveRow, TInv, QuietInv, QuietScan, Excused, Hash, HashIs, Same,
                   Settled, Stat, BaselineOK, CountsOK, TreesOK, CallOK, PhaseInv
    <2>5. QuietSync'
      BY <1>36 DEF ForgetRemote, NoCall, RemoveRow, TInv, QuietInv, QuietSync, Excused, Hash, HashIs, Same,
                   Settled, Stat, Syncing, BaselineOK, CallOK, CountsOK, TreesOK, SetsOK, PhaseInv
    <2>6. QuietSteady'
      BY <1>36 DEF ForgetRemote, NoCall, RemoveRow, TInv, QuietInv, QuietSteady, Excused, Files, Hash, HashIs,
                   InHand, Same, Settled, Stat, BaselineOK, CallOK, CountsOK, SetsOK, PhaseInv, QuietSync,
                   Syncing
    <2> QED
      BY <2>1, <2>2, <2>3, <2>4, <2>5, <2>6 DEF QuietInv
  <1>37. ASSUME NEW p \in Paths, SkipDelete(p) PROVE QuietInv'
    <2>1. QuietPlan'
      BY <1>37 DEF SkipDelete, KnownRemote, TInv, QuietInv, QuietPlan, Awaited, Excused, Hash, HashIs, InHand,
                   Reconciling, Same, Settled, Stat, SetsOK, PhaseInv
    <2>2. QuietSync'
      BY <1>37, StatIsSome DEF SkipDelete, KnownRemote, TInv, QuietInv, QuietSync, Excused, Hash, HashIs, Same,
                               Settled, Stat, Syncing, SetsOK, PhaseInv
    <2>3. QuietFetch' /\ QuietDownload' /\ QuietScan' /\ QuietSteady'
      BY <1>37 DEF SkipDelete, QuietInv, QuietFetch, QuietDownload, QuietScan, QuietSteady, Stat, Hash, HashIs,
                   Excused, Same, Settled, Files, InHand
    <2> QED
      BY <2>1, <2>2, <2>3 DEF QuietInv
  <1>38. ASSUME FinishScan PROVE QuietInv'
    <2>1. QuietFetch'
      BY <1>38 DEF FinishScan, Persisted, TInv, QuietInv, QuietFetch, Stat, BaselineOK, TreesOK, CountsOK,
                   Nothing, PhaseInv
    <2>2. QuietPlan'
      BY <1>38 DEF FinishScan, Persisted, TInv, QuietInv, QuietPlan, Awaited, Excused, Hash, HashIs, InHand,
                   Reconciling, Same, Settled, Stat, BaselineOK, TreesOK, CountsOK, Nothing, PhaseInv
    <2>3. QuietDownload'
      BY <1>38 DEF FinishScan, Persisted, TInv, QuietInv, QuietDownload, Hash, HashIs, CountsOK, Nothing,
                   PhaseInv
    <2>4. QuietScan'
      BY <1>38 DEF FinishScan, Persisted, TInv, QuietInv, QuietScan, Excused, Hash, HashIs, Same, Settled, Stat,
                   BaselineOK, TreesOK, CountsOK, Nothing, PhaseInv
    <2>5. QuietSync'
      BY <1>38 DEF FinishScan, Persisted, TInv, QuietInv, QuietSync, Excused, Hash, HashIs, Same, Settled, Stat,
                   Syncing, BaselineOK, TreesOK, CountsOK, Nothing, PhaseInv
    <2>6. QuietSteady'
      BY <1>38 DEF FinishScan, Persisted, TInv, QuietInv, QuietSteady, Excused, Files, Hash, HashIs, InHand,
                   Same, Settled, Stat, BaselineOK, TreesOK, CountsOK, Nothing, PhaseInv, QuietSync, Syncing
    <2> QED
      BY <2>1, <2>2, <2>3, <2>4, <2>5, <2>6 DEF QuietInv
  <1>39. ASSUME Poll PROVE QuietInv'
    <2>1. QuietSteady'
      BY <1>39 DEF Poll, TInv, QuietInv, QuietSteady, Excused, Files, Hash, HashIs, InHand, Same, Settled, Stat,
                   QueueOK, PhaseInv
    <2>2. QuietFetch' /\ QuietPlan' /\ QuietDownload' /\ QuietScan' /\ QuietSync'
      BY <1>39 DEF Poll, QuietInv, QuietFetch, QuietPlan, QuietDownload, QuietScan, QuietSync, Stat, Awaited,
                   Excused, Hash, HashIs, InHand, Reconciling, Same, Settled, Syncing
    <2> QED
      BY <2>1, <2>2 DEF QuietInv
  <1>40. ASSUME TakeUpdate PROVE QuietInv'
    <2>1. QuietFetch'
      BY <1>40 DEF TakeUpdate, TInv, QuietInv, QuietFetch, Stat, CountsOK, PhaseInv
    <2>2. QuietPlan'
      BY <1>40 DEF TakeUpdate, TInv, QuietInv, QuietPlan, Awaited, Excused, Hash, HashIs, InHand, Reconciling,
                   Same, Settled, Stat, CountsOK, StoreOK, SetsOK, PhaseInv
    <2>3. QuietDownload'
      BY <1>40 DEF TakeUpdate, TInv, QuietInv, QuietDownload, Hash, HashIs, CountsOK, PhaseInv
    <2>4. QuietScan'
      BY <1>40 DEF TakeUpdate, TInv, QuietInv, QuietScan, Excused, Hash, HashIs, Same, Settled, Stat, CountsOK,
                   PhaseInv
    <2>5. QuietSync'
      BY <1>40 DEF TakeUpdate, TInv, QuietInv, QuietSync, Excused, Hash, HashIs, Same, Settled, Stat, Syncing,
                   CountsOK, SetsOK, PhaseInv
    <2>6. QuietSteady'
      BY <1>40 DEF TakeUpdate, TInv, QuietInv, QuietSteady, Excused, Files, Hash, HashIs, InHand, Same, Settled,
                   Stat, CountsOK, QueueOK, StoreOK, PhaseInv
    <2> QED
      BY <2>1, <2>2, <2>3, <2>4, <2>5, <2>6 DEF QuietInv
  <1>41. ASSUME NEW p \in Paths, SkipDiverged(p) PROVE QuietInv'
    <2>1. QuietPlan'
      BY <1>41 DEF SkipDiverged, Diverged, Stat, TInv, QuietInv, QuietPlan, Awaited, Excused, Hash, HashIs,
                   InHand, Reconciling, Same, Settled, SetsOK, PhaseInv
    <2>2. QuietSync'
      BY <1>41 DEF SkipDiverged, Diverged, Stat, TInv, QuietInv, QuietSync, Excused, Hash, HashIs, Same,
                   Settled, Syncing, SetsOK, PhaseInv
    <2>3. QuietFetch' /\ QuietDownload' /\ QuietScan' /\ QuietSteady'
      BY <1>41 DEF SkipDiverged, QuietInv, QuietFetch, QuietDownload, QuietScan, QuietSteady, Stat, Hash,
                   HashIs, Excused, Same, Settled, Files, InHand
    <2> QED
      BY <2>1, <2>2, <2>3 DEF QuietInv
  <1>42. ASSUME NEW p \in Paths, AdoptMatching(p) PROVE QuietInv'
    <2>1. QuietFetch'
      BY <1>42 DEF AdoptMatching, Adopt, Diverged, Hash, HashIs, RecordRow, RemoteHash, Stat, TInv, QuietInv,
                   QuietFetch, BaselineOK, TreesOK, PhaseInv
    <2>2. QuietPlan'
      BY <1>42 DEF AdoptMatching, Adopt, Diverged, Hash, HashIs, RecordRow, RemoteHash, Stat, TInv, QuietInv,
                   QuietPlan, Awaited, Excused, InHand, Reconciling, Same, Settled, BaselineOK, TreesOK, SetsOK,
                   PhaseInv
    <2>3. QuietScan'
      BY <1>42 DEF AdoptMatching, Adopt, Diverged, Hash, HashIs, RecordRow, RemoteHash, Stat, TInv, QuietInv,
                   QuietScan, Excused, Same, Settled, BaselineOK, TreesOK, PhaseInv
    <2>4. QuietSync'
      BY <1>42 DEF AdoptMatching, Adopt, Diverged, Hash, HashIs, RecordRow, RemoteHash, Stat, TInv, QuietInv,
                   QuietSync, Excused, Same, Settled, Syncing, BaselineOK, TreesOK, SetsOK, PhaseInv
    <2>5. QuietSteady'
      BY <1>42 DEF AdoptMatching, Adopt, Diverged, Hash, HashIs, RecordRow, RemoteHash, Stat, TInv, QuietInv,
                   QuietSteady, Excused, Files, InHand, Same, Settled, BaselineOK, TreesOK, PhaseInv
    <2>6. QuietDownload'
      BY <1>42 DEF AdoptMatching, Adopt, RecordRow, QuietInv, QuietDownload, Hash, HashIs
    <2> QED
      BY <2>1, <2>2, <2>3, <2>4, <2>5, <2>6 DEF QuietInv
  <1>43. ASSUME NEW p \in Paths, SkipStaleDelete(p) PROVE QuietInv'
    <2>1. QuietPlan'
      BY <1>43 DEF SkipStaleDelete, StaleDelete, TInv, QuietInv, QuietPlan, Awaited, Excused, Hash, HashIs,
                   InHand, Reconciling, Same, Settled, Stat, SetsOK, PhaseInv
    <2>2. QuietSync'
      BY <1>43 DEF SkipStaleDelete, StaleDelete, TInv, QuietInv, QuietSync, Excused, Hash, HashIs, Same,
                   Settled, Stat, Syncing, SetsOK, PhaseInv
    <2>3. QuietFetch' /\ QuietDownload' /\ QuietScan' /\ QuietSteady'
      BY <1>43 DEF SkipStaleDelete, QuietInv, QuietFetch, QuietDownload, QuietScan, QuietSteady, Stat, Hash,
                   HashIs, Excused, Same, Settled, Files, InHand
    <2> QED
      BY <2>1, <2>2, <2>3 DEF QuietInv
  <1>44. ASSUME NEW p \in Paths, ApplyDelete(p) PROVE QuietInv'
    <2>1. QuietFetch'
      BY <1>44 DEF ApplyDelete, Losing, NoCall, RemoveLocal, StaleDelete, TInv, QuietInv, QuietFetch, Stat,
                   DiskOK, CountsOK, PhaseInv
    <2>2. QuietPlan'
      BY <1>44 DEF ApplyDelete, Losing, NoCall, RemoveLocal, StaleDelete, TInv, QuietInv, QuietPlan, Awaited,
                   Excused, Hash, HashIs, InHand, Reconciling, Same, Settled, Stat, CallOK, DiskOK, CountsOK,
                   PhaseInv
    <2>3. QuietDownload'
      BY <1>44 DEF ApplyDelete, Losing, NoCall, RemoveLocal, StaleDelete, TInv, QuietInv, QuietDownload, Hash,
                   HashIs, CallOK, DiskOK, CountsOK, PhaseInv
    <2>4. QuietScan'
      BY <1>44 DEF ApplyDelete, Losing, NoCall, RemoveLocal, StaleDelete, TInv, QuietInv, QuietScan, Excused,
                   Hash, HashIs, Same, Settled, Stat, DiskOK, CountsOK, PhaseInv
    <2>5. QuietSync'
      BY <1>44 DEF ApplyDelete, Losing, NoCall, RemoveLocal, StaleDelete, TInv, QuietInv, QuietSync, Excused,
                   Hash, HashIs, Same, Settled, Stat, Syncing, CallOK, DiskOK, CountsOK, PhaseInv
    <2>6. QuietSteady'
      BY <1>44 DEF ApplyDelete, Losing, NoCall, RemoveLocal, StaleDelete, TInv, QuietInv, QuietSteady, Excused,
                   Files, Hash, HashIs, InHand, Same, Settled, Stat, CallOK, DiskOK, CountsOK, PhaseInv
    <2> QED
      BY <2>1, <2>2, <2>3, <2>4, <2>5, <2>6 DEF QuietInv
  <1>45. ASSUME ForgetLocal PROVE QuietInv'
    <2>1. QuietFetch'
      BY <1>45 DEF ForgetLocal, NoCall, RemoveRow, TInv, QuietInv, QuietFetch, Stat, BaselineOK, TreesOK,
                   CountsOK, CallOK, PhaseInv
    <2>2. QuietPlan'
      BY <1>45 DEF ForgetLocal, NoCall, RemoveRow, TInv, QuietInv, QuietPlan, Awaited, Excused, Hash, HashIs,
                   InHand, Reconciling, Same, Settled, Stat, BaselineOK, CallOK, TreesOK, CountsOK, SetsOK,
                   PhaseInv
    <2>3. QuietDownload'
      BY <1>45 DEF ForgetLocal, NoCall, RemoveRow, TInv, QuietInv, QuietDownload, Hash, HashIs, CallOK,
                   CountsOK, PhaseInv
    <2>4. QuietScan'
      BY <1>45 DEF ForgetLocal, NoCall, RemoveRow, TInv, QuietInv, QuietScan, Excused, Hash, HashIs, Same,
                   Settled, Stat, BaselineOK, TreesOK, CountsOK, CallOK, PhaseInv
    <2>5. QuietSync'
      BY <1>45 DEF ForgetLocal, NoCall, RemoveRow, TInv, QuietInv, QuietSync, Excused, Hash, HashIs, Same,
                   Settled, Stat, Syncing, BaselineOK, CallOK, CountsOK, TreesOK, SetsOK, PhaseInv
    <2>6. QuietSteady'
      BY <1>45 DEF ForgetLocal, NoCall, RemoveRow, TInv, QuietInv, QuietSteady, Excused, Files, Hash, HashIs,
                   InHand, Same, Settled, Stat, BaselineOK, CallOK, TreesOK, CountsOK, PhaseInv
    <2> QED
      BY <2>1, <2>2, <2>3, <2>4, <2>5, <2>6 DEF QuietInv
  <1>46. ASSUME FinishUpdate PROVE QuietInv'
    <2>1. QuietFetch'
      BY <1>46 DEF FinishUpdate, Files, TInv, QuietInv, QuietFetch, Stat, CountsOK, Nothing, PhaseInv
    <2>2. QuietPlan'
      BY <1>46 DEF FinishUpdate, Files, TInv, QuietInv, QuietPlan, Awaited, Excused, Hash, HashIs, InHand,
                   Reconciling, Same, Settled, Stat, CountsOK, StoreOK, Nothing, PhaseInv
    <2>3. QuietDownload'
      BY <1>46 DEF FinishUpdate, Files, TInv, QuietInv, QuietDownload, Hash, HashIs, CountsOK, Nothing, PhaseInv
    <2>4. QuietScan'
      BY <1>46 DEF FinishUpdate, Files, TInv, QuietInv, QuietScan, Excused, Hash, HashIs, Same, Settled, Stat,
                   CountsOK, Nothing, PhaseInv
    <2>5. QuietSync'
      BY <1>46 DEF FinishUpdate, Files, TInv, QuietInv, QuietSync, Excused, Hash, HashIs, Same, Settled, Stat,
                   Syncing, CountsOK, Nothing, PhaseInv
    <2>6. QuietSteady'
      BY <1>46 DEF FinishUpdate, Files, TInv, QuietInv, QuietSteady, Excused, Hash, HashIs, InHand, Same,
                   Settled, Stat, CountsOK, SetsOK, StoreOK, Nothing, PhaseInv
    <2> QED
      BY <2>1, <2>2, <2>3, <2>4, <2>5, <2>6 DEF QuietInv
  <1>47. ASSUME PersistUpdates PROVE QuietInv'
    <2>1. QuietFetch'
      BY <1>47 DEF PersistUpdates, Persisted, Seeded, TInv, QuietInv, QuietFetch, Stat, BaselineOK, TreesOK,
                   CountsOK, PhaseInv
    <2>2. QuietPlan'
      BY <1>47 DEF PersistUpdates, Persisted, Seeded, TInv, QuietInv, QuietPlan, Awaited, Excused, Hash, HashIs,
                   InHand, Reconciling, Same, Settled, Stat, BaselineOK, TreesOK, CountsOK, PhaseInv
    <2>3. QuietDownload'
      BY <1>47 DEF PersistUpdates, Persisted, Seeded, TInv, QuietInv, QuietDownload, Hash, HashIs, CountsOK,
                   PhaseInv
    <2>4. QuietScan'
      BY <1>47 DEF PersistUpdates, Persisted, Seeded, TInv, QuietInv, QuietScan, Excused, Hash, HashIs, Same,
                   Settled, Stat, BaselineOK, TreesOK, CountsOK, PhaseInv
    <2>5. QuietSync'
      BY <1>47 DEF PersistUpdates, Persisted, Seeded, TInv, QuietInv, QuietSync, Excused, Hash, HashIs, Same,
                   Settled, Stat, Syncing, BaselineOK, CountsOK, PhaseInv
    <2>6. QuietSteady'
      <3> SUFFICES ASSUME quiet PROVE QuietSteady'
        BY <1>47 DEF PersistUpdates, QuietSteady
      <3>1. /\ pc = "applied" /\ ~starting /\ pc' = "idle" /\ UNCHANGED <<disk, remote, misrecorded, queue>>
            /\ local_state' = Seeded(local_state, remote_index, {}) /\ baseline' = Persisted(local_state')
        BY <1>47 DEF PersistUpdates, TInv, PhaseInv
      <3>2. remote_index = Files(remote) /\ (\A i \in DOMAIN queue : queue[i].snapshot = remote)
        BY <3>1 DEF QuietInv, QuietSteady
      <3>3. ASSUME NEW q \in Paths PROVE Settled(q)' /\ local_state'[q] = Stat(q)'
        <4>1. local_state[q] = Stat(q) /\ Settled(q)
          BY <3>1 DEF QuietInv, QuietSteady, InHand
        <4>2. local_state'[q] = Stat(q)
          BY <3>1, <3>2, <4>1, StatIsSome DEF Seeded, Files, Settled
        <4>3. disk[q] # None /\ baseline[q] # None => baseline'[q] # None /\ baseline'[q].hash = baseline[q].hash
          <5>1. disk[q] # None => baseline'[q] = [stamp |-> Stat(q), hash |-> IF baseline[q] = None THEN None ELSE baseline[q].hash]
            BY <3>1, <4>2, StatIsSome DEF Persisted
          <5>2. disk[q] # None /\ baseline[q] # None => baseline'[q] \in Row
            BY <5>1, StatIsSome DEF TInv, BaselineOK, Row
          <5> QED
            BY <5>1, <5>2, NoneAssumption
        <4> QED
          BY <3>1, <4>1, <4>2, <4>3 DEF Settled, Same, Excused, HashIs, Hash, Stat
      <3> QED
        BY <3>1, <3>2, <3>3 DEF QuietSteady
    <2> QED
      BY <2>1, <2>2, <2>3, <2>4, <2>5, <2>6 DEF QuietInv
  <1>48. ASSUME Ends PROVE QuietInv'
    <2>1. QuietFetch'
      BY <1>48 DEF Ends, Down, NoCall, TInv, QuietInv, QuietFetch, Stat, LoadedOK, TreesOK, CountsOK, Nothing,
                   PhaseInv
    <2>2. QuietPlan'
      BY <1>48 DEF Ends, Down, NoCall, TInv, QuietInv, QuietPlan, Awaited, Excused, Hash, HashIs, InHand,
                   Reconciling, Same, Settled, Stat, CallOK, TreesOK, CountsOK, StoreOK, SetsOK, Nothing,
                   PhaseInv
    <2>3. QuietDownload'
      BY <1>48 DEF Ends, Down, NoCall, TInv, QuietInv, QuietDownload, Hash, HashIs, CallOK, CountsOK, Nothing,
                   PhaseInv
    <2>4. QuietScan'
      BY <1>48 DEF Ends, Down, NoCall, TInv, QuietInv, QuietScan, Excused, Hash, HashIs, Same, Settled, Stat,
                   TreesOK, CountsOK, Nothing, PhaseInv
    <2>5. QuietSync'
      BY <1>48 DEF Ends, Down, NoCall, TInv, QuietInv, QuietSync, Excused, Hash, HashIs, Same, Settled, Stat,
                   Syncing, CallOK, TreesOK, CountsOK, SetsOK, Nothing, PhaseInv
    <2>6. QuietSteady'
      BY <1>48 DEF Ends, Down, NoCall, TInv, QuietInv, QuietSteady, Excused, Files, Hash, HashIs, InHand, Same,
                   Settled, Stat, CallOK, TreesOK, CountsOK, QueueOK, SetsOK, StoreOK, Nothing, PhaseInv
    <2> QED
      BY <2>1, <2>2, <2>3, <2>4, <2>5, <2>6 DEF QuietInv
  <1>49. CASE UNCHANGED folderVars
    BY <1>49 DEF folderVars, QuietInv, QuietFetch, QuietPlan, QuietDownload, QuietScan, QuietSync, QuietSteady,
                 Stat, Awaited, Excused, Hash, HashIs, InHand, Reconciling, Same, Settled, Syncing, Files
  <1> QED
    BY <1>1, <1>2, <1>3, <1>4, <1>5, <1>6, <1>7, <1>8, <1>9, <1>10, <1>11, <1>12, <1>13, <1>14, <1>15, <1>16,
       <1>17, <1>18, <1>19, <1>20, <1>21, <1>22, <1>23, <1>24, <1>25, <1>26, <1>27, <1>28, <1>29, <1>30, <1>31,
       <1>32, <1>33, <1>34, <1>35, <1>36, <1>37, <1>38, <1>39, <1>40, <1>41, <1>42, <1>43, <1>44, <1>45, <1>46,
       <1>47, <1>48, <1>49
    DEF FolderNext, UserStep, OthersStep, ResolverStep, StartupStep, DownloadStep, SyncStep, UpdateStep,
        DownloadFails, UploadFails, Stop, Ends

\* Before its first start the agent is not quiet.
LEMMA QuietStart == FolderInit => QuietInv
  BY DEF FolderInit, QuietInv, QuietFetch, QuietPlan, QuietDownload, QuietScan, QuietSync, QuietSteady

\* A startup that nobody disturbs leaves the same bytes in the folder and in the
\* store, for any number of files and whatever stops, edits, resolutions and lost rows
\* or hashes came before it, except where the row of an unchanged file has the hash
\* of other bytes and the store has just these.
THEOREM StartupsConverge == FolderSpec => []StartupConverges
  <1>1. TInv /\ QuietInv => StartupConverges
    BY DEF TInv, PhaseInv, QuietInv, QuietSteady, Settled, Same, Excused, StartupConverges
  <1> QED
    BY <1>1, TypesStart, TypesKept, BytesStart, BytesKept, RowsStart, RowsKept, QuietStart, QuietKept, PTL
    DEF FolderSpec

-------------------------------------------------------------------------------
(***************************************************************************)
(* Remote bytes that a startup replaces                                    *)
(***************************************************************************)

\* A row whose bytes were never in the folder is a wrong one.
SeenRows ==
    /\ \A q \in Paths : baseline[q] # None => baseline[q].hash \in seen \cup {None} \/ q \in misrecorded
    /\ pc = "fetch" => \A q \in Paths : loaded[q] # None => loaded[q].hash \in seen \/ q \in uncertain

\* The bytes of the snapshot have been in the folder, are in a copy, or could not be
\* copied; or the store has others by now.
Covered(q) ==
    snapshot[q] # None /\ remote[q] = snapshot[q] =>
        remote[q].content \in seen \/ copies[q] = remote[q].content \/ q \in uncopied \cup uncertain

\* What is not covered is still to be copied, or to be downloaded.
CopyPlan ==
    starting /\ pc # "fetch" => \A q \in Paths :
        \/ Covered(q)
        \/ pc = "repair" /\ startup_conflicts[q] = "dual"
        \/ pc = "copy" /\ q \in todo
        \/ Awaited(q) /\ q \notin preserve_local_files /\ q \notin matching_remote_files

CopyDownload ==
    /\ pc = "record" => call.content \in seen
    /\ starting /\ pc \in {"install", "record"} /\ remote[call.path] # None =>
            \/ remote[call.path] # snapshot[call.path]
            \/ call.content = remote[call.path].content

CopyInv == SeenRows /\ CopyPlan /\ CopyDownload

\* Every step of a startup keeps the bytes of its snapshot, or tries to.
LEMMA CopiesKept ==
    ASSUME TInv, HeldInv, CopyInv, [FolderNext]_folderVars
    PROVE  CopyInv'
  <1> USE DEF fileVars, storeVars, rowVars, copyVars, treeVars, planVars, threadVars, pollVars, counterVars, agentVars
  <1>1. ASSUME NEW p \in Paths, Write(p) PROVE CopyInv'
    <2>1. SeenRows'
      BY <1>1, StampIsFresh DEF Write, BeingRecorded, Move, Stat, TInv, CopyInv, SeenRows, PhaseInv
    <2>2. CopyPlan'
      BY <1>1, StampIsFresh DEF Write, BeingRecorded, Move, Stat, TInv, CopyInv, CopyPlan, Awaited, Covered,
                                PhaseInv
    <2>3. CopyDownload'
      BY <1>1, StampIsFresh DEF Write, BeingRecorded, Move, Stat, TInv, CopyInv, CopyDownload, PhaseInv
    <2> QED
      BY <2>1, <2>2, <2>3 DEF CopyInv
  <1>2. ASSUME NEW p \in Paths, KeepLocal(p) PROVE CopyInv'
    <2>1. CopyPlan'
      BY <1>2 DEF KeepLocal, ClearConflict, Move, NoResolution, TInv, CopyInv, CopyPlan, Awaited, Covered,
                  CopiesOK, PhaseInv
    <2>2. SeenRows' /\ CopyDownload'
      BY <1>2 DEF KeepLocal, ClearConflict, Move, CopyInv, SeenRows, CopyDownload
    <2> QED
      BY <2>1, <2>2 DEF CopyInv
  <1>3. ASSUME NEW p \in Paths, RemotePut(p) PROVE CopyInv'
    <2>1. CopyPlan'
      <3> PICK c \in held \cup {moves'} : remote' = [remote EXCEPT ![p] = [content |-> c, version |-> FreshVersion(p)]]
        BY <1>3 DEF RemotePut
      <3>0. c \in Contents
        BY <1>3, BoundsAssumption DEF RemotePut, Move, TInv, CountsOK, BytesOK, Contents
      <3>1. remote'[p] # snapshot[p] /\ (\A q \in Paths \ {p} : remote'[q] = remote[q])
        BY <1>3, <3>0, WrittenDiffers DEF RemotePut, TInv, StoreOK
      <3> QED
        BY <1>3, <3>1 DEF RemotePut, Move, CopyInv, CopyPlan, Covered, Awaited
    <2>2. CopyDownload'
      <3> PICK c \in held \cup {moves'} : remote' = [remote EXCEPT ![p] = [content |-> c, version |-> FreshVersion(p)]]
        BY <1>3 DEF RemotePut
      <3>0. c \in Contents
        BY <1>3, BoundsAssumption DEF RemotePut, Move, TInv, CountsOK, BytesOK, Contents
      <3>1. remote'[p] # snapshot[p] /\ (\A q \in Paths \ {p} : remote'[q] = remote[q])
        BY <1>3, <3>0, WrittenDiffers DEF RemotePut, TInv, StoreOK
      <3> QED
        BY <1>3, <3>1 DEF RemotePut, Move, CopyInv, CopyDownload, TInv, CallOK
    <2>3. SeenRows'
      BY <1>3 DEF RemotePut, Move, CopyInv, SeenRows
    <2> QED
      BY <2>1, <2>2, <2>3 DEF CopyInv
  <1>4. ASSUME NEW p \in Paths, RemoteDelete(p) PROVE CopyInv'
    <2>1. CopyPlan'
      BY <1>4 DEF RemoteDelete, Move, TInv, CopyInv, CopyPlan, Awaited, Covered, StoreOK, PhaseInv
    <2>2. CopyDownload'
      BY <1>4 DEF RemoteDelete, Move, TInv, CopyInv, CopyDownload, StoreOK, PhaseInv
    <2>3. SeenRows'
      BY <1>4 DEF RemoteDelete, Move, CopyInv, SeenRows
    <2> QED
      BY <2>1, <2>2, <2>3 DEF CopyInv
  <1>5. ASSUME ApplyRemoteCopy PROVE CopyInv'
    <2>0. /\ resolver = [path |-> resolver.path, step |-> resolver.step, content |-> resolver.content]
          /\ resolver.path \in Paths /\ resolver.content \in Contents
      BY <1>5, ResolverAtWork DEF ApplyRemoteCopy, Resolve, Steps
    <2>1. SeenRows'
      BY <1>5, StampIsFresh, <2>0 DEF ApplyRemoteCopy, Resolve, Stat, TInv, CopyInv, SeenRows, PhaseInv
    <2>2. CopyPlan'
      BY <1>5, StampIsFresh, <2>0 DEF ApplyRemoteCopy, Resolve, Stat, TInv, CopyInv, CopyPlan, Awaited, Covered,
                                      PhaseInv
    <2>3. CopyDownload'
      BY <1>5, StampIsFresh, <2>0 DEF ApplyRemoteCopy, Resolve, Stat, TInv, CopyInv, CopyDownload, PhaseInv
    <2> QED
      BY <2>1, <2>2, <2>3 DEF CopyInv
  <1>6. ASSUME UploadResolved PROVE CopyInv'
    <2>0. /\ resolver = [path |-> resolver.path, step |-> resolver.step, content |-> resolver.content]
          /\ resolver.path \in Paths /\ disk[resolver.path].content \in Contents
      BY <1>6, ResolverAtWork, StatIsSome DEF UploadResolved, Steps
    <2>1. CopyPlan'
      <3>1. remote'[resolver.path] # snapshot[resolver.path] /\ (\A q \in Paths \ {resolver.path} : remote'[q] = remote[q])
        BY <1>6, <2>0, WrittenDiffers DEF UploadResolved, Hash, TInv, StoreOK
      <3> QED
        BY <1>6, <2>0, <3>1 DEF UploadResolved, Hash, CopyInv, CopyPlan, Covered, Awaited
    <2>2. CopyDownload'
      <3>1. remote'[resolver.path] # snapshot[resolver.path] /\ (\A q \in Paths \ {resolver.path} : remote'[q] = remote[q])
        BY <1>6, <2>0, WrittenDiffers DEF UploadResolved, Hash, TInv, StoreOK
      <3> QED
        BY <1>6, <2>0, <3>1 DEF UploadResolved, Hash, CopyInv, CopyDownload, TInv, CallOK
    <2>3. SeenRows'
      BY <1>6 DEF UploadResolved, CopyInv, SeenRows
    <2> QED
      BY <2>1, <2>2, <2>3 DEF CopyInv
  <1>7. ASSUME RecordResolved PROVE CopyInv'
    <2>0. /\ resolver = [path |-> resolver.path, step |-> resolver.step, content |-> resolver.content]
          /\ resolver.path \in Paths /\ resolver.content \in Contents
      BY <1>7, ResolverAtWork DEF RecordResolved, Resolve, Steps
    <2>1. SeenRows'
      BY <1>7, <2>0 DEF RecordResolved, Hash, HashIs, RecordRow, Resolve, Stat, TInv, CopyInv, SeenRows,
                        BaselineOK, PhaseInv, HeldInv, DiskIsSeen, SetsOK
    <2>2. CopyPlan' /\ CopyDownload'
      BY <1>7 DEF RecordResolved, RecordRow, Resolve, CopyInv, CopyPlan, CopyDownload, Awaited, Covered
    <2> QED
      BY <2>1, <2>2 DEF CopyInv
  <1>8. ASSUME DeleteResolved PROVE CopyInv'
    <2>0. /\ resolver = [path |-> resolver.path, step |-> resolver.step, content |-> resolver.content]
          /\ resolver.path \in Paths
      BY <1>8, ResolverAtWork DEF DeleteResolved, Resolve, Steps
    <2>1. CopyPlan'
      BY <1>8, <2>0 DEF DeleteResolved, Resolve, TInv, CopyInv, CopyPlan, Awaited, Covered, StoreOK, PhaseInv
    <2>2. CopyDownload'
      BY <1>8, <2>0 DEF DeleteResolved, Resolve, TInv, CopyInv, CopyDownload, StoreOK, PhaseInv
    <2>3. SeenRows'
      BY <1>8 DEF DeleteResolved, Resolve, CopyInv, SeenRows
    <2> QED
      BY <2>1, <2>2, <2>3 DEF CopyInv
  <1>9. ASSUME UnrecordResolved PROVE CopyInv'
    <2>0. /\ resolver = [path |-> resolver.path, step |-> resolver.step, content |-> resolver.content]
          /\ resolver.path \in Paths
      BY <1>9, ResolverAtWork DEF UnrecordResolved, Resolve, Steps
    <2>1. SeenRows'
      BY <1>9, <2>0 DEF UnrecordResolved, RemoveRow, Resolve, TInv, CopyInv, SeenRows, BaselineOK, PhaseInv
    <2>2. CopyPlan' /\ CopyDownload'
      BY <1>9 DEF UnrecordResolved, RemoveRow, Resolve, CopyInv, CopyPlan, CopyDownload, Awaited, Covered
    <2> QED
      BY <2>1, <2>2 DEF CopyInv
  <1>10. ASSUME FinishResolution PROVE CopyInv'
    <2>0. /\ resolver = [path |-> resolver.path, step |-> resolver.step, content |-> resolver.content]
          /\ resolver.path \in Paths
      BY <1>10, ResolverAtWork DEF FinishResolution, Steps
    <2>1. CopyPlan'
      BY <1>10, <2>0 DEF FinishResolution, ClearConflict, NoResolution, TInv, CopyInv, CopyPlan, Awaited,
                         Covered, CopiesOK, PhaseInv
    <2>2. SeenRows' /\ CopyDownload'
      BY <1>10 DEF FinishResolution, ClearConflict, CopyInv, SeenRows, CopyDownload
    <2> QED
      BY <2>1, <2>2 DEF CopyInv
  <1>11. ASSUME Start PROVE CopyInv'
    <2>1. SeenRows'
      BY <1>11, NoneAssumption DEF Start, Scan, Stat, TInv, CopyInv, SeenRows, BaselineOK, LoadedOK, CountsOK,
                                   Nothing, PhaseInv, Row
    <2>2. CopyPlan'
      BY <1>11 DEF Start, Scan, Stat, TInv, CopyInv, CopyPlan, Awaited, Covered, CountsOK, Nothing, PhaseInv
    <2>3. CopyDownload'
      BY <1>11 DEF Start, Scan, Stat, TInv, CopyInv, CopyDownload, CountsOK, Nothing, PhaseInv
    <2> QED
      BY <2>1, <2>2, <2>3 DEF CopyInv
  <1>12. ASSUME Reconcile PROVE CopyInv'
    <2>1. SeenRows'
      BY <1>12 DEF Reconcile, BaselineHash, Files, Hash, HashIs, MatchingRemoteFiles, PreserveLocalFiles,
                   RemoteDeleteWinsPaths, StartupConflicts, Unchanged, TInv, CopyInv, SeenRows, LoadedOK,
                   CountsOK, Nothing, PhaseInv
    <2>2. CopyPlan'
      <3> DEFINE matching == MatchingRemoteFiles(remote)
                 preserve == PreserveLocalFiles(remote)
                 wins == RemoteDeleteWinsPaths(remote)
                 dual == StartupConflicts(remote, preserve, wins)
      <3>1. /\ pc = "fetch" /\ pc' = "repair" /\ snapshot' = remote /\ startup_conflicts' = dual
            /\ matching_remote_files' = matching /\ preserve_local_files' = preserve
            /\ UNCHANGED <<seen, remote, copies, uncopied, uncertain, starting>>
        BY <1>12 DEF Reconcile
      <3>2. ASSUME NEW q \in Paths, HashIs(q, remote[q].content) PROVE remote[q].content \in seen
        BY <3>2 DEF HashIs, Hash, HeldInv, DiskIsSeen
      <3>3. ASSUME NEW q \in Paths, remote[q] # None, loaded[q] # None, loaded[q].hash \in {None, remote[q].content}
            PROVE  remote[q].content \in seen \/ q \in uncertain
        <4>1. None \notin seen
          BY NoneAssumption DEF TInv, BytesOK
        <4>2. loaded[q].hash \in seen \/ q \in uncertain
          BY <3>1, <3>3 DEF CopyInv, SeenRows
        <4> QED
          BY <3>3, <4>1, <4>2
      <3>4. ASSUME NEW q \in Paths, q \in matching PROVE remote[q].content \in seen \/ q \in uncertain
        BY <3>2, <3>3, <3>4 DEF MatchingRemoteFiles, Files, Unchanged, BaselineHash
      <3>5. ASSUME NEW q \in Paths, q \in preserve, remote[q] # None
            PROVE  dual[q] = "dual" \/ remote[q].content \in seen \/ q \in uncertain
        <4>1. CASE HashIs(q, remote[q].content)
          BY <3>2, <4>1
        <4>2. CASE ~HashIs(q, remote[q].content) /\ (loaded[q] = None \/ BaselineHash(q) \notin {None, remote[q].content})
          <5>1. q \in preserve \cap Files(remote) /\ q \notin preserve \ (Files(remote) \cup wins)
            BY <3>5 DEF Files
          <5> HIDE DEF preserve, wins
          <5> QED
            BY <4>2, <5>1 DEF StartupConflicts
        <4>3. CASE loaded[q] # None /\ BaselineHash(q) \in {None, remote[q].content}
          BY <3>3, <3>5, <4>3 DEF BaselineHash
        <4> QED
          BY <4>1, <4>2, <4>3
      <3> HIDE DEF matching, preserve, wins, dual
      <3> QED
        BY <3>1, <3>4, <3>5 DEF CopyPlan, Covered, Awaited
    <2>3. CopyDownload'
      BY <1>12 DEF Reconcile, BaselineHash, Files, Hash, HashIs, MatchingRemoteFiles, PreserveLocalFiles,
                   RemoteDeleteWinsPaths, StartupConflicts, Unchanged, TInv, CopyInv, CopyDownload, CountsOK,
                   StoreOK, Nothing, PhaseInv
    <2> QED
      BY <2>1, <2>2, <2>3 DEF CopyInv
  <1>13. ASSUME NEW p \in Paths, RepairRow(p) PROVE CopyInv'
    <2>1. SeenRows'
      BY <1>13 DEF RepairRow, Hash, HashIs, RecordRow, RemoteHash, TInv, CopyInv, SeenRows, BaselineOK,
                   PhaseInv, HeldInv, DiskIsSeen, SetsOK
    <2>2. CopyPlan'
      BY <1>13 DEF RepairRow, Hash, HashIs, RecordRow, RemoteHash, TInv, CopyInv, CopyPlan, Awaited, Covered,
                   SetsOK, PhaseInv
    <2>3. CopyDownload'
      BY <1>13 DEF RepairRow, RecordRow, CopyInv, CopyDownload
    <2> QED
      BY <2>1, <2>2, <2>3 DEF CopyInv
  <1>14. ASSUME BeginCopies PROVE CopyInv'
    <2>1. SeenRows'
      BY <1>14 DEF BeginCopies, TInv, CopyInv, SeenRows, CountsOK, PhaseInv
    <2>2. CopyPlan'
      BY <1>14 DEF BeginCopies, TInv, CopyInv, CopyPlan, Awaited, Covered, CountsOK, SetsOK, PhaseInv
    <2>3. CopyDownload'
      BY <1>14 DEF BeginCopies, TInv, CopyInv, CopyDownload, CountsOK, PhaseInv
    <2> QED
      BY <2>1, <2>2, <2>3 DEF CopyInv
  <1>15. ASSUME NEW p \in Paths, CopyConflict(p) PROVE CopyInv'
    <2>1. CopyPlan'
      BY <1>15 DEF CopyConflict, TInv, CopyInv, CopyPlan, Awaited, Covered, CopiesOK, SetsOK, PhaseInv
    <2>2. SeenRows' /\ CopyDownload'
      BY <1>15 DEF CopyConflict, CopyInv, SeenRows, CopyDownload
    <2> QED
      BY <2>1, <2>2 DEF CopyInv
  <1>16. ASSUME BeginApply PROVE CopyInv'
    <2>1. SeenRows'
      BY <1>16 DEF BeginApply, Files, TInv, CopyInv, SeenRows, CountsOK, PhaseInv
    <2>2. CopyPlan'
      BY <1>16 DEF BeginApply, Files, TInv, CopyInv, CopyPlan, Awaited, Covered, CountsOK, SetsOK, PhaseInv
    <2>3. CopyDownload'
      BY <1>16 DEF BeginApply, Files, TInv, CopyInv, CopyDownload, CountsOK, PhaseInv
    <2> QED
      BY <2>1, <2>2, <2>3 DEF CopyInv
  <1>17. ASSUME NEW p \in Paths, SkipAtStartup(p) PROVE CopyInv'
    <2>1. CopyPlan'
      BY <1>17 DEF SkipAtStartup, KeptAtStartup, TInv, CopyInv, CopyPlan, Awaited, Covered, SetsOK, PhaseInv
    <2>2. SeenRows' /\ CopyDownload'
      BY <1>17 DEF SkipAtStartup, CopyInv, SeenRows, CopyDownload
    <2> QED
      BY <2>1, <2>2 DEF CopyInv
  <1>18. ASSUME BeginRemovals PROVE CopyInv'
    <2>1. SeenRows'
      BY <1>18 DEF BeginRemovals, Files, TInv, CopyInv, SeenRows, CountsOK, PhaseInv
    <2>2. CopyPlan'
      BY <1>18 DEF BeginRemovals, Files, TInv, CopyInv, CopyPlan, Awaited, Covered, CountsOK, SetsOK, PhaseInv
    <2>3. CopyDownload'
      BY <1>18 DEF BeginRemovals, Files, TInv, CopyInv, CopyDownload, CountsOK, PhaseInv
    <2> QED
      BY <2>1, <2>2, <2>3 DEF CopyInv
  <1>19. ASSUME NEW p \in Paths, RemoveWinner(p) PROVE CopyInv'
    <2>1. SeenRows'
      BY <1>19 DEF RemoveWinner, Losing, NoCall, RemoveLocal, TInv, CopyInv, SeenRows, CountsOK, PhaseInv
    <2>2. CopyPlan'
      BY <1>19 DEF RemoveWinner, Losing, NoCall, RemoveLocal, TInv, CopyInv, CopyPlan, Awaited, Covered,
                   CountsOK, PhaseInv
    <2>3. CopyDownload'
      BY <1>19 DEF RemoveWinner, Losing, NoCall, RemoveLocal, TInv, CopyInv, CopyDownload, CallOK, CountsOK,
                   PhaseInv
    <2> QED
      BY <2>1, <2>2, <2>3 DEF CopyInv
  <1>20. ASSUME PersistStartup PROVE CopyInv'
    <2>1. SeenRows'
      BY <1>20 DEF PersistStartup, Persisted, Seeded, StartupBaselineState, TInv, CopyInv, SeenRows, BaselineOK,
                   CountsOK, PhaseInv
    <2>2. CopyPlan'
      BY <1>20 DEF PersistStartup, Persisted, Seeded, StartupBaselineState, TInv, CopyInv, CopyPlan, Awaited,
                   Covered, CountsOK, PhaseInv
    <2>3. CopyDownload'
      BY <1>20 DEF PersistStartup, Persisted, Seeded, StartupBaselineState, TInv, CopyInv, CopyDownload,
                   CountsOK, PhaseInv
    <2> QED
      BY <2>1, <2>2, <2>3 DEF CopyInv
  <1>21. ASSUME FinishStartupSync PROVE CopyInv'
    <2>1. SeenRows'
      BY <1>21 DEF FinishStartupSync, Persisted, TInv, CopyInv, SeenRows, BaselineOK, CountsOK, Nothing,
                   PhaseInv
    <2>2. CopyPlan'
      BY <1>21 DEF FinishStartupSync, Persisted, TInv, CopyInv, CopyPlan, Awaited, Covered, CountsOK, Nothing,
                   PhaseInv
    <2>3. CopyDownload'
      BY <1>21 DEF FinishStartupSync, Persisted, TInv, CopyInv, CopyDownload, CountsOK, Nothing, PhaseInv
    <2> QED
      BY <2>1, <2>2, <2>3 DEF CopyInv
  <1>22. ASSUME FinishStartup PROVE CopyInv'
    <2>1. SeenRows'
      BY <1>22 DEF FinishStartup, TInv, CopyInv, SeenRows, CountsOK, Nothing, PhaseInv
    <2>2. CopyPlan'
      BY <1>22 DEF FinishStartup, TInv, CopyInv, CopyPlan, Awaited, Covered, CountsOK, StoreOK, ConflictsOK,
                   Nothing, PhaseInv
    <2>3. CopyDownload'
      BY <1>22 DEF FinishStartup, TInv, CopyInv, CopyDownload, CountsOK, StoreOK, Nothing, PhaseInv
    <2> QED
      BY <2>1, <2>2, <2>3 DEF CopyInv
  <1>23. ASSUME NEW p \in Paths, Download(p) PROVE CopyInv'
    <2>1. SeenRows'
      BY <1>23 DEF Download, Diverged, Hash, HashIs, KeptAtStartup, RemoteHash, Stat, ToDownload, TInv, CopyInv,
                   SeenRows, CountsOK, PhaseInv
    <2>2. CopyPlan'
      BY <1>23 DEF Download, Diverged, Hash, HashIs, KeptAtStartup, RemoteHash, Stat, ToDownload, TInv, CopyInv,
                   CopyPlan, Awaited, Covered, CountsOK, PhaseInv
    <2>3. CopyDownload'
      BY <1>23 DEF Download, Diverged, Hash, HashIs, KeptAtStartup, RemoteHash, Stat, ToDownload, TInv, CopyInv,
                   CopyDownload, CallOK, CountsOK, PhaseInv
    <2> QED
      BY <2>1, <2>2, <2>3 DEF CopyInv
  <1>24. ASSUME InstallDownload PROVE CopyInv'
    <2>1. SeenRows'
      BY <1>24, StampIsFresh DEF InstallDownload, Losing, Stat, TInv, CopyInv, SeenRows, CountsOK, CallOK,
                                 PhaseInv
    <2>2. CopyPlan'
      BY <1>24, StampIsFresh DEF InstallDownload, Losing, Stat, TInv, CopyInv, CopyPlan, Awaited, Covered,
                                 CountsOK, CallOK, PhaseInv
    <2>3. CopyDownload'
      BY <1>24, StampIsFresh DEF InstallDownload, Losing, Stat, TInv, CopyInv, CopyDownload, CountsOK, CallOK,
                                 PhaseInv
    <2> QED
      BY <2>1, <2>2, <2>3 DEF CopyInv
  <1>25. ASSUME Record PROVE CopyInv'
    <2>1. SeenRows'
      BY <1>25 DEF Record, Adopt, Hash, HashIs, NoCall, RecordRow, Stat, TInv, CopyInv, SeenRows, BaselineOK,
                   CountsOK, CallOK, PhaseInv, HeldInv, DiskIsSeen, SetsOK
    <2>2. CopyPlan'
      <3> DEFINE p == call.path
      <3>1. p \in Paths /\ pc = "record" /\ pc' = "apply" /\ todo' = todo \ {p}
        BY <1>25 DEF Record, TInv, CallOK
      <3>2. starting => Covered(p)
        BY <3>1 DEF CopyInv, CopyDownload, Covered
      <3> HIDE DEF p
      <3> QED
        BY <1>25, <3>1, <3>2 DEF Record, Adopt, CopyInv, CopyPlan, Covered, Awaited
    <2>3. CopyDownload'
      BY <1>25 DEF Record, Adopt, Hash, HashIs, NoCall, RecordRow, Stat, TInv, CopyInv, CopyDownload, CallOK,
                   CountsOK, PhaseInv
    <2> QED
      BY <2>1, <2>2, <2>3 DEF CopyInv
  <1>26. ASSUME ScanLocal PROVE CopyInv'
    <2>1. SeenRows'
      BY <1>26 DEF ScanLocal, Scan, Seeded, Stat, TInv, CopyInv, SeenRows, CountsOK, PhaseInv
    <2>2. CopyPlan'
      BY <1>26 DEF ScanLocal, Scan, Seeded, Stat, TInv, CopyInv, CopyPlan, Awaited, Covered, CountsOK, SetsOK,
                   PhaseInv
    <2>3. CopyDownload'
      BY <1>26 DEF ScanLocal, Scan, Seeded, Stat, TInv, CopyInv, CopyDownload, CountsOK, PhaseInv
    <2> QED
      BY <2>1, <2>2, <2>3 DEF CopyInv
  <1>27. ASSUME NEW p \in Paths, SkipUpload(p) PROVE CopyInv'
    <2>1. CopyPlan'
      BY <1>27 DEF SkipUpload, Suppressed, TInv, CopyInv, CopyPlan, Awaited, Covered, SetsOK, PhaseInv
    <2>2. SeenRows' /\ CopyDownload'
      BY <1>27 DEF SkipUpload, CopyInv, SeenRows, CopyDownload
    <2> QED
      BY <2>1, <2>2 DEF CopyInv
  <1>28. ASSUME NEW p \in Paths, Upload(p) PROVE CopyInv'
    <2>1. SeenRows'
      BY <1>28, VersionIsFresh DEF Upload, Hash, Suppressed, TInv, CopyInv, SeenRows, CountsOK, PhaseInv
    <2>2. CopyPlan'
      <3>1. remote'[p] # snapshot[p] /\ (\A q \in Paths \ {p} : remote'[q] = remote[q])
        BY <1>28, StatIsSome, WrittenDiffers DEF Upload, Hash, TInv, StoreOK
      <3> QED
        BY <1>28, <3>1 DEF Upload, Hash, CopyInv, CopyPlan, Covered, Awaited
    <2>3. CopyDownload'
      BY <1>28, VersionIsFresh DEF Upload, Hash, Suppressed, TInv, CopyInv, CopyDownload, CallOK, CountsOK,
                                   StoreOK, PhaseInv
    <2> QED
      BY <2>1, <2>2, <2>3 DEF CopyInv
  <1>29. ASSUME RecordUpload PROVE CopyInv'
    <2>1. SeenRows'
      BY <1>29 DEF RecordUpload, Hash, HashIs, NoCall, RecordRow, TInv, CopyInv, SeenRows, BaselineOK, CountsOK,
                   CallOK, PhaseInv, HeldInv, DiskIsSeen, SetsOK
    <2>2. CopyPlan'
      BY <1>29 DEF RecordUpload, Hash, HashIs, NoCall, RecordRow, TInv, CopyInv, CopyPlan, Awaited, Covered,
                   CountsOK, SetsOK, CallOK, PhaseInv
    <2>3. CopyDownload'
      BY <1>29 DEF RecordUpload, Hash, HashIs, NoCall, RecordRow, TInv, CopyInv, CopyDownload, CallOK, CountsOK,
                   PhaseInv
    <2> QED
      BY <2>1, <2>2, <2>3 DEF CopyInv
  <1>30. ASSUME NEW p \in Paths, DeleteRemote(p) PROVE CopyInv'
    <2>1. SeenRows'
      BY <1>30 DEF DeleteRemote, KnownRemote, NoCall, TInv, CopyInv, SeenRows, CountsOK, PhaseInv
    <2>2. CopyPlan'
      BY <1>30 DEF DeleteRemote, KnownRemote, NoCall, TInv, CopyInv, CopyPlan, Awaited, Covered, CountsOK,
                   StoreOK, PhaseInv
    <2>3. CopyDownload'
      BY <1>30 DEF DeleteRemote, KnownRemote, NoCall, TInv, CopyInv, CopyDownload, CallOK, CountsOK, StoreOK,
                   PhaseInv
    <2> QED
      BY <2>1, <2>2, <2>3 DEF CopyInv
  <1>31. ASSUME ForgetRemote PROVE CopyInv'
    <2>1. SeenRows'
      BY <1>31 DEF ForgetRemote, NoCall, RemoveRow, TInv, CopyInv, SeenRows, BaselineOK, CountsOK, CallOK,
                   PhaseInv
    <2>2. CopyPlan'
      BY <1>31 DEF ForgetRemote, NoCall, RemoveRow, TInv, CopyInv, CopyPlan, Awaited, Covered, CountsOK, SetsOK,
                   CallOK, PhaseInv
    <2>3. CopyDownload'
      BY <1>31 DEF ForgetRemote, NoCall, RemoveRow, TInv, CopyInv, CopyDownload, CallOK, CountsOK, PhaseInv
    <2> QED
      BY <2>1, <2>2, <2>3 DEF CopyInv
  <1>32. ASSUME NEW p \in Paths, SkipDelete(p) PROVE CopyInv'
    <2>1. CopyPlan'
      BY <1>32 DEF SkipDelete, KnownRemote, TInv, CopyInv, CopyPlan, Awaited, Covered, SetsOK, PhaseInv
    <2>2. SeenRows' /\ CopyDownload'
      BY <1>32 DEF SkipDelete, CopyInv, SeenRows, CopyDownload
    <2> QED
      BY <2>1, <2>2 DEF CopyInv
  <1>33. ASSUME FinishScan PROVE CopyInv'
    <2>1. SeenRows'
      BY <1>33 DEF FinishScan, Persisted, TInv, CopyInv, SeenRows, BaselineOK, CountsOK, Nothing, PhaseInv
    <2>2. CopyPlan'
      BY <1>33 DEF FinishScan, Persisted, TInv, CopyInv, CopyPlan, Awaited, Covered, CountsOK, Nothing, PhaseInv
    <2>3. CopyDownload'
      BY <1>33 DEF FinishScan, Persisted, TInv, CopyInv, CopyDownload, CountsOK, Nothing, PhaseInv
    <2> QED
      BY <2>1, <2>2, <2>3 DEF CopyInv
  <1>34. ASSUME TakeUpdate PROVE CopyInv'
    <2>1. SeenRows'
      BY <1>34 DEF TakeUpdate, TInv, CopyInv, SeenRows, CountsOK, PhaseInv
    <2>2. CopyPlan'
      BY <1>34 DEF TakeUpdate, TInv, CopyInv, CopyPlan, Awaited, Covered, CountsOK, StoreOK, SetsOK, PhaseInv
    <2>3. CopyDownload'
      BY <1>34 DEF TakeUpdate, TInv, CopyInv, CopyDownload, CountsOK, StoreOK, PhaseInv
    <2> QED
      BY <2>1, <2>2, <2>3 DEF CopyInv
  <1>35. ASSUME NEW p \in Paths, SkipDiverged(p) PROVE CopyInv'
    <2>1. CopyPlan'
      BY <1>35 DEF SkipDiverged, Diverged, Stat, TInv, CopyInv, CopyPlan, Awaited, Covered, SetsOK, PhaseInv
    <2>2. SeenRows' /\ CopyDownload'
      BY <1>35 DEF SkipDiverged, CopyInv, SeenRows, CopyDownload
    <2> QED
      BY <2>1, <2>2 DEF CopyInv
  <1>36. ASSUME NEW p \in Paths, AdoptMatching(p) PROVE CopyInv'
    <2>1. SeenRows'
      BY <1>36 DEF AdoptMatching, Adopt, Diverged, Hash, HashIs, RecordRow, RemoteHash, Stat, TInv, CopyInv,
                   SeenRows, BaselineOK, PhaseInv, HeldInv, DiskIsSeen, SetsOK
    <2>2. CopyPlan'
      BY <1>36 DEF AdoptMatching, Adopt, Diverged, Hash, HashIs, RecordRow, RemoteHash, Stat, TInv, CopyInv,
                   CopyPlan, Awaited, Covered, SetsOK, PhaseInv
    <2>3. CopyDownload'
      BY <1>36 DEF AdoptMatching, Adopt, RecordRow, CopyInv, CopyDownload
    <2> QED
      BY <2>1, <2>2, <2>3 DEF CopyInv
  <1>37. ASSUME NEW p \in Paths, SkipStaleDelete(p) PROVE CopyInv'
    <2>1. CopyPlan'
      BY <1>37 DEF SkipStaleDelete, StaleDelete, TInv, CopyInv, CopyPlan, Awaited, Covered, SetsOK, PhaseInv
    <2>2. SeenRows' /\ CopyDownload'
      BY <1>37 DEF SkipStaleDelete, CopyInv, SeenRows, CopyDownload
    <2> QED
      BY <2>1, <2>2 DEF CopyInv
  <1>38. ASSUME NEW p \in Paths, ApplyDelete(p) PROVE CopyInv'
    <2>1. SeenRows'
      BY <1>38 DEF ApplyDelete, Losing, NoCall, RemoveLocal, StaleDelete, TInv, CopyInv, SeenRows, CountsOK,
                   PhaseInv
    <2>2. CopyPlan'
      BY <1>38 DEF ApplyDelete, Losing, NoCall, RemoveLocal, StaleDelete, TInv, CopyInv, CopyPlan, Awaited,
                   Covered, CountsOK, PhaseInv
    <2>3. CopyDownload'
      BY <1>38 DEF ApplyDelete, Losing, NoCall, RemoveLocal, StaleDelete, TInv, CopyInv, CopyDownload, CallOK,
                   CountsOK, PhaseInv
    <2> QED
      BY <2>1, <2>2, <2>3 DEF CopyInv
  <1>39. ASSUME ForgetLocal PROVE CopyInv'
    <2>1. SeenRows'
      BY <1>39 DEF ForgetLocal, NoCall, RemoveRow, TInv, CopyInv, SeenRows, BaselineOK, CountsOK, CallOK,
                   PhaseInv
    <2>2. CopyPlan'
      BY <1>39 DEF ForgetLocal, NoCall, RemoveRow, TInv, CopyInv, CopyPlan, Awaited, Covered, CountsOK, SetsOK,
                   CallOK, PhaseInv
    <2>3. CopyDownload'
      BY <1>39 DEF ForgetLocal, NoCall, RemoveRow, TInv, CopyInv, CopyDownload, CallOK, CountsOK, PhaseInv
    <2> QED
      BY <2>1, <2>2, <2>3 DEF CopyInv
  <1>40. ASSUME FinishUpdate PROVE CopyInv'
    <2>1. SeenRows'
      BY <1>40 DEF FinishUpdate, Files, TInv, CopyInv, SeenRows, CountsOK, Nothing, PhaseInv
    <2>2. CopyPlan'
      BY <1>40 DEF FinishUpdate, Files, TInv, CopyInv, CopyPlan, Awaited, Covered, CountsOK, StoreOK, Nothing,
                   PhaseInv
    <2>3. CopyDownload'
      BY <1>40 DEF FinishUpdate, Files, TInv, CopyInv, CopyDownload, CountsOK, StoreOK, Nothing, PhaseInv
    <2> QED
      BY <2>1, <2>2, <2>3 DEF CopyInv
  <1>41. ASSUME PersistUpdates PROVE CopyInv'
    <2>1. SeenRows'
      BY <1>41 DEF PersistUpdates, Persisted, Seeded, TInv, CopyInv, SeenRows, BaselineOK, CountsOK, PhaseInv
    <2>2. CopyPlan'
      BY <1>41 DEF PersistUpdates, Persisted, Seeded, TInv, CopyInv, CopyPlan, Awaited, Covered, CountsOK,
                   PhaseInv
    <2>3. CopyDownload'
      BY <1>41 DEF PersistUpdates, Persisted, Seeded, TInv, CopyInv, CopyDownload, CountsOK, PhaseInv
    <2> QED
      BY <2>1, <2>2, <2>3 DEF CopyInv
  <1>42. ASSUME Ends PROVE CopyInv'
    <2>1. SeenRows'
      BY <1>42 DEF Ends, Down, NoCall, TInv, CopyInv, SeenRows, LoadedOK, CountsOK, Nothing, PhaseInv
    <2>2. CopyPlan'
      BY <1>42 DEF Ends, Down, NoCall, TInv, CopyInv, CopyPlan, Awaited, Covered, CountsOK, StoreOK,
                   ConflictsOK, SetsOK, Nothing, PhaseInv
    <2>3. CopyDownload'
      BY <1>42 DEF Ends, Down, NoCall, TInv, CopyInv, CopyDownload, CallOK, CountsOK, StoreOK, Nothing, PhaseInv
    <2> QED
      BY <2>1, <2>2, <2>3 DEF CopyInv
  <1>43. ASSUME \/ RemoveResolved \/ AbandonResolution \/ Poll
               \/ \E p \in Paths : Touch(p) \/ Delete(p) \/ KeepRemote(p)
       PROVE  CopyInv'
    BY <1>43 DEF Touch, Move, Delete, KeepRemote, RemoveResolved, Resolve, AbandonResolution, Poll, CopyInv,
                 SeenRows, CopyPlan, CopyDownload, Awaited, Covered
  <1>44. CASE UNCHANGED folderVars
    BY <1>44 DEF folderVars, CopyInv, SeenRows, CopyPlan, CopyDownload, Awaited, Covered
  <1> QED
    BY <1>1, <1>2, <1>3, <1>4, <1>5, <1>6, <1>7, <1>8, <1>9, <1>10, <1>11, <1>12, <1>13, <1>14, <1>15, <1>16,
       <1>17, <1>18, <1>19, <1>20, <1>21, <1>22, <1>23, <1>24, <1>25, <1>26, <1>27, <1>28, <1>29, <1>30, <1>31,
       <1>32, <1>33, <1>34, <1>35, <1>36, <1>37, <1>38, <1>39, <1>40, <1>41, <1>42, <1>43, <1>44
    DEF FolderNext, UserStep, OthersStep, ResolverStep, StartupStep, DownloadStep, SyncStep, UpdateStep,
        DownloadFails, UploadFails, Stop, Ends

\* There are no rows at first.
LEMMA CopiesStart == FolderInit => CopyInv
  BY DEF FolderInit, CopyInv, SeenRows, CopyPlan, CopyDownload, Nothing

\* A startup that uploads or deletes over a file of its snapshot has had the bytes
\* in the folder, has put them into a conflict copy, or has failed to, for any number
\* of files, edits and stops, except where the row has no hash or a wrong one, or its
\* hash could not be loaded.
THEOREM ReplacedBytesAreKept == FolderSpec => StartupKeepsRemoteBytes
  <1> DEFINE Kept(p) ==
               /\ starting /\ pc = "sync" /\ pc' \in {"uploaded", "deleted"} /\ call'.path = p
               /\ remote[p] # None /\ remote[p] = snapshot[p]
               => remote[p].content \in seen \/ copies[p] = remote[p].content \/ p \in uncopied \cup uncertain
  <1>1. ASSUME CopyInv, NEW p \in Paths PROVE Kept(p)
    BY <1>1 DEF CopyInv, CopyPlan, Covered, Awaited
  <1>2. CopyInv => [\A p \in Paths : Kept(p)]_folderVars
    BY <1>1
  <1> QED
    BY <1>2, TypesStart, TypesKept, BytesStart, BytesKept, CopiesStart, CopiesKept, PTL
    DEF FolderSpec, StartupKeepsRemoteBytes

===============================================================================
