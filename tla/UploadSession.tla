---------------------------- MODULE UploadSession ----------------------------
(***************************************************************************)
(* The upload sessions of a node, for clients (lib.rs) and for S3 multipart *)
(* uploads (s3_frontend.rs), the file they are kept in, and the store of   *)
(* operation ids that makes a repeated request of a client harmless.       *)
(*                                                                         *)
(* A handler gives up control where it awaits: between two locked sections *)
(* of the session store, before the object store's lock, and before the    *)
(* file is written.  A handler whose connection is gone is dropped there.  *)
(* A chunk is its bytes; a chunk reference is a hash of them.  All         *)
(* sessions write the same key.  The object id of a session, sizes and     *)
(* owners are left out; a request that they refuse changes nothing.        *)
(***************************************************************************)
EXTENDS Naturals, Sequences, FiniteSets

CONSTANTS Indexes,       \* of chunks, or part numbers
          Contents,      \* what a chunk may hold
          Handlers,      \* requests that are served at the same time
          Operations,    \* operation ids
          Absent,        \* Option::None
          MaxUploads,    \* bound: upload ids made
          MaxRequests,   \* bound: requests, and puts by others
          MaxFaults      \* bound: failed writes, dropped handlers, restarts, lapsed entries

Uploads == 1..MaxUploads
Chunks == [Indexes -> Contents \cup {Absent}]
NoChunks == [i \in Indexes |-> Absent]
Modes == {"fixed", "multipart"}
Session == [mode : Modes, chunks : Chunks, expected : Nat,
            finalizing : BOOLEAN, completed : BOOLEAN, result : Nat]

\* What a client or an S3 client may ask; chunks are the chunk refs that a start
\* names and the node has, or the parts that a completion names.
RequestFields == [kind : {"none", "start", "chunk", "complete", "delete"}, api : Modes,
                  upload : 0..MaxUploads, index : Indexes \cup {Absent},
                  content : Contents \cup {Absent}, chunks : Chunks, expected : Nat]
Response == [status : {"ok", "refused"}, value : Nat]

\* ClientMutationOperationEntry: the fingerprint is the request.
OperationEntry == [request : RequestFields, answer : Response \cup {Absent}]

HandlerState == [pc : {"idle", "wait", "commit", "put", "finish", "reset", "persist", "answer"},
                 op : Operations \cup {Absent}, request : RequestFields, upload : 0..MaxUploads,
                 chunks : Chunks, expected : Nat, version : Nat, answer : Response]

\* None is none of the values that it stands beside.
ASSUME UploadAssumption ==
    /\ Absent \notin Contents /\ Absent \notin Operations
    /\ Absent \notin Session /\ Absent \notin Response /\ Absent \notin OperationEntry
    /\ MaxUploads \in Nat /\ MaxRequests \in Nat /\ MaxFaults \in Nat

VARIABLES
    sessions,    \* UploadSessionStore.sessions
    file,        \* upload_sessions.json
    uploads,     \* how many upload ids were made
    operations,  \* ClientMutationOperationStore.entries
    handler,     \* where each handler is
    versions,    \* of the key: the chunks of each, the last one preferred
    dirty,       \* upload_sessions_dirty
    notified,    \* the permit of upload_sessions_persist_notify
    persister    \* the debounced persister

\* What the properties remember; no action reads it.
VARIABLES
    behind,      \* the file misses what a failed write should have brought
    promises,    \* what handlers have answered about the sessions
    answers,     \* the answers each operation has had
    puts,        \* how often a session was put into the object store
    interrupted, \* sessions whose completion was dropped, or stopped by a restart or an error
    lapsed,      \* operations whose entry was pruned while they ran
    restarts,
    requests, faults   \* count what the bounds bound

persisterVars == <<dirty, notified, persister>>
objectVars == <<versions, puts>>
operationVars == <<operations, answers, lapsed>>
uploadVars == <<sessions, file, uploads, behind, operationVars, handler, objectVars, persisterVars,
                promises, interrupted, restarts, requests, faults>>

Started(mode, chunks, expected) ==
    [mode |-> mode, chunks |-> chunks, expected |-> expected,
     finalizing |-> FALSE, completed |-> FALSE, result |-> 0]

Request(kind, api, upload, index, content, chunks, expected) ==
    [kind |-> kind, api |-> api, upload |-> upload, index |-> index, content |-> content,
     chunks |-> chunks, expected |-> expected]

Refused == [status |-> "refused", value |-> 0]
Ok(value) == [status |-> "ok", value |-> value]
NoRequest == Request("none", "fixed", 0, Absent, Absent, NoChunks, 0)

NoWork == [pc |-> "idle", op |-> Absent, request |-> NoRequest, upload |-> 0, chunks |-> NoChunks,
         expected |-> 0, version |-> 0, answer |-> Refused]

UploadInit ==
    /\ sessions = [u \in Uploads |-> Absent] /\ file = sessions /\ uploads = 0
    /\ operations = [o \in Operations |-> Absent]
    /\ handler = [h \in Handlers |-> NoWork]
    /\ versions = <<>>
    /\ dirty = 0 /\ notified = FALSE
    /\ persister = [pc |-> "waiting", persisted |-> 0, target |-> 0]
    /\ behind = FALSE /\ promises = {} /\ answers = [o \in Operations |-> {}]
    /\ puts = [u \in Uploads |-> 0] /\ interrupted = {} /\ lapsed = {} /\ restarts = 0
    /\ requests = 0 /\ faults = 0

Fault == faults < MaxFaults /\ faults' = faults + 1

-------------------------------------------------------------------------------
(***************************************************************************)
(* run_client_mutation_with_idempotency                                    *)
(***************************************************************************)

InProgress(op) == operations[op] # Absent /\ operations[op].answer = Absent

\* The owner claims the operation and runs up to its next await ...
Proceed(h, op, request, next) ==
    /\ handler' = [handler EXCEPT ![h] = [next EXCEPT !.op = op, !.request = request]]
    /\ operations' = IF op = Absent THEN operations
                     ELSE [operations EXCEPT ![op] = [request |-> request, answer |-> Absent]]
    /\ UNCHANGED <<answers, lapsed>>

\* ... or to its refusal.
Refuse(h, op, request) ==
    /\ handler' = [handler EXCEPT ![h] = NoWork]
    /\ operations' = IF op = Absent THEN operations
                     ELSE [operations EXCEPT ![op] = [request |-> request, answer |-> Refused]]
    /\ answers' = IF op = Absent THEN answers ELSE [answers EXCEPT ![op] = @ \cup {Refused}]
    /\ UNCHANGED lapsed

\* ClientMutationOperationLease::complete: whatever entry the operation has gets
\* the answer.
Answer(h, answer) ==
    LET op == handler[h].op
    IN  /\ handler' = [handler EXCEPT ![h] = NoWork]
        /\ operations' = IF op = Absent \/ operations[op] = Absent THEN operations
                         ELSE [operations EXCEPT ![op].answer = answer]
        /\ answers' = IF op = Absent THEN answers ELSE [answers EXCEPT ![op] = @ \cup {answer}]
        /\ UNCHANGED lapsed

\* The request waits for the owner of its operation, or gets the recorded answer,
\* or is refused because the operation was another request.
Defer(h, op, request) ==
    /\ op # Absent /\ operations[op] # Absent
    /\ IF operations[op].request # request
       THEN handler' = [handler EXCEPT ![h] = NoWork] /\ UNCHANGED answers
       ELSE IF InProgress(op)
       THEN /\ handler' = [handler EXCEPT ![h] = [NoWork EXCEPT !.pc = "wait", !.op = op, !.request = request]]
            /\ UNCHANGED answers
       ELSE /\ handler' = [handler EXCEPT ![h] = NoWork]
            /\ answers' = [answers EXCEPT ![op] = @ \cup {operations[op].answer}]
    /\ UNCHANGED <<sessions, file, uploads, behind, operations, lapsed, objectVars, persisterVars,
                   promises, interrupted, restarts, faults>>

Free(op) == op # Absent => operations[op] = Absent

-------------------------------------------------------------------------------
(***************************************************************************)
(* The first locked section of each handler                                *)
(***************************************************************************)

\* start_upload_session_response, create_multipart_upload_response
StartUpload(h, op, r) ==
    LET u == uploads + 1
    IN  /\ r.kind = "start" /\ uploads < MaxUploads
        /\ uploads' = u
        /\ sessions' = [sessions EXCEPT ![u] = Started(r.api, r.chunks, r.expected)]
        /\ Proceed(h, op, r, [NoWork EXCEPT !.pc = "persist", !.upload = u, !.answer = Ok(u)])

\* A session that takes chunks through this interface.
Open(r, u) ==
    /\ sessions[u] # Absent /\ sessions[u].mode = r.api
    /\ ~sessions[u].completed /\ ~sessions[u].finalizing

\* The preflight of upload_session_chunk_response and upload_multipart_part_response
Preflight(h, op, r) ==
    /\ r.kind = "chunk"
    /\ IF Open(r, r.upload)
       THEN Proceed(h, op, r, [NoWork EXCEPT !.pc = "commit", !.upload = r.upload])
       ELSE Refuse(h, op, r)
    /\ UNCHANGED <<sessions, uploads>>

\* The chunks that a completion takes: all of them, or the parts that it names
\* with their etags.
Complete(s, r) ==
    IF r.api = "fixed" THEN \A i \in Indexes : s.chunks[i] # Absent
    ELSE /\ r.chunks # NoChunks
         /\ \A i \in Indexes : r.chunks[i] # Absent => r.chunks[i] = s.chunks[i]
Taken(s, r) == IF r.api = "fixed" THEN s.chunks ELSE r.chunks

Known(r) == sessions[r.upload] # Absent /\ sessions[r.upload].mode = r.api
Recorded(r) == Known(r) /\ sessions[r.upload].completed

\* Mutant: a completion does not look whether another one is under way.
ReadyTwice(r) == Known(r) /\ ~sessions[r.upload].completed /\ Complete(sessions[r.upload], r)

Ready(r) == Open(r, r.upload) /\ Complete(sessions[r.upload], r)

\* complete_upload_session_response and complete_multipart_upload_response, up to
\* the store's lock: a completed session answers with its result.
Prepare(h, op, r) ==
    LET u == r.upload s == sessions[u]
    IN  /\ r.kind = "complete"
        /\ \/ /\ Recorded(r)
              /\ Proceed(h, op, r, [NoWork EXCEPT !.pc = "answer", !.upload = u, !.answer = Ok(s.result)])
              /\ UNCHANGED sessions
           \/ /\ Ready(r)
              /\ sessions' = [sessions EXCEPT ![u].finalizing = TRUE]
              /\ Proceed(h, op, r, [NoWork EXCEPT !.pc = "put", !.upload = u, !.chunks = Taken(s, r),
                                                  !.expected = s.expected])
           \/ /\ ~Recorded(r) /\ ~Ready(r)
              /\ Refuse(h, op, r)
              /\ UNCHANGED sessions
        /\ UNCHANGED uploads

\* delete_upload_session_response, which takes sessions of both modes that are
\* not being completed, and abort_multipart_upload_response, which takes any
\* multipart session.
Deletable(r) ==
    /\ sessions[r.upload] # Absent
    /\ IF r.api = "fixed" THEN ~sessions[r.upload].finalizing ELSE sessions[r.upload].mode = "multipart"

Remove(h, op, r) ==
    /\ r.kind = "delete"
    /\ IF Deletable(r)
       THEN /\ sessions' = [sessions EXCEPT ![r.upload] = Absent]
            /\ Proceed(h, op, r, [NoWork EXCEPT !.pc = "persist", !.upload = r.upload, !.answer = Ok(0)])
       ELSE Refuse(h, op, r) /\ UNCHANGED sessions
    /\ UNCHANGED uploads

\* Promises about a session end when it is removed or expires.
Withdraw(u) == {p \in promises : p.upload # u}

Serve(h, op, r) ==
    /\ Free(op)
    /\ StartUpload(h, op, r) \/ Preflight(h, op, r) \/ Prepare(h, op, r) \/ Remove(h, op, r)
    /\ promises' = IF r.kind = "delete" /\ sessions' # sessions THEN Withdraw(r.upload) ELSE promises
    /\ UNCHANGED <<file, behind, objectVars, persisterVars, interrupted, restarts, faults>>

\* Operation ids come from clients; S3 requests have none.
Arrive(h, op, r) ==
    /\ handler[h].pc = "idle"
    /\ requests < MaxRequests /\ requests' = requests + 1
    /\ op # Absent => r.api = "fixed"
    /\ Serve(h, op, r) \/ Defer(h, op, r)

\* The owner is done, or gone: the request is looked at again.
Wake(h) ==
    /\ handler[h].pc = "wait" /\ ~InProgress(handler[h].op)
    /\ Serve(h, handler[h].op, handler[h].request) \/ Defer(h, handler[h].op, handler[h].request)
    /\ UNCHANGED requests

-------------------------------------------------------------------------------
(***************************************************************************)
(* The later sections                                                      *)
(***************************************************************************)

Goto(h, pc, answer) == handler' = [handler EXCEPT ![h].pc = pc, ![h].answer = answer]

\* Mutant: the session is not looked at again after the chunk was ingested.
FitsUnseen(r) == Known(r)

\* Mutant: a chunk of a client replaces the one that is there.
FitsReplacing(r) == Open(r, r.upload)

\* A client's chunk never replaces another one, a part does.
Fits(r) ==
    /\ Open(r, r.upload)
    /\ r.api = "fixed" => sessions[r.upload].chunks[r.index] \in {Absent, r.content}

\* The chunk has been ingested, or could not be.
CommitChunk(h) ==
    LET r == handler[h].request
    IN  /\ handler[h].pc = "commit"
        /\ \/ /\ Fits(r)
              /\ sessions' = [sessions EXCEPT ![r.upload].chunks[r.index] = r.content]
              /\ Goto(h, "persist", Ok(0))
              /\ UNCHANGED <<operationVars, faults>>
           \/ /\ (~Fits(r) /\ UNCHANGED faults) \/ Fault
              /\ Answer(h, Refused) /\ UNCHANGED sessions
        /\ UNCHANGED <<file, uploads, behind, objectVars, persisterVars,
                       promises, interrupted, restarts, requests>>

\* put_object_from_chunks: the preferred head is used again if it is the same.
PutVersion(chunks) ==
    IF versions # <<>> /\ versions[Len(versions)] = chunks THEN versions ELSE Append(versions, chunks)

ExpectationMet(h) == handler[h].expected \in {0, Len(versions)}

Put(h) ==
    /\ handler[h].pc = "put" /\ ExpectationMet(h)
    /\ versions' = PutVersion(handler[h].chunks)
    /\ puts' = [puts EXCEPT ![handler[h].upload] = @ + 1]
    /\ handler' = [handler EXCEPT ![h].pc = "finish", ![h].version = Len(versions')]
    /\ UNCHANGED <<sessions, file, uploads, behind, operationVars, persisterVars,
                   promises, interrupted, restarts, requests, faults>>

\* The revision is another one, or the object store fails.
PutFails(h) ==
    /\ handler[h].pc = "put"
    /\ IF ExpectationMet(h) THEN Fault ELSE UNCHANGED faults
    /\ Goto(h, "reset", Refused)
    /\ UNCHANGED <<sessions, file, uploads, behind, operationVars, objectVars, persisterVars,
                   promises, interrupted, restarts, requests>>

\* The S3 records of a new version cannot be written: the request fails and the
\* session is left as it is.
MetadataFails(h) ==
    /\ handler[h].pc = "finish" /\ handler[h].request.api = "multipart"
    /\ Fault
    /\ Answer(h, Refused)
    /\ interrupted' = interrupted \cup {handler[h].upload}
    /\ UNCHANGED <<sessions, file, uploads, behind, objectVars, persisterVars,
                   promises, restarts, requests>>

\* reset_upload_session_finalizing, and the roll-backs
Reset(h) ==
    LET u == handler[h].upload
    IN  /\ handler[h].pc = "reset"
        /\ sessions' = IF sessions[u] # Absent /\ ~sessions[u].completed
                       THEN [sessions EXCEPT ![u].finalizing = FALSE] ELSE sessions
        /\ Goto(h, "persist", Refused)
        /\ UNCHANGED <<file, uploads, behind, operationVars, objectVars, persisterVars,
                       promises, interrupted, restarts, requests, faults>>

\* A finished multipart session lets go of its parts.
Finished(s, v) ==
    [s EXCEPT !.completed = TRUE, !.finalizing = FALSE, !.result = v,
              !.chunks = IF s.mode = "multipart" THEN NoChunks ELSE s.chunks]

\* Nothing is written if the session of a client is gone.
FinishUpload(h) ==
    LET u == handler[h].upload v == handler[h].version
    IN  /\ handler[h].pc = "finish"
        /\ sessions' = IF sessions[u] = Absent THEN sessions
                       ELSE [sessions EXCEPT ![u] = Finished(sessions[u], v)]
        /\ Goto(h, IF sessions[u] = Absent /\ handler[h].request.api = "fixed" THEN "answer" ELSE "persist",
                Ok(v))
        /\ UNCHANGED <<file, uploads, behind, operationVars, objectVars, persisterVars,
                       promises, interrupted, restarts, requests, faults>>

-------------------------------------------------------------------------------
(***************************************************************************)
(* persist_upload_session_store_after_mutation and the persister           *)
(***************************************************************************)

\* What the answer of the handler says about its session.
Promised(h) ==
    LET r == handler[h].request a == handler[h].answer u == handler[h].upload
    IN  IF a = Refused \/ (r.kind # "delete" /\ sessions[u] = Absent) THEN {}
        ELSE {[kind |-> r.kind, upload |-> u, index |-> r.index, content |-> r.content, value |-> a.value]}

\* The whole store is written under its lock.
Persist(h) ==
    /\ handler[h].pc = "persist"
    /\ file' = sessions /\ behind' = FALSE
    /\ Answer(h, handler[h].answer)
    /\ promises' = promises \cup Promised(h)
    /\ UNCHANGED <<sessions, uploads, objectVars, persisterVars, interrupted, restarts, requests, faults>>

\* The answer is the same when the file cannot be written; the persister is told.
PersistFails(h) ==
    /\ handler[h].pc = "persist"
    /\ Fault
    /\ behind' = TRUE /\ dirty' = dirty + 1 /\ notified' = TRUE
    /\ Answer(h, handler[h].answer)
    /\ promises' = promises \cup Promised(h)
    /\ UNCHANGED <<sessions, file, uploads, objectVars, persister, interrupted, restarts, requests>>

\* The result of a session that was completed before, which may not be in the file
\* yet, or of one that is gone.
AnswerResult(h) ==
    /\ handler[h].pc = "answer"
    /\ Answer(h, handler[h].answer)
    /\ UNCHANGED <<sessions, file, uploads, behind, objectVars, persisterVars, promises, interrupted,
                   restarts, requests, faults>>

\* It sleeps, then notes the generation that it is about to write.
PersisterWakes ==
    /\ persister.pc = "waiting" /\ notified
    /\ notified' = FALSE
    /\ persister' = [persister EXCEPT !.pc = "check"]
    /\ UNCHANGED <<sessions, file, uploads, behind, operationVars, handler, objectVars, dirty,
                   promises, interrupted, restarts, requests, faults>>

PersisterChecks ==
    /\ persister.pc = "check"
    /\ persister' = IF dirty = persister.persisted THEN [persister EXCEPT !.pc = "waiting"]
                    ELSE [persister EXCEPT !.pc = "write", !.target = dirty]
    /\ UNCHANGED <<sessions, file, uploads, behind, operationVars, handler, objectVars, dirty, notified,
                   promises, interrupted, restarts, requests, faults>>

\* Mutant: the persister has nothing to do again before it is told.
PersisterGivesUp ==
    /\ persister.pc = "write"
    /\ \/ /\ file' = sessions /\ behind' = FALSE
          /\ persister' = [persister EXCEPT !.pc = "check", !.persisted = persister.target]
          /\ UNCHANGED faults
       \/ /\ Fault
          /\ persister' = [persister EXCEPT !.pc = "waiting"]
          /\ UNCHANGED <<file, behind>>
    /\ UNCHANGED <<sessions, uploads, operationVars, handler, objectVars, dirty, notified,
                   promises, interrupted, restarts, requests>>

PersisterWrites ==
    /\ persister.pc = "write"
    /\ \/ /\ file' = sessions /\ behind' = FALSE
          /\ persister' = [persister EXCEPT !.pc = "check", !.persisted = persister.target]
          /\ UNCHANGED faults
       \/ /\ Fault
          /\ persister' = [persister EXCEPT !.pc = "check"]
          /\ UNCHANGED <<file, behind>>
    /\ UNCHANGED <<sessions, uploads, operationVars, handler, objectVars, dirty, notified,
                   promises, interrupted, restarts, requests>>

-------------------------------------------------------------------------------
(***************************************************************************)
(* Drops, time and restarts                                                *)
(***************************************************************************)

Completing(h, u) == handler[h].pc \in {"put", "finish", "reset"} /\ handler[h].upload = u

\* Mutant: the lease of a dropped handler is not given back.
LeaseKept(h) == operations

\* Drop of the lease: the entry goes, whoever has it now, and waiters look again.
LeaseDropped(h) ==
    LET op == handler[h].op
    IN  IF op = Absent \/ handler[h].pc = "wait" THEN operations ELSE [operations EXCEPT ![op] = Absent]

\* The connection is gone, at an await.
DropHandler(h) ==
    /\ handler[h].pc # "idle"
    /\ Fault
    /\ operations' = LeaseDropped(h)
    /\ interrupted' = interrupted \cup {u \in Uploads : Completing(h, u)}
    /\ handler' = [handler EXCEPT ![h] = NoWork]
    /\ UNCHANGED <<sessions, file, uploads, behind, answers, lapsed, objectVars, persisterVars,
                   promises, restarts, requests>>

\* ClientMutationOperationStore::prune: fifteen minutes, whether or not the owner
\* is done.
Lapse(op) ==
    /\ operations[op] # Absent
    /\ Fault
    /\ operations' = [operations EXCEPT ![op] = Absent]
    /\ lapsed' = IF InProgress(op) THEN lapsed \cup {op} ELSE lapsed
    /\ answers' = [answers EXCEPT ![op] = {}]
    /\ UNCHANGED <<sessions, file, uploads, behind, handler, objectVars, persisterVars,
                   promises, interrupted, restarts, requests>>

\* prune_expired_upload_sessions: a session that nobody touched for a day.
Expire(u) ==
    /\ sessions[u] # Absent
    /\ ~\E h \in Handlers : handler[h].pc # "idle" /\ handler[h].upload = u
    /\ Fault
    /\ sessions' = [sessions EXCEPT ![u] = Absent]
    /\ promises' = Withdraw(u)
    /\ UNCHANGED <<file, uploads, behind, operationVars, handler, objectVars, persisterVars,
                   interrupted, restarts, requests>>

\* A put of the key that has nothing to do with a session.
OtherPut ==
    /\ requests < MaxRequests /\ requests' = requests + 1
    /\ versions' = Append(versions, NoChunks)
    /\ UNCHANGED <<sessions, file, uploads, behind, operationVars, handler, puts, persisterVars,
                   promises, interrupted, restarts, faults>>

Holds(p, s) ==
    LET session == s[p.upload]
    IN  CASE p.kind = "delete" -> session = Absent
          [] p.kind = "start" -> session # Absent
          [] p.kind = "complete" -> session # Absent /\ session.completed /\ session.result = p.value
          [] OTHER -> /\ session # Absent
                      /\ session.mode = "fixed" => session.chunks[p.index] = p.content
                      /\ session.mode = "multipart" =>
                            session.completed \/ session.chunks[p.index] # Absent

\* The node stops and starts again with the file, or without any session when the
\* file cannot be read or parsed; the file is then as it was until the next write.
\* What a failed write or a file that cannot be read has lost is lost.
RestartNode(loaded) ==
    /\ Fault
    /\ restarts' = restarts + 1
    /\ sessions' = IF loaded THEN file ELSE [u \in Uploads |-> Absent]
    /\ handler' = [h \in Handlers |-> NoWork]
    /\ operations' = [o \in Operations |-> Absent]
    /\ answers' = [o \in Operations |-> {}]
    /\ dirty' = 0 /\ notified' = FALSE
    /\ persister' = [pc |-> "waiting", persisted |-> 0, target |-> 0]
    /\ behind' = FALSE
    /\ promises' = IF behind \/ ~loaded THEN {p \in promises : Holds(p, sessions') /\ Holds(p, file)}
                   ELSE promises
    /\ interrupted' = interrupted \cup {u \in Uploads : sessions'[u] # Absent /\ sessions'[u].finalizing}
    /\ lapsed' = {}
    /\ UNCHANGED <<file, uploads, objectVars, requests>>

-------------------------------------------------------------------------------

Revisions == {0, Len(versions)}

StartRequests ==
    {Request("start", "fixed", 0, Absent, Absent, c, e) : c \in Chunks, e \in Revisions}
        \cup {Request("start", "multipart", 0, Absent, Absent, NoChunks, 0)}
SessionRequests(u) ==
    {Request("chunk", api, u, i, c, NoChunks, 0) : api \in Modes, i \in Indexes, c \in Contents}
        \cup {Request("complete", "fixed", u, Absent, Absent, NoChunks, 0)}
        \cup {Request("complete", "multipart", u, Absent, Absent, c, 0) : c \in Chunks}
        \cup {Request("delete", api, u, Absent, Absent, NoChunks, 0) : api \in Modes}

Requests == StartRequests \cup UNION {SessionRequests(u) : u \in 1..uploads}

HandlerStep(h) ==
    \/ \E r \in Requests, op \in Operations \cup {Absent} : Arrive(h, op, r)
    \/ Wake(h) \/ CommitChunk(h) \/ Put(h) \/ PutFails(h) \/ MetadataFails(h)
    \/ Reset(h) \/ FinishUpload(h) \/ Persist(h) \/ PersistFails(h) \/ AnswerResult(h) \/ DropHandler(h)

UploadNext ==
    \/ \E h \in Handlers : HandlerStep(h)
    \/ PersisterWakes \/ PersisterChecks \/ PersisterWrites
    \/ OtherPut
    \/ \E loaded \in BOOLEAN : RestartNode(loaded)
    \/ \E op \in Operations : Lapse(op)
    \/ \E u \in Uploads : Expire(u)

UploadSpec == UploadInit /\ [][UploadNext]_uploadVars

-------------------------------------------------------------------------------
(***************************************************************************)
(* Properties                                                              *)
(***************************************************************************)

\* The sessions, their file, the operations and the handlers have their types.
UploadTypeOK ==
    /\ {sessions, file} \subseteq [Uploads -> Session \cup {Absent}]
    /\ uploads \in 0..MaxUploads
    /\ operations \in [Operations -> OperationEntry \cup {Absent}]
    /\ handler \in [Handlers -> HandlerState]
    /\ \A h \in Handlers :
          /\ handler[h].pc \notin {"idle", "wait"} => handler[h].upload \in 1..uploads
          /\ handler[h].pc = "finish" => handler[h].version \in 1..Len(versions)
    /\ versions \in Seq(Chunks)
    /\ dirty \in Nat /\ notified \in BOOLEAN /\ behind \in BOOLEAN
    /\ persister.pc \in {"waiting", "check", "write"} /\ persister.persisted <= dirty

\* What a handler has answered stays true: a started session, a chunk that was
\* taken, a result, a removal, in memory and, unless a failed write is still to be
\* repeated, in the file, whatever other handlers change and write in between and
\* however often the node restarts, unless it stops while the file is behind or
\* starts without being able to read the file; and as long as the file is behind,
\* the persister is at work or has been told.
AnswersAreKept ==
    /\ \A p \in promises : Holds(p, sessions) /\ (~behind => Holds(p, file))
    /\ behind => notified \/ (persister.pc # "waiting" /\ persister.persisted # dirty)

\* A session is closed exactly while it is completed: no chunk is taken that the
\* object will not have, and the handler that closed it opens it again or ends it,
\* unless it was dropped, the node restarted, or the S3 records could not be written.
\* It is put into the object store once, however many requests to complete it
\* arrive, unless the node restarts before the result is in the file.
CompletionsAreExclusive ==
    /\ \A u \in Uploads : sessions[u] # Absent =>
          /\ \A h \in Handlers : Completing(h, u) =>
                /\ sessions[u].finalizing
                /\ \A i \in Indexes :
                      handler[h].chunks[i] # Absent => handler[h].chunks[i] = sessions[u].chunks[i]
          /\ sessions[u].finalizing /\ u \notin interrupted => \E h \in Handlers : Completing(h, u)
    /\ \A u \in Uploads : puts[u] <= 1 + restarts

\* Requests of one operation all get the same answer, until its completed entry
\* lapses or the node restarts, which forget the answer; and nobody waits for an
\* owner that is gone, unless an entry is pruned while its owner is at work.
OneAnswerPerOperation ==
    \A op \in Operations \ lapsed :
        /\ Cardinality(answers[op]) <= 1
        /\ InProgress(op) => \E h \in Handlers : handler[h].op = op /\ handler[h].pc \notin {"idle", "wait"}

===============================================================================
