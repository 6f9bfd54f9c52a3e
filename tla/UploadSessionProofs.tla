-------------------------- MODULE UploadSessionProofs --------------------------
(***************************************************************************)
(* What a node has answered about upload sessions stays true, a session is *)
(* completed by one request at a time, and an operation has one answer:    *)
(* proved for any number of sessions, chunks, handlers, operations,        *)
(* requests and faults.                                                    *)
(*                                                                         *)
(* None of the three is inductive.  An answer that is about to be given    *)
(* has to be true already (PersistInv), a completion must not meet another *)
(* one of its session, nor one that has put the object before              *)
(* (CompletionInv), and an operation that nobody pruned is under way       *)
(* exactly while one handler works for it, and has no answer before that   *)
(* (OperationInv).                                                         *)
(***************************************************************************)
EXTENDS UploadSession, FiniteSetTheorems, TLAPS

\* A request that names a session names one that was started.
WellFormed(r) ==
    /\ r \in RequestFields
    /\ r.kind \in {"chunk", "complete", "delete"} => r.upload \in 1..uploads
    /\ r.kind = "chunk" => r.index \in Indexes /\ r.content \in Contents

Promise == [kind : {"start", "chunk", "complete", "delete"}, upload : Uploads,
            index : Indexes \cup {Absent}, content : Contents \cup {Absent}, value : Nat]

TypeInv ==
    /\ sessions \in [Uploads -> Session \cup {Absent}] /\ file \in [Uploads -> Session \cup {Absent}]
    /\ uploads \in 0..MaxUploads
    /\ operations \in [Operations -> OperationEntry \cup {Absent}]
    /\ handler \in [Handlers -> HandlerState]
    /\ versions \in Seq(Chunks)
    /\ \A h \in Handlers : handler[h].pc = "finish" => handler[h].version \in 1..Len(versions)
    /\ puts \in [Uploads -> Nat] /\ restarts \in Nat

\* Ids are made once, and nothing is known of those that were not made yet.
RequestOK(h) ==
    /\ handler[h].pc # "idle" => WellFormed(handler[h].request) /\ handler[h].request.kind # "none"
    /\ handler[h].pc \notin {"idle", "wait"} => handler[h].upload \in 1..uploads
    /\ handler[h].pc = "commit" =>
          handler[h].request.kind = "chunk" /\ handler[h].request.upload = handler[h].upload
    /\ handler[h].pc \in {"put", "finish", "reset"} => handler[h].request.kind = "complete"

RequestInv ==
    /\ \A u \in Uploads : u > uploads => sessions[u] = Absent /\ file[u] = Absent /\ puts[u] = 0
    /\ \A h \in Handlers : RequestOK(h)

\* A session that has been put since the last restart is not put again.
Spent(u) ==
    /\ sessions[u] # Absent => sessions[u].completed \/ sessions[u].finalizing
    /\ \A h \in Handlers : handler[h].pc \in {"put", "reset"} => handler[h].upload # u

CompletionOK(u) ==
    /\ sessions[u] # Absent => ~(sessions[u].completed /\ sessions[u].finalizing)
    /\ file[u] # Absent => ~(file[u].completed /\ file[u].finalizing)
    /\ \A g, h \in Handlers : Completing(g, u) /\ Completing(h, u) => g = h
    /\ puts[u] <= restarts \/ (puts[u] = restarts + 1 /\ Spent(u))
    /\ sessions[u] # Absent =>
          /\ \A h \in Handlers : Completing(h, u) =>
                /\ sessions[u].finalizing
                /\ \A i \in Indexes :
                      handler[h].chunks[i] # Absent => handler[h].chunks[i] = sessions[u].chunks[i]
          /\ sessions[u].finalizing /\ u \notin interrupted => \E h \in Handlers : Completing(h, u)

CompletionInv == \A u \in Uploads : CompletionOK(u)

\* What a handler is about to answer is true, and a failed write is not forgotten.
PromiseOK(p) ==
    /\ p \in Promise /\ p.upload \in 1..uploads
    /\ p.kind = "chunk" => p.index \in Indexes /\ p.content \in Contents

PersistInv ==
    /\ \A p \in promises : PromiseOK(p)
    /\ \A h \in Handlers : handler[h].pc = "persist" => \A p \in Promised(h) : Holds(p, sessions)
    /\ AnswersAreKept

PersisterInv ==
    /\ dirty \in Nat /\ notified \in BOOLEAN /\ behind \in BOOLEAN
    /\ persister \in [pc : {"waiting", "check", "write"}, persisted : Nat, target : Nat]
    /\ persister.persisted <= dirty /\ persister.target <= dirty
    /\ behind => persister.persisted # dirty

Owner(h, op) == handler[h].op = op /\ handler[h].pc \notin {"idle", "wait"}

OperationOK(op) ==
    /\ InProgress(op) => \E h \in Handlers : Owner(h, op)
    /\ \A h \in Handlers : Owner(h, op) => InProgress(op)
    /\ \A g, h \in Handlers : Owner(g, op) /\ Owner(h, op) => g = h
    /\ answers[op] # {} => /\ operations[op] # Absent /\ operations[op].answer # Absent
                           /\ answers[op] = {operations[op].answer}

OperationInv ==
    /\ answers \in [Operations -> SUBSET Response]
    /\ \A op \in Operations \ lapsed : OperationOK(op)

UploadInv == TypeInv /\ RequestInv /\ CompletionInv /\ PersisterInv /\ PersistInv /\ OperationInv

-------------------------------------------------------------------------------
(***************************************************************************)
(* Types, and what the parts of an action do                               *)
(***************************************************************************)

\* The values that a handler is built from.
LEMMA Values ==
    /\ NoChunks \in Chunks /\ NoRequest \in RequestFields /\ Refused \in Response
    /\ \A v \in Nat : Ok(v) \in Response /\ Ok(v) # Refused /\ Ok(v).value = v
    /\ NoWork \in HandlerState /\ NoWork.pc = "idle" /\ NoWork.op = Absent /\ NoWork.upload = 0
<1>1. NoChunks \in Chunks
  BY DEF NoChunks, Chunks
<1>2. 0 \in 0..MaxUploads
  BY UploadAssumption
<1>3. NoRequest \in RequestFields
  BY <1>1, <1>2 DEF NoRequest, Request, RequestFields, Modes
<1>4. Refused \in Response /\ \A v \in Nat : Ok(v) \in Response /\ Ok(v) # Refused /\ Ok(v).value = v
  BY DEF Refused, Response, Ok
<1>5. NoWork \in HandlerState /\ NoWork.pc = "idle" /\ NoWork.op = Absent /\ NoWork.upload = 0
  BY <1>1, <1>2, <1>3, <1>4 DEF NoWork, HandlerState
<1> QED
  BY <1>1, <1>3, <1>4, <1>5

\* A handler that changes alone.
Only(h) ==
    /\ handler' \in [Handlers -> HandlerState]
    /\ \A g \in Handlers \ {h} : handler'[g] = handler[g]

\* The handler goes on with the operation in its name.
LEMMA ProceedEffect ==
    ASSUME TypeInv, NEW h \in Handlers, NEW op \in Operations \cup {Absent}, NEW r \in RequestFields,
           NEW next \in HandlerState, Proceed(h, op, r, next)
    PROVE  /\ operations' \in [Operations -> OperationEntry \cup {Absent}]
           /\ Only(h)
           /\ handler'[h].op = op /\ handler'[h].request = r
           /\ handler'[h].pc = next.pc /\ handler'[h].upload = next.upload
           /\ handler'[h].chunks = next.chunks /\ handler'[h].answer = next.answer
           /\ handler'[h].version = next.version
<1> DEFINE w == [next EXCEPT !.op = op, !.request = r]
<1>1. /\ w \in HandlerState /\ w.op = op /\ w.request = r /\ w.pc = next.pc /\ w.upload = next.upload
      /\ w.chunks = next.chunks /\ w.answer = next.answer /\ w.version = next.version
  BY DEF HandlerState
<1>2. handler' = [handler EXCEPT ![h] = w]
  BY DEF Proceed
<1> HIDE DEF w
<1>3. Only(h) /\ handler'[h] = w
  BY <1>1, <1>2 DEF TypeInv, Only
<1>4. [request |-> r, answer |-> Absent] \in OperationEntry
  BY DEF OperationEntry
<1>5. operations' \in [Operations -> OperationEntry \cup {Absent}]
  BY <1>4 DEF Proceed, TypeInv
<1> QED
  BY <1>1, <1>3, <1>5

\* The handler is done at once.
LEMMA RefuseEffect ==
    ASSUME TypeInv, NEW h \in Handlers, NEW op \in Operations \cup {Absent}, NEW r \in RequestFields,
           Refuse(h, op, r)
    PROVE  /\ operations' \in [Operations -> OperationEntry \cup {Absent}]
           /\ Only(h) /\ handler'[h] = NoWork
<1>1. Only(h) /\ handler'[h] = NoWork
  BY Values DEF TypeInv, Only, Refuse
<1>2. [request |-> r, answer |-> Refused] \in OperationEntry
  BY Values DEF OperationEntry
<1> QED
  BY <1>1, <1>2 DEF Refuse, TypeInv

\* The handler is done.
LEMMA AnswerEffect ==
    ASSUME TypeInv, NEW h \in Handlers, NEW a \in Response, Answer(h, a)
    PROVE  /\ operations' \in [Operations -> OperationEntry \cup {Absent}]
           /\ Only(h) /\ handler'[h] = NoWork
<1>1. Only(h) /\ handler'[h] = NoWork
  BY Values DEF TypeInv, Only, Answer
<1>2. handler[h].op \in Operations \cup {Absent}
  BY DEF TypeInv, HandlerState
<1>3. ASSUME NEW op \in Operations, operations[op] # Absent,
             operations' = [operations EXCEPT ![op].answer = a]
      PROVE  operations' \in [Operations -> OperationEntry \cup {Absent}]
  <2>1. operations[op] \in OperationEntry
    BY <1>3 DEF TypeInv
  <2>2. [operations[op] EXCEPT !.answer = a] \in OperationEntry
    BY <2>1 DEF OperationEntry
  <2> QED
    BY <1>3, <2>2 DEF TypeInv
<1> QED
  BY <1>1, <1>2, <1>3 DEF Answer, TypeInv

\* The handler goes to its next section.
LEMMA GotoEffect ==
    ASSUME TypeInv, NEW h \in Handlers, NEW a \in Response,
           NEW pc \in {"finish", "reset", "persist", "answer"}, Goto(h, pc, a)
    PROVE  /\ Only(h)
           /\ handler'[h] = [handler[h] EXCEPT !.pc = pc, !.answer = a]
           /\ handler'[h].pc = pc /\ handler'[h].answer = a /\ handler'[h].op = handler[h].op
           /\ handler'[h].request = handler[h].request /\ handler'[h].upload = handler[h].upload
           /\ handler'[h].chunks = handler[h].chunks /\ handler'[h].version = handler[h].version
<1> DEFINE w == [handler[h] EXCEPT !.pc = pc, !.answer = a]
<1>1. handler[h] \in HandlerState
  BY DEF TypeInv
<1>2. /\ w \in HandlerState /\ w.pc = pc /\ w.answer = a /\ w.op = handler[h].op
      /\ w.request = handler[h].request /\ w.upload = handler[h].upload
      /\ w.chunks = handler[h].chunks /\ w.version = handler[h].version
  BY <1>1 DEF HandlerState
<1>3. handler' = [handler EXCEPT ![h] = w]
  BY <1>1 DEF Goto, TypeInv
<1> HIDE DEF w
<1>4. Only(h) /\ handler'[h] = w
  BY <1>2, <1>3 DEF TypeInv, Only
<1> QED
  BY <1>2, <1>4 DEF w

-------------------------------------------------------------------------------
(***************************************************************************)
(* What each part of the invariant needs of a step                         *)
(***************************************************************************)

\* Requests stay well-formed, since ids are only added.
LEMMA WellFormedStays ==
    ASSUME TypeInv, uploads' \in Nat, uploads <= uploads', NEW r, WellFormed(r)
    PROVE  WellFormed(r)'
  BY DEF WellFormed, TypeInv

\* Ids that are not made yet stay unknown, and the handlers that move stay well-
\* formed.
LEMMA RequestFrame ==
    ASSUME TypeInv, RequestInv, uploads' \in Nat, uploads <= uploads',
           \A g \in Handlers : handler'[g] = handler[g] \/ RequestOK(g)',
           \A u \in Uploads : u > uploads' => sessions'[u] = Absent /\ file'[u] = Absent /\ puts'[u] = 0
    PROVE  RequestInv'
<1>1. ASSUME NEW g \in Handlers, handler'[g] = handler[g] PROVE RequestOK(g)'
  <2>1. RequestOK(g)
    BY DEF RequestInv
  <2>2. WellFormed(handler[g].request) => WellFormed(handler[g].request)'
    <3>1. PICK r : r = handler[g].request
      OBVIOUS
    <3>2. WellFormed(r) => WellFormed(r)'
      BY WellFormedStays
    <3> QED
      BY <1>1, <3>1, <3>2 DEF WellFormed
  <2>3. handler[g].upload \in 1..uploads => handler'[g].upload \in 1..uploads'
    BY <1>1 DEF TypeInv
  <2> QED
    BY <1>1, <2>1, <2>2, <2>3 DEF RequestOK
<1> QED
  BY <1>1 DEF RequestInv

\* An idle handler has no request, and its upload is none.
LEMMA IdleIsOK ==
    ASSUME NEW h, handler'[h].pc = "idle"
    PROVE  RequestOK(h)'
  BY DEF RequestOK

\* A step that does not complete u, and does not touch its session but to remove it.
LEMMA CompletionFrame ==
    ASSUME NEW u \in Uploads, CompletionOK(u),
           sessions'[u] = sessions[u] \/ sessions'[u] = Absent,
           file'[u] = file[u] \/ file'[u] = sessions[u],
           puts'[u] = puts[u], restarts' = restarts, interrupted \subseteq interrupted',
           \A g \in Handlers : \/ handler'[g] = handler[g]
                               \/ ~Completing(g, u) /\ ~Completing(g, u)'
    PROVE  CompletionOK(u)'
<1>1. \A g \in Handlers : /\ Completing(g, u)' <=> Completing(g, u)
                          /\ Completing(g, u)' => handler'[g] = handler[g]
  BY DEF Completing
<1>2. Spent(u) => Spent(u)'
  BY <1>1 DEF Spent, Completing
<1> QED
  BY <1>1, <1>2 DEF CompletionOK

\* How the session of a promise may change.
Keeps(old, new) ==
    /\ old \in Session /\ new \in Session /\ new.mode = old.mode
    /\ old.completed => new.completed /\ new.result = old.result
    /\ old.mode = "fixed" => \A i \in Indexes : old.chunks[i] # Absent => new.chunks[i] = old.chunks[i]
    /\ old.mode = "multipart" =>
          \A i \in Indexes : old.chunks[i] # Absent => new.completed \/ new.chunks[i] # Absent

\* What was promised of a session holds of whatever keeps it.
LEMMA KeepsHolds ==
    ASSUME NEW p, PromiseOK(p), NEW s, NEW n, Holds(p, s),
           n[p.upload] = s[p.upload] \/ Keeps(s[p.upload], n[p.upload])
    PROVE  Holds(p, n)
<1>1. CASE n[p.upload] = s[p.upload]
  BY <1>1 DEF Holds
<1>2. CASE Keeps(s[p.upload], n[p.upload])
  <2>1. s[p.upload] # Absent /\ n[p.upload] # Absent
    BY <1>2, UploadAssumption DEF Keeps
  <2>2. CASE p.kind = "delete"
    BY <2>1, <2>2 DEF Holds
  <2>3. CASE p.kind = "start"
    BY <2>1, <2>3 DEF Holds
  <2>4. CASE p.kind = "complete"
    BY <1>2, <2>1, <2>4 DEF Holds, Keeps
  <2>5. CASE p.kind = "chunk"
    <3>1. p.index \in Indexes /\ p.content # Absent
      BY <2>5, UploadAssumption DEF PromiseOK
    <3> QED
      BY <1>2, <2>1, <2>5, <3>1 DEF Holds, Keeps
  <2> QED
    BY <2>2, <2>3, <2>4, <2>5 DEF PromiseOK, Promise
<1> QED
  BY <1>1, <1>2

\* What a handler is about to answer is a well-formed promise.
LEMMA PromisedIsOK ==
    ASSUME TypeInv, NEW h \in Handlers, RequestOK(h), handler[h].pc = "persist",
           NEW p \in Promised(h)
    PROVE  PromiseOK(p) /\ p.upload = handler[h].upload /\ p.kind = handler[h].request.kind
<1>1. p = [kind |-> handler[h].request.kind, upload |-> handler[h].upload,
           index |-> handler[h].request.index, content |-> handler[h].request.content,
           value |-> handler[h].answer.value]
  BY DEF Promised
<1>2. /\ handler[h].request \in RequestFields /\ handler[h].answer \in Response
      /\ handler[h].upload \in 1..uploads /\ handler[h].request.kind # "none"
      /\ handler[h].request.kind = "chunk" =>
            handler[h].request.index \in Indexes /\ handler[h].request.content \in Contents
      /\ uploads \in 0..MaxUploads
  BY DEF TypeInv, HandlerState, RequestOK, WellFormed
<1>3. handler[h].upload \in Uploads
  BY <1>2, UploadAssumption DEF Uploads
<1> QED
  BY <1>1, <1>2, <1>3 DEF PromiseOK, Promise, RequestFields, Response

\* Promises stay well-formed, since ids are only added.
LEMMA PromiseStays ==
    ASSUME TypeInv, uploads' \in Nat, uploads <= uploads', NEW p, PromiseOK(p)
    PROVE  PromiseOK(p)'
  BY DEF PromiseOK, TypeInv

\* A session that is known is kept, or removed with the promises about it.
Kept(u) ==
    \/ sessions'[u] = sessions[u]
    \/ Keeps(sessions[u], sessions'[u])
    \/ sessions'[u] = Absent /\ \A p \in promises' : p.upload # u

\* A step that writes nothing keeps the promises if it keeps the sessions.
LEMMA PersistFrame ==
    ASSUME TypeInv, RequestInv, PersistInv, uploads' \in Nat, uploads <= uploads',
           promises' \subseteq promises, UNCHANGED <<file, behind, persisterVars>>,
           \A u \in 1..uploads : Kept(u),
           \A g \in Handlers : handler'[g] # handler[g] /\ handler'[g].pc = "persist" =>
              \A p \in Promised(g)' : Holds(p, sessions')
    PROVE  PersistInv'
<1>1. \A p \in promises' : PromiseOK(p)'
  BY PromiseStays DEF PersistInv
<1>2. ASSUME NEW g \in Handlers, handler'[g].pc = "persist", NEW p \in Promised(g)'
      PROVE  Holds(p, sessions')
  <2>1. CASE handler'[g] # handler[g]
    BY <1>2, <2>1
  <2>2. CASE handler'[g] = handler[g]
    <3> DEFINE u == handler[g].upload
    <3>1. handler'[g] = handler[g] /\ RequestOK(g) /\ handler[g].pc = "persist"
      BY <1>2, <2>2 DEF RequestInv
    <3>2. u \in 1..uploads
      BY <3>1 DEF RequestOK
    <3>3. /\ p.upload = u /\ p.kind = handler[g].request.kind
          /\ p.kind = "delete" \/ sessions'[u] # Absent
      BY <1>2, <3>1 DEF Promised
    <3>4. CASE sessions'[u] = Absent /\ p.kind = "delete"
      BY <3>3, <3>4 DEF Holds
    <3>5. CASE sessions'[u] # Absent \/ sessions'[u] = sessions[u]
      <4>1. sessions'[u] = sessions[u] \/ Keeps(sessions[u], sessions'[u])
        BY <3>2, <3>5 DEF Kept
      <4>2. sessions'[u] # Absent => sessions[u] # Absent
        BY <4>1, UploadAssumption DEF Keeps
      <4>3. p \in Promised(g)
        BY <1>2, <3>1, <3>3, <4>2 DEF Promised
      <4>4. Holds(p, sessions) /\ PromiseOK(p)
        BY <3>1, <4>3, PromisedIsOK DEF PersistInv
      <4> QED
        BY <3>3, <4>1, <4>4, KeepsHolds
    <3> QED
      BY <3>3, <3>4, <3>5
  <2> QED
    BY <2>1, <2>2
<1>3. ASSUME NEW p \in promises' PROVE Holds(p, sessions') /\ (~behind' => Holds(p, file'))
  <2>1. PromiseOK(p) /\ Holds(p, sessions) /\ (~behind => Holds(p, file))
    BY DEF PersistInv, AnswersAreKept
  <2>2. Kept(p.upload) /\ ~(\A q \in promises' : q.upload # p.upload)
    BY <2>1 DEF PromiseOK
  <2>3. Holds(p, sessions')
    BY <2>1, <2>2, KeepsHolds DEF Kept
  <2> QED
    BY <2>1, <2>3
<1>4. behind' => notified' \/ (persister'.pc # "waiting" /\ persister'.persisted # dirty')
  BY DEF PersistInv, AnswersAreKept, persisterVars
<1> QED
  BY <1>1, <1>2, <1>3, <1>4 DEF PersistInv, AnswersAreKept

-------------------------------------------------------------------------------
(***************************************************************************)
(* The sections of the handlers                                            *)
(***************************************************************************)

StoreInv == TypeInv /\ RequestInv /\ CompletionInv /\ PersisterInv /\ PersistInv

storeVars == <<sessions, file, uploads, behind, objectVars, persisterVars, promises, restarts>>

\* A handler that neither completes a session nor is about to answer.
LEMMA QuietStep ==
    ASSUME StoreInv, NEW h \in Handlers, Only(h), UNCHANGED storeVars, interrupted \subseteq interrupted',
           operations' \in [Operations -> OperationEntry \cup {Absent}], RequestOK(h)',
           \A u \in Uploads : ~Completing(h, u) \/ u \in interrupted',
           handler'[h].pc \notin {"put", "finish", "reset", "persist"}
    PROVE  StoreInv'
<1>1. TypeInv'
  BY DEF StoreInv, TypeInv, storeVars, objectVars, Only
<1>2. RequestInv'
  <2>1. uploads' = uploads /\ uploads \in Nat
    BY DEF StoreInv, TypeInv, storeVars
  <2> QED
    BY <2>1, RequestFrame DEF StoreInv, RequestInv, storeVars, objectVars, Only
<1>3. ASSUME NEW u \in Uploads PROVE CompletionOK(u)'
  <2>1. CompletionOK(u)
    BY DEF StoreInv, CompletionInv
  <2>2. UNCHANGED <<sessions, file, puts, restarts>>
    BY DEF storeVars, objectVars
  <2>3. /\ ~Completing(h, u)'
        /\ \A g \in Handlers \ {h} : handler'[g] = handler[g] /\ (Completing(g, u)' <=> Completing(g, u))
    BY DEF Completing, Only
  <2>4. Spent(u) => Spent(u)'
    BY <2>2 DEF Spent, Only
  <2>5. u \notin interrupted' => u \notin interrupted /\ ~Completing(h, u)
    OBVIOUS
  <2> QED
    BY <2>1, <2>2, <2>3, <2>4, <2>5 DEF CompletionOK
<1>4. PersisterInv'
  BY DEF StoreInv, PersisterInv, storeVars, persisterVars
<1>5. PersistInv'
  <2>1. uploads' = uploads /\ uploads \in Nat
    BY DEF StoreInv, TypeInv, storeVars
  <2>2. \A u \in 1..uploads : Kept(u)
    BY DEF storeVars, Kept
  <2> QED
    BY <2>1, <2>2, PersistFrame DEF StoreInv, storeVars, Only
<1> QED
  BY <1>1, <1>2, <1>3, <1>4, <1>5 DEF StoreInv, CompletionInv

\* What the first section of every request leaves alone.
LEMMA ServeFrame ==
    ASSUME NEW h, NEW op, NEW r, Serve(h, op, r)
    PROVE  /\ UNCHANGED <<file, behind, objectVars, persisterVars, interrupted, restarts>>
           /\ r.kind # "delete" => promises' = promises
           /\ sessions' = sessions => promises' = promises
           /\ promises' \subseteq promises
  BY DEF Serve, Withdraw

\* A refusal changes no session.
LEMMA RefuseInv ==
    ASSUME StoreInv, NEW h \in Handlers, handler[h].pc \in {"idle", "wait"},
           NEW op \in Operations \cup {Absent}, NEW r, WellFormed(r), Serve(h, op, r),
           Refuse(h, op, r), UNCHANGED <<sessions, uploads>>
    PROVE  StoreInv'
<1>1. /\ operations' \in [Operations -> OperationEntry \cup {Absent}]
      /\ Only(h) /\ handler'[h] = NoWork
  BY RefuseEffect DEF WellFormed, StoreInv
<1>2. UNCHANGED storeVars /\ UNCHANGED interrupted
  BY ServeFrame DEF storeVars
<1>3. RequestOK(h)' /\ handler'[h].pc = "idle"
  BY <1>1, Values, IdleIsOK
<1>4. \A u \in Uploads : ~Completing(h, u)
  BY DEF Completing
<1> QED
  BY <1>1, <1>2, <1>3, <1>4, QuietStep

\* The new session is under an id of which nothing was known.
LEMMA StartUploadInv ==
    ASSUME StoreInv, NEW h \in Handlers, handler[h].pc \in {"idle", "wait"},
           NEW op \in Operations \cup {Absent}, NEW r, WellFormed(r), Serve(h, op, r),
           StartUpload(h, op, r)
    PROVE  StoreInv'
<1>0. PICK u \in Nat : u = uploads + 1
  BY DEF StoreInv, TypeInv
<1> DEFINE next == [NoWork EXCEPT !.pc = "persist", !.upload = u, !.answer = Ok(u)]
<1>1. /\ r.kind = "start" /\ u = uploads + 1 /\ uploads \in Nat /\ uploads' = u /\ u \in Uploads /\ u \in 0..MaxUploads
      /\ sessions' = [sessions EXCEPT ![u] = Started(r.api, r.chunks, r.expected)]
      /\ r \in RequestFields /\ u \in Nat
  BY <1>0, UploadAssumption DEF StartUpload, StoreInv, TypeInv, WellFormed, Uploads
<1>2. /\ next \in HandlerState /\ next.pc = "persist" /\ next.upload = u /\ next.answer = Ok(u)
      /\ Proceed(h, op, r, next)
  BY <1>0, <1>1, Values DEF HandlerState, StartUpload
<1> HIDE DEF next
<1>3. /\ operations' \in [Operations -> OperationEntry \cup {Absent}] /\ Only(h)
      /\ handler'[h].request = r /\ handler'[h].pc = "persist" /\ handler'[h].upload = u
  BY <1>1, <1>2, ProceedEffect DEF StoreInv
<1>4. Started(r.api, r.chunks, r.expected) \in Session
  BY <1>1 DEF Started, Session, RequestFields
<1>5. /\ sessions'[u] = Started(r.api, r.chunks, r.expected) /\ sessions'[u] # Absent
      /\ \A v \in Uploads \ {u} : sessions'[v] = sessions[v]
      /\ sessions' \in [Uploads -> Session \cup {Absent}]
  BY <1>1, <1>4, UploadAssumption DEF StoreInv, TypeInv
<1>6. /\ UNCHANGED <<file, behind, versions, puts, persisterVars, interrupted, restarts, promises>>
  BY <1>1, ServeFrame DEF objectVars
<1>7. TypeInv'
  BY <1>1, <1>3, <1>5, <1>6 DEF StoreInv, TypeInv, Only
<1>8. RequestInv'
  <2>1. WellFormed(r)'
    BY <1>1, WellFormedStays DEF StoreInv
  <2>2. RequestOK(h)'
    BY <1>1, <1>3, <2>1 DEF RequestOK
  <2>3. \A v \in Uploads : v > uploads' => sessions'[v] = Absent /\ file'[v] = Absent /\ puts'[v] = 0
    BY <1>1, <1>5, <1>6 DEF StoreInv, RequestInv, Uploads
  <2> QED
    BY <1>1, <1>3, <2>2, <2>3, RequestFrame DEF StoreInv, Only
<1>9. ASSUME NEW v \in Uploads PROVE CompletionOK(v)'
  <2>1. CompletionOK(v) /\ \A g \in Handlers : handler'[g] = handler[g] \/ (~Completing(g, v) /\ ~Completing(g, v)')
    BY <1>3 DEF StoreInv, CompletionInv, Completing, Only
  <2>2. CASE v # u
    BY <1>5, <1>6, <2>1, <2>2, CompletionFrame
  <2>3. CASE v = u
    <3>1. \A g \in Handlers : ~Completing(g, u)
      BY <1>1 DEF StoreInv, RequestInv, RequestOK, Completing
    <3>2. \A g \in Handlers : ~Completing(g, u)'
      BY <2>1, <2>3, <3>1 DEF Completing
    <3>3. file'[u] = Absent /\ puts'[u] = 0 /\ restarts' \in Nat
      BY <1>1, <1>6 DEF StoreInv, RequestInv, TypeInv
    <3>4. ~sessions'[u].finalizing /\ ~sessions'[u].completed
      BY <1>5 DEF Started
    <3>5. puts'[u] <= restarts'
      BY <3>3
    <3> QED
      BY <2>3, <3>2, <3>3, <3>4, <3>5 DEF CompletionOK
  <2> QED
    BY <2>2, <2>3
<1>10. PersisterInv'
  BY <1>6 DEF StoreInv, PersisterInv, persisterVars
<1>11. PersistInv'
  <2>1. \A v \in 1..uploads : Kept(v)
    BY <1>1, <1>5 DEF Kept, Uploads
  <2>2. \A p \in Promised(h)' : Holds(p, sessions')
    BY <1>1, <1>3, <1>5 DEF Promised, Holds
  <2>3. /\ TypeInv /\ RequestInv /\ PersistInv /\ uploads' \in Nat /\ uploads <= uploads'
        /\ promises' \subseteq promises /\ UNCHANGED <<file, behind, persisterVars>>
        /\ \A g \in Handlers \ {h} : handler'[g] = handler[g]
    BY <1>1, <1>3, <1>6 DEF StoreInv, Only
  <2> QED
    BY <2>1, <2>2, <2>3, PersistFrame
<1> QED
  BY <1>7, <1>8, <1>9, <1>10, <1>11 DEF StoreInv, CompletionInv

\* A step that changes the session u alone, keeps what it promises, and moves one
\* handler of it.
LEMMA SessionFrame ==
    ASSUME StoreInv, NEW h \in Handlers, Only(h), NEW u \in Uploads,
           operations' \in [Operations -> OperationEntry \cup {Absent}],
           sessions' \in [Uploads -> Session \cup {Absent}], Kept(u), promises' \subseteq promises,
           \A v \in Uploads \ {u} : sessions'[v] = sessions[v],
           u <= uploads, UNCHANGED <<file, uploads, behind, versions, puts, persisterVars, restarts>>,
           interrupted \subseteq interrupted',
           handler'[h].pc = "finish" => handler'[h].version \in 1..Len(versions),
           RequestOK(h)', CompletionOK(u)',
           \A v \in Uploads \ {u} : ~Completing(h, v) /\ ~Completing(h, v)',
           handler'[h].pc = "persist" => \A p \in Promised(h)' : Holds(p, sessions')
    PROVE  StoreInv'
<1>0. uploads \in Nat /\ uploads' = uploads /\ uploads <= uploads'
  BY DEF StoreInv, TypeInv
<1>1. TypeInv'
  BY DEF StoreInv, TypeInv, Only
<1>2. RequestInv'
  <2>1. \A v \in Uploads : v > uploads' => sessions'[v] = Absent /\ file'[v] = Absent /\ puts'[v] = 0
    BY <1>0 DEF StoreInv, RequestInv, Uploads
  <2>2. TypeInv /\ RequestInv /\ \A g \in Handlers \ {h} : handler'[g] = handler[g]
    BY DEF StoreInv, Only
  <2> QED
    BY <1>0, <2>1, <2>2, RequestFrame
<1>3. ASSUME NEW v \in Uploads PROVE CompletionOK(v)'
  <2>1. CASE v = u
    BY <2>1
  <2>2. CASE v # u
    <3>1. CompletionOK(v) /\ sessions'[v] = sessions[v] /\ file'[v] = file[v] /\ puts'[v] = puts[v]
      BY <2>2 DEF StoreInv, CompletionInv
    <3>2. \A g \in Handlers : handler'[g] = handler[g] \/ (~Completing(g, v) /\ ~Completing(g, v)')
      BY <2>2 DEF Only
    <3> QED
      BY <3>1, <3>2, CompletionFrame
  <2> QED
    BY <2>1, <2>2
<1>4. PersisterInv'
  BY DEF StoreInv, PersisterInv, persisterVars
<1>5. PersistInv'
  <2>1. \A v \in 1..uploads : Kept(v)
    <3>1. \A v \in 1..uploads : v \in Uploads
      BY UploadAssumption DEF StoreInv, TypeInv, Uploads
    <3> QED
      BY <3>1 DEF Kept
  <2>2. /\ TypeInv /\ RequestInv /\ PersistInv
        /\ \A g \in Handlers \ {h} : handler'[g] = handler[g]
    BY DEF StoreInv, Only
  <2> QED
    BY <1>0, <2>1, <2>2, PersistFrame
<1> QED
  BY <1>1, <1>2, <1>3, <1>4, <1>5 DEF StoreInv, CompletionInv

\* The session that a well-formed request names.
LEMMA NamedSession ==
    ASSUME StoreInv, NEW u \in 1..uploads
    PROVE  u \in Uploads /\ u \in 0..MaxUploads /\ u <= uploads
           /\ sessions[u] \in Session \cup {Absent} /\ CompletionOK(u)
<1>1. u \in Uploads /\ u \in 0..MaxUploads /\ u <= uploads
  BY UploadAssumption DEF StoreInv, TypeInv, Uploads
<1> QED
  BY <1>1 DEF StoreInv, TypeInv, CompletionInv

\* The preflight of a chunk changes no session.
LEMMA PreflightInv ==
    ASSUME StoreInv, NEW h \in Handlers, handler[h].pc \in {"idle", "wait"},
           NEW op \in Operations \cup {Absent}, NEW r, WellFormed(r), Serve(h, op, r),
           Preflight(h, op, r)
    PROVE  StoreInv'
<1> DEFINE next == [NoWork EXCEPT !.pc = "commit", !.upload = r.upload]
<1>1. CASE Refuse(h, op, r)
  BY <1>1, RefuseInv DEF Preflight
<1>2. CASE Proceed(h, op, r, next)
  <2>1. r.kind = "chunk" /\ r.upload \in 1..uploads /\ r.upload \in 0..MaxUploads /\ r \in RequestFields
    BY NamedSession DEF Preflight, WellFormed
  <2>2. next \in HandlerState /\ next.pc = "commit" /\ next.upload = r.upload
    BY <2>1, Values DEF HandlerState
  <2> HIDE DEF next
  <2>3. /\ operations' \in [Operations -> OperationEntry \cup {Absent}] /\ Only(h)
        /\ handler'[h].request = r /\ handler'[h].pc = "commit" /\ handler'[h].upload = r.upload
    BY <1>2, <2>1, <2>2, ProceedEffect DEF StoreInv
  <2>4. UNCHANGED storeVars /\ UNCHANGED interrupted
    BY ServeFrame DEF storeVars, Preflight
  <2>5. RequestOK(h)'
    <3>1. WellFormed(r)'
      BY <2>4 DEF WellFormed, storeVars
    <3> QED
      BY <2>1, <2>3, <2>4, <3>1 DEF RequestOK, storeVars
  <2>6. \A u \in Uploads : ~Completing(h, u)
    BY DEF Completing
  <2> QED
    BY <2>3, <2>4, <2>5, <2>6, QuietStep
<1> QED
  BY <1>1, <1>2 DEF Preflight

\* A completion takes an open session, so that nobody else is completing it.
LEMMA PrepareInv ==
    ASSUME StoreInv, NEW h \in Handlers, handler[h].pc \in {"idle", "wait"},
           NEW op \in Operations \cup {Absent}, NEW r, WellFormed(r), Serve(h, op, r),
           Prepare(h, op, r)
    PROVE  StoreInv'
<1> DEFINE u == r.upload
<1>1. /\ r.kind = "complete" /\ u \in 1..uploads /\ r \in RequestFields
      /\ u \in Uploads /\ u \in 0..MaxUploads /\ u <= uploads
      /\ sessions[u] \in Session \cup {Absent} /\ CompletionOK(u) /\ uploads' = uploads
  BY NamedSession DEF Prepare, WellFormed
<1>2. /\ UNCHANGED <<file, behind, objectVars, persisterVars, interrupted, restarts, promises>>
  BY <1>1, ServeFrame
<1>3. \A v \in Uploads : ~Completing(h, v)
  BY DEF Completing
<1>4. WellFormed(r)'
  BY <1>1 DEF WellFormed
<1>5. CASE Refuse(h, op, r) /\ UNCHANGED sessions
  BY <1>1, <1>5, RefuseInv
<1> DEFINE answer == [NoWork EXCEPT !.pc = "answer", !.upload = u, !.answer = Ok(sessions[u].result)]
<1>6. CASE Recorded(r) /\ Proceed(h, op, r, answer) /\ UNCHANGED sessions
  <2>1. sessions[u].result \in Nat
    BY <1>1, <1>6 DEF Recorded, Known, Session
  <2>2. answer \in HandlerState /\ answer.pc = "answer" /\ answer.upload = u
    BY <1>1, <2>1, Values DEF HandlerState
  <2> HIDE DEF answer
  <2>3. /\ operations' \in [Operations -> OperationEntry \cup {Absent}] /\ Only(h)
        /\ handler'[h].request = r /\ handler'[h].pc = "answer" /\ handler'[h].upload = u
    BY <1>1, <1>6, <2>2, ProceedEffect DEF StoreInv
  <2>4. RequestOK(h)'
    BY <1>1, <1>4, <2>3 DEF RequestOK
  <2>5. UNCHANGED storeVars
    BY <1>1, <1>2, <1>6 DEF storeVars
  <2> QED
    BY <1>2, <1>3, <2>3, <2>4, <2>5, QuietStep
<1> DEFINE put == [NoWork EXCEPT !.pc = "put", !.upload = u, !.chunks = Taken(sessions[u], r),
                                 !.expected = sessions[u].expected]
<1>7. CASE Ready(r) /\ Proceed(h, op, r, put) /\ sessions' = [sessions EXCEPT ![u].finalizing = TRUE]
  <2>1. /\ sessions[u] \in Session /\ ~sessions[u].completed /\ ~sessions[u].finalizing
        /\ Complete(sessions[u], r)
    BY <1>1, <1>7 DEF Ready, Open
  <2>2. /\ Taken(sessions[u], r) \in Chunks /\ sessions[u].expected \in Nat
        /\ \A i \in Indexes : Taken(sessions[u], r)[i] # Absent =>
              Taken(sessions[u], r)[i] = sessions[u].chunks[i]
    BY <1>1, <2>1 DEF Taken, Complete, Session, RequestFields
  <2>3. put \in HandlerState /\ put.pc = "put" /\ put.upload = u /\ put.chunks = Taken(sessions[u], r)
    BY <1>1, <2>2, Values DEF HandlerState
  <2> HIDE DEF put
  <2>4. /\ operations' \in [Operations -> OperationEntry \cup {Absent}] /\ Only(h)
        /\ handler'[h].request = r /\ handler'[h].pc = "put" /\ handler'[h].upload = u
        /\ handler'[h].chunks = Taken(sessions[u], r)
    BY <1>1, <1>7, <2>3, ProceedEffect DEF StoreInv
  <2>5. /\ sessions'[u] = [sessions[u] EXCEPT !.finalizing = TRUE]
        /\ \A v \in Uploads \ {u} : sessions'[v] = sessions[v]
    BY <1>1, <1>7 DEF StoreInv, TypeInv
  <2>6. /\ sessions'[u] \in Session /\ sessions'[u].finalizing /\ ~sessions'[u].completed
        /\ sessions'[u].chunks = sessions[u].chunks /\ sessions'[u].mode = sessions[u].mode
    BY <2>1, <2>5 DEF Session
  <2>7. Kept(u) /\ sessions' \in [Uploads -> Session \cup {Absent}]
    BY <1>1, <1>7, <2>1, <2>5, <2>6 DEF Kept, Keeps, StoreInv, TypeInv
  <2>8. RequestOK(h)'
    BY <1>1, <1>4, <2>4 DEF RequestOK
  <2>9. CompletionOK(u)'
    <3>1. \A g \in Handlers : ~Completing(g, u)
      BY <1>1, <2>1, UploadAssumption DEF CompletionOK
    <3>2. \A g \in Handlers : Completing(g, u)' <=> g = h
      BY <2>4, <3>1 DEF Completing, Only
    <3>3. puts'[u] = puts[u] /\ restarts' = restarts /\ puts[u] <= restarts
      BY <1>1, <1>2, <2>1, UploadAssumption DEF CompletionOK, Spent, objectVars
    <3>4. file'[u] # Absent => ~(file'[u].completed /\ file'[u].finalizing)
      BY <1>1, <1>2 DEF CompletionOK
    <3>5. \A i \in Indexes : handler'[h].chunks[i] # Absent => handler'[h].chunks[i] = sessions'[u].chunks[i]
      BY <2>2, <2>4, <2>6
    <3> QED
      BY <2>6, <3>2, <3>3, <3>4, <3>5 DEF CompletionOK
  <2>10. \A v \in Uploads \ {u} : ~Completing(h, v) /\ ~Completing(h, v)'
    BY <1>3, <2>4 DEF Completing
  <2> QED
    BY <1>1, <1>2, <2>4, <2>5, <2>7, <2>8, <2>9, <2>10, SessionFrame DEF objectVars
<1> QED
  BY <1>5, <1>6, <1>7 DEF Prepare

\* A session that is removed takes the promises about it along.
LEMMA RemoveInv ==
    ASSUME StoreInv, NEW h \in Handlers, handler[h].pc \in {"idle", "wait"},
           NEW op \in Operations \cup {Absent}, NEW r, WellFormed(r), Serve(h, op, r),
           Remove(h, op, r)
    PROVE  StoreInv'
<1> DEFINE u == r.upload
           next == [NoWork EXCEPT !.pc = "persist", !.upload = u, !.answer = Ok(0)]
<1>1. CASE Refuse(h, op, r) /\ UNCHANGED sessions
  BY <1>1, RefuseInv DEF Remove
<1>2. CASE Deletable(r) /\ sessions' = [sessions EXCEPT ![u] = Absent] /\ Proceed(h, op, r, next)
  <2>1. /\ r.kind = "delete" /\ u \in 1..uploads /\ r \in RequestFields
        /\ u \in Uploads /\ u \in 0..MaxUploads /\ u <= uploads
        /\ sessions[u] \in Session \cup {Absent} /\ CompletionOK(u) /\ uploads' = uploads
    BY NamedSession DEF Remove, WellFormed
  <2>2. next \in HandlerState /\ next.pc = "persist" /\ next.upload = u
    <3>1. Ok(0) \in Response
      BY Values
    <3> QED
      BY <2>1, <3>1, Values DEF HandlerState
  <2> HIDE DEF next
  <2>3. /\ operations' \in [Operations -> OperationEntry \cup {Absent}] /\ Only(h)
        /\ handler'[h].request = r /\ handler'[h].pc = "persist" /\ handler'[h].upload = u
    BY <1>2, <2>1, <2>2, ProceedEffect DEF StoreInv
  <2>4. /\ sessions'[u] = Absent /\ sessions[u] # Absent
        /\ \A v \in Uploads \ {u} : sessions'[v] = sessions[v]
        /\ sessions' \in [Uploads -> Session \cup {Absent}]
    BY <1>2, <2>1 DEF StoreInv, TypeInv, Deletable
  <2>5. promises' = Withdraw(u)
    BY <2>1, <2>4 DEF Serve
  <2>6. /\ UNCHANGED <<file, behind, versions, puts, persisterVars, interrupted, restarts>>
        /\ promises' \subseteq promises
    BY ServeFrame DEF objectVars
  <2>7. Kept(u)
    BY <2>4, <2>5 DEF Kept, Withdraw
  <2>8. RequestOK(h)'
    <3>1. WellFormed(r)'
      BY <2>1 DEF WellFormed
    <3> QED
      BY <2>1, <2>3, <3>1 DEF RequestOK
  <2>9. \A v \in Uploads : ~Completing(h, v) /\ ~Completing(h, v)'
    BY <2>3 DEF Completing
  <2>10. CompletionOK(u)'
    <3>1. \A g \in Handlers : handler'[g] = handler[g] \/ (~Completing(g, u) /\ ~Completing(g, u)')
      BY <2>1, <2>3, <2>9 DEF Only
    <3> QED
      BY <2>1, <2>4, <2>6, <3>1, CompletionFrame
  <2>11. \A p \in Promised(h)' : Holds(p, sessions')
    BY <2>1, <2>3, <2>4 DEF Promised, Holds
  <2> QED
    BY <2>1, <2>3, <2>4, <2>6, <2>7, <2>8, <2>9, <2>10, <2>11, SessionFrame
<1> QED
  BY <1>1, <1>2 DEF Remove

\* The first section of a request, whatever it asks.
LEMMA ServeInv ==
    ASSUME StoreInv, NEW h \in Handlers, handler[h].pc \in {"idle", "wait"},
           NEW op \in Operations \cup {Absent}, NEW r, WellFormed(r), Serve(h, op, r)
    PROVE  StoreInv'
  BY StartUploadInv, PreflightInv, PrepareInv, RemoveInv DEF Serve

\* A request that waits, or repeats a recorded answer, changes no session.
LEMMA DeferInv ==
    ASSUME StoreInv, NEW h \in Handlers, handler[h].pc \in {"idle", "wait"},
           NEW op \in Operations \cup {Absent}, NEW r, WellFormed(r), r.kind # "none",
           Defer(h, op, r)
    PROVE  StoreInv'
<1> DEFINE wait == [NoWork EXCEPT !.pc = "wait", !.op = op, !.request = r]
<1>1. /\ NoWork \in HandlerState /\ NoWork.pc = "idle"
      /\ wait \in HandlerState /\ wait.pc = "wait" /\ wait.request = r
  BY Values DEF HandlerState, WellFormed
<1>2. handler' = [handler EXCEPT ![h] = NoWork] \/ handler' = [handler EXCEPT ![h] = wait]
  BY DEF Defer
<1> HIDE DEF wait
<1>3. Only(h) /\ handler'[h] \in {NoWork, wait}
  BY <1>1, <1>2 DEF Only, StoreInv, TypeInv
<1>4. UNCHANGED storeVars /\ UNCHANGED <<interrupted, operations>>
  BY DEF Defer, storeVars
<1>5. operations' \in [Operations -> OperationEntry \cup {Absent}]
  BY <1>4 DEF StoreInv, TypeInv
<1>6. RequestOK(h)'
  <2>1. WellFormed(r)'
    BY <1>4 DEF WellFormed, storeVars
  <2> QED
    BY <1>1, <1>3, <2>1 DEF RequestOK
<1>7. (\A u \in Uploads : ~Completing(h, u)) /\ handler'[h].pc \in {"idle", "wait"}
  BY <1>1, <1>3 DEF Completing
<1> QED
  BY <1>3, <1>4, <1>5, <1>6, <1>7, QuietStep

\* The requests that arrive are well-formed.
LEMMA RequestsAreWellFormed ==
    ASSUME TypeInv, NEW r \in Requests
    PROVE  WellFormed(r) /\ r.kind # "none"
<1>1. NoChunks \in Chunks /\ 0 \in Nat /\ 0 \in 0..MaxUploads /\ Len(versions) \in Nat
  BY Values, UploadAssumption DEF TypeInv
<1>2. CASE r \in StartRequests
  BY <1>1, <1>2 DEF StartRequests, Request, Revisions, WellFormed, RequestFields, Modes
<1>3. ASSUME NEW u \in 1..uploads, r \in SessionRequests(u) PROVE WellFormed(r) /\ r.kind # "none"
  <2>1. u \in 0..MaxUploads
    BY UploadAssumption DEF TypeInv
  <2> QED
    BY <1>1, <1>3, <2>1 DEF SessionRequests, Request, WellFormed, RequestFields, Modes
<1> QED
  BY <1>2, <1>3 DEF Requests

\* A request arrives.
LEMMA ArriveInv ==
    ASSUME StoreInv, NEW h \in Handlers, NEW op \in Operations \cup {Absent}, NEW r \in Requests,
           Arrive(h, op, r)
    PROVE  StoreInv'
<1>1. WellFormed(r) /\ r.kind # "none"
  BY RequestsAreWellFormed DEF StoreInv
<1> QED
  BY <1>1, ServeInv, DeferInv DEF Arrive

\* A request that waited is looked at again.
LEMMA WakeInv ==
    ASSUME StoreInv, NEW h \in Handlers, Wake(h)
    PROVE  StoreInv'
<1>1. /\ WellFormed(handler[h].request) /\ handler[h].request.kind # "none"
      /\ handler[h].op \in Operations \cup {Absent}
  BY DEF Wake, StoreInv, RequestInv, RequestOK, TypeInv, HandlerState
<1>2. PICK r : r = handler[h].request
  OBVIOUS
<1>3. PICK op \in Operations \cup {Absent} : op = handler[h].op
  BY <1>1
<1>4. WellFormed(r) /\ r.kind # "none" /\ handler[h].pc \in {"idle", "wait"}
  BY <1>1, <1>2 DEF Wake
<1>5. Serve(h, op, r) \/ Defer(h, op, r)
  BY <1>2, <1>3 DEF Wake
<1> QED
  BY <1>4, <1>5, ServeInv, DeferInv

\* A chunk is taken by an open session, which nobody completes, and replaces no
\* promised one.
LEMMA CommitChunkInv ==
    ASSUME StoreInv, NEW h \in Handlers, CommitChunk(h)
    PROVE  StoreInv'
<1>1. PICK r : r = handler[h].request
  OBVIOUS
<1>2. PICK u : u = r.upload
  OBVIOUS
<1>3. /\ handler[h].pc = "commit" /\ handler[h].upload = u /\ u \in 1..uploads
      /\ r \in RequestFields /\ r.kind = "chunk" /\ r.index \in Indexes /\ r.content \in Contents
      /\ RequestOK(h) /\ handler[h].op \in Operations \cup {Absent}
  BY <1>1, <1>2 DEF CommitChunk, StoreInv, RequestInv, RequestOK, WellFormed, TypeInv, HandlerState
<1>4. /\ u \in Uploads /\ u <= uploads /\ sessions[u] \in Session \cup {Absent} /\ CompletionOK(u)
  BY <1>3, NamedSession
<1>5. /\ UNCHANGED <<file, uploads, behind, objectVars, persisterVars, promises, interrupted, restarts>>
  BY DEF CommitChunk
<1>6. \A v \in Uploads : ~Completing(h, v)
  BY <1>3 DEF Completing
<1>7. CASE Answer(h, Refused) /\ UNCHANGED sessions
  <2>1. /\ operations' \in [Operations -> OperationEntry \cup {Absent}]
        /\ Only(h) /\ handler'[h] = NoWork
    BY <1>7, Values, AnswerEffect DEF StoreInv
  <2>2. RequestOK(h)' /\ handler'[h].pc = "idle" /\ UNCHANGED storeVars
    BY <1>5, <1>7, <2>1, Values, IdleIsOK DEF storeVars
  <2> QED
    BY <1>5, <1>6, <2>1, <2>2, QuietStep
<1>8. CASE /\ Fits(r) /\ sessions' = [sessions EXCEPT ![u].chunks[r.index] = r.content]
           /\ Goto(h, "persist", Ok(0)) /\ UNCHANGED operationVars
  <2>1. /\ Only(h) /\ handler'[h].pc = "persist" /\ handler'[h].request = r /\ handler'[h].upload = u
    <3>1. Ok(0) \in Response
      BY Values
    <3> QED
      BY <1>1, <1>3, <1>8, <3>1, GotoEffect DEF StoreInv
  <2>2. /\ sessions[u] \in Session /\ ~sessions[u].finalizing /\ ~sessions[u].completed
        /\ sessions[u].mode = r.api
        /\ r.api = "fixed" => sessions[u].chunks[r.index] \in {Absent, r.content}
    BY <1>2, <1>4, <1>8 DEF Fits, Open
  <2>3. /\ sessions'[u] = [sessions[u] EXCEPT !.chunks[r.index] = r.content]
        /\ \A v \in Uploads \ {u} : sessions'[v] = sessions[v]
    BY <1>4, <1>8 DEF StoreInv, TypeInv
  <2>4. /\ sessions'[u] = [sessions[u] EXCEPT !.chunks = [sessions[u].chunks EXCEPT ![r.index] = r.content]]
        /\ [sessions[u].chunks EXCEPT ![r.index] = r.content] \in Chunks
    BY <1>3, <2>2, <2>3 DEF Session, Chunks
  <2>5. /\ sessions'[u] \in Session /\ sessions'[u].mode = sessions[u].mode
        /\ ~sessions'[u].finalizing /\ ~sessions'[u].completed
        /\ sessions'[u].chunks = [sessions[u].chunks EXCEPT ![r.index] = r.content]
    BY <2>2, <2>4 DEF Session
  <2>6. /\ sessions'[u].chunks[r.index] = r.content /\ r.content # Absent
        /\ \A i \in Indexes : sessions'[u].chunks[i] = IF i = r.index THEN r.content ELSE sessions[u].chunks[i]
    BY <1>3, <2>2, <2>5, UploadAssumption DEF Session, Chunks
  <2>7. Kept(u) /\ sessions' \in [Uploads -> Session \cup {Absent}]
    <3>1. Keeps(sessions[u], sessions'[u])
      BY <2>2, <2>5, <2>6 DEF Keeps, Session
    <3>2. sessions' \in [Uploads -> Session \cup {Absent}]
      BY <1>4, <1>8, <2>3, <2>5 DEF StoreInv, TypeInv
    <3> QED
      BY <3>1, <3>2 DEF Kept
  <2>8. RequestOK(h)'
    <3>1. WellFormed(r)'
      BY <1>1, <1>3, <1>5 DEF WellFormed, RequestOK
    <3> QED
      BY <1>3, <1>5, <2>1, <3>1 DEF RequestOK
  <2>9. \A v \in Uploads : ~Completing(h, v)'
    BY <2>1 DEF Completing
  <2>10. CompletionOK(u)'
    <3>1. \A g \in Handlers : ~Completing(g, u)
      BY <1>4, <2>2, UploadAssumption DEF CompletionOK
    <3>2. \A g \in Handlers : ~Completing(g, u)'
      BY <2>1, <2>9, <3>1, <1>4 DEF Completing, Only
    <3>3. puts'[u] = puts[u] /\ restarts' = restarts /\ puts[u] <= restarts
      BY <1>4, <1>5, <2>2, UploadAssumption DEF CompletionOK, Spent, objectVars
    <3>4. file'[u] # Absent => ~(file'[u].completed /\ file'[u].finalizing)
      BY <1>4, <1>5 DEF CompletionOK
    <3> QED
      BY <2>5, <3>2, <3>3, <3>4 DEF CompletionOK
  <2>11. \A p \in Promised(h)' : Holds(p, sessions')
    <3>1. SUFFICES ASSUME NEW p \in Promised(h)' PROVE Holds(p, sessions')
      OBVIOUS
    <3>2. p.kind = "chunk" /\ p.upload = u /\ p.index = r.index /\ p.content = r.content
      BY <1>3, <2>1 DEF Promised
    <3>3. sessions'[u] # Absent
      BY <2>5, UploadAssumption
    <3> QED
      BY <2>6, <3>2, <3>3 DEF Holds
  <2>12. operations' \in [Operations -> OperationEntry \cup {Absent}]
    BY <1>8 DEF operationVars, StoreInv, TypeInv
  <2> QED
    BY <1>4, <1>5, <1>6, <2>1, <2>3, <2>7, <2>8, <2>9, <2>10, <2>11, <2>12, SessionFrame DEF objectVars
<1> QED
  BY <1>1, <1>2, <1>7, <1>8 DEF CommitChunk

\* A handler that completes a session.
LEMMA CompletingHandler ==
    ASSUME StoreInv, NEW h \in Handlers, handler[h].pc \in {"put", "finish", "reset"},
           NEW u, u = handler[h].upload
    PROVE  /\ u \in Uploads /\ u <= uploads /\ u \in 1..uploads /\ Completing(h, u)
           /\ sessions[u] \in Session \cup {Absent} /\ CompletionOK(u)
           /\ sessions[u] # Absent => sessions[u].finalizing /\ ~sessions[u].completed
           /\ \A g \in Handlers \ {h} : ~Completing(g, u)
           /\ \A v \in Uploads \ {u} : ~Completing(h, v)
           /\ handler[h].request.kind = "complete" /\ WellFormed(handler[h].request) /\ RequestOK(h)
           /\ handler[h].chunks \in Chunks /\ handler[h].version \in Nat
<1>1. /\ RequestOK(h) /\ handler[h].request.kind = "complete" /\ WellFormed(handler[h].request)
      /\ u \in 1..uploads /\ handler[h].chunks \in Chunks /\ handler[h].version \in Nat
  BY DEF StoreInv, RequestInv, RequestOK, TypeInv, HandlerState
<1>2. Completing(h, u) /\ \A v \in Uploads \ {u} : ~Completing(h, v)
  BY DEF Completing
<1>3. u \in Uploads /\ u <= uploads /\ sessions[u] \in Session \cup {Absent} /\ CompletionOK(u)
  BY <1>1, NamedSession
<1> QED
  BY <1>1, <1>2, <1>3 DEF CompletionOK

\* A handler that goes on keeps its request.
LEMMA GoesOn ==
    ASSUME NEW h, RequestOK(h), handler[h].pc \notin {"idle", "wait"}, UNCHANGED uploads,
           handler'[h].pc \notin {"idle", "wait", "commit"},
           handler'[h].request = handler[h].request, handler'[h].upload = handler[h].upload,
           handler'[h].request.kind = "complete" \/ handler'[h].pc \notin {"put", "finish", "reset"}
    PROVE  RequestOK(h)'
<1>1. WellFormed(handler[h].request)'
  <2>1. PICK r : r = handler[h].request
    OBVIOUS
  <2>2. WellFormed(r)'
    BY <2>1 DEF WellFormed, RequestOK
  <2> QED
    BY <2>1, <2>2 DEF WellFormed
<1> QED
  BY <1>1 DEF RequestOK, WellFormed

\* The one handler that completes the session puts it; it was not put since the
\* restart.
LEMMA PutInv ==
    ASSUME StoreInv, NEW h \in Handlers, Put(h)
    PROVE  StoreInv'
<1>1. PICK u : u = handler[h].upload
  OBVIOUS
<1>2. handler[h].pc = "put"
  BY DEF Put
<1>3. /\ u \in Uploads /\ u \in 1..uploads /\ Completing(h, u) /\ CompletionOK(u)
      /\ sessions[u] # Absent => sessions[u].finalizing /\ ~sessions[u].completed
      /\ \A g \in Handlers \ {h} : ~Completing(g, u)
      /\ \A v \in Uploads \ {u} : ~Completing(h, v)
      /\ handler[h].request.kind = "complete" /\ RequestOK(h) /\ handler[h].chunks \in Chunks
  BY <1>1, <1>2, CompletingHandler
<1>4. versions' \in Seq(Chunks) /\ Len(versions') \in Nat \ {0} /\ Len(versions) <= Len(versions')
  <2>1. versions \in Seq(Chunks) /\ versions' = PutVersion(handler[h].chunks)
    BY DEF Put, StoreInv, TypeInv
  <2> QED
    BY <1>3, <2>1 DEF PutVersion
<1>5. /\ Only(h) /\ handler'[h].pc = "finish" /\ handler'[h].version = Len(versions')
      /\ handler'[h].request = handler[h].request /\ handler'[h].upload = u
      /\ handler'[h].chunks = handler[h].chunks
  <2> DEFINE w == [handler[h] EXCEPT !.pc = "finish", !.version = Len(versions')]
  <2>1. /\ w \in HandlerState /\ w.pc = "finish" /\ w.version = Len(versions')
        /\ w.request = handler[h].request /\ w.upload = u /\ w.chunks = handler[h].chunks
    BY <1>1, <1>4 DEF StoreInv, TypeInv, HandlerState
  <2>2. handler' = [handler EXCEPT ![h] = w]
    BY DEF Put, StoreInv, TypeInv
  <2> HIDE DEF w
  <2>3. Only(h) /\ handler'[h] = w
    BY <2>1, <2>2 DEF StoreInv, TypeInv, Only
  <2> QED
    BY <2>1, <2>3
<1>6. UNCHANGED <<sessions, file, uploads, behind, operations, persisterVars, promises, interrupted, restarts>>
  BY DEF Put, operationVars
<1>7. puts' = [puts EXCEPT ![u] = @ + 1] /\ puts \in [Uploads -> Nat] /\ restarts \in Nat /\ uploads \in Nat
  BY <1>1 DEF Put, StoreInv, TypeInv
<1>8. TypeInv'
  <2>1. puts' \in [Uploads -> Nat]
    BY <1>3, <1>7
  <2>2. ASSUME NEW g \in Handlers, handler'[g].pc = "finish"
        PROVE  handler'[g].version \in 1..Len(versions')
    <3>1. CASE g = h
      BY <1>4, <1>5, <3>1
    <3>2. CASE g # h
      <4>1. handler'[g] = handler[g] /\ handler[g].version \in 1..Len(versions) /\ versions \in Seq(Chunks)
        BY <1>5, <2>2, <3>2 DEF Only, StoreInv, TypeInv
      <4> QED
        BY <1>4, <4>1
    <3> QED
      BY <3>1, <3>2
  <2> QED
    BY <1>4, <1>5, <1>6, <2>1, <2>2 DEF StoreInv, TypeInv, Only
<1>9. RequestInv'
  <2>1. RequestOK(h)'
    BY <1>1, <1>2, <1>3, <1>5, <1>6, GoesOn
  <2>2. \A v \in Uploads : v > uploads' => sessions'[v] = Absent /\ file'[v] = Absent /\ puts'[v] = 0
    BY <1>3, <1>6, <1>7 DEF StoreInv, RequestInv, Uploads
  <2>3. TypeInv /\ RequestInv /\ uploads' \in Nat /\ uploads <= uploads'
        /\ \A g \in Handlers \ {h} : handler'[g] = handler[g]
    BY <1>5, <1>6, <1>7 DEF StoreInv, Only
  <2> QED
    BY <2>1, <2>2, <2>3, RequestFrame
<1>10. ASSUME NEW v \in Uploads PROVE CompletionOK(v)'
  <2>1. CASE v # u
    <3>1. \A g \in Handlers : handler'[g] = handler[g] \/ (~Completing(g, v) /\ ~Completing(g, v)')
      BY <1>3, <1>5, <2>1 DEF Only, Completing
    <3>2. CompletionOK(v) /\ puts'[v] = puts[v]
      BY <1>7, <2>1 DEF StoreInv, CompletionInv
    <3> QED
      BY <1>6, <3>1, <3>2, CompletionFrame
  <2>2. CASE v = u
    <3>1. \A g \in Handlers : (Completing(g, u)' <=> g = h) /\ (Completing(g, u) <=> g = h)
      BY <1>3, <1>5 DEF Only, Completing
    <3>2. puts[u] <= restarts
      BY <1>1, <1>2, <1>3 DEF CompletionOK, Spent
    <3>3. puts'[u] <= restarts' \/ (puts'[u] = restarts' + 1)
      BY <1>3, <1>6, <1>7, <3>2
    <3>4. Spent(u)'
      BY <1>3, <1>5, <1>6, <3>1 DEF Spent, Completing
    <3> QED
      BY <1>3, <1>5, <1>6, <2>2, <3>1, <3>3, <3>4 DEF CompletionOK
  <2> QED
    BY <2>1, <2>2
<1>11. PersisterInv'
  BY <1>6 DEF StoreInv, PersisterInv, persisterVars
<1>12. PersistInv'
  <2>1. \A v \in 1..uploads : Kept(v)
    BY <1>6 DEF Kept
  <2>2. /\ TypeInv /\ RequestInv /\ PersistInv /\ uploads' \in Nat /\ uploads <= uploads'
        /\ promises' \subseteq promises /\ UNCHANGED <<file, behind, persisterVars>>
        /\ \A g \in Handlers \ {h} : handler'[g] = handler[g]
    BY <1>5, <1>6, <1>7 DEF StoreInv, Only
  <2> QED
    BY <1>5, <2>1, <2>2, PersistFrame
<1> QED
  BY <1>8, <1>9, <1>10, <1>11, <1>12 DEF StoreInv, CompletionInv

\* A put that fails is not a put.
LEMMA PutFailsInv ==
    ASSUME StoreInv, NEW h \in Handlers, PutFails(h)
    PROVE  StoreInv'
<1>1. PICK u : u = handler[h].upload
  OBVIOUS
<1>2. handler[h].pc = "put"
  BY DEF PutFails
<1>3. /\ u \in Uploads /\ u <= uploads /\ Completing(h, u) /\ CompletionOK(u)
      /\ \A v \in Uploads \ {u} : ~Completing(h, v)
      /\ handler[h].request.kind = "complete" /\ RequestOK(h)
  BY <1>1, <1>2, CompletingHandler
<1>4. /\ Only(h) /\ handler'[h].pc = "reset" /\ handler'[h].request = handler[h].request
      /\ handler'[h].upload = u /\ handler'[h].chunks = handler[h].chunks
  BY <1>1, Values, GotoEffect DEF PutFails, StoreInv
<1>5. UNCHANGED <<sessions, file, uploads, behind, operations, versions, puts, persisterVars, promises,
                  interrupted, restarts>>
  BY DEF PutFails, operationVars, objectVars
<1>6. RequestOK(h)'
  BY <1>1, <1>2, <1>3, <1>4, <1>5, GoesOn
<1>7. CompletionOK(u)'
  <2>1. \A g \in Handlers : /\ Completing(g, u)' <=> Completing(g, u)
                            /\ handler'[g].chunks = handler[g].chunks
    BY <1>1, <1>2, <1>3, <1>4 DEF Only, Completing
  <2>2. Spent(u) => Spent(u)'
    BY <1>1, <1>2 DEF Spent
  <2> QED
    BY <1>3, <1>5, <2>1, <2>2 DEF CompletionOK
<1>8. \A v \in Uploads \ {u} : ~Completing(h, v) /\ ~Completing(h, v)'
  BY <1>3, <1>4 DEF Completing
<1>9. /\ operations' \in [Operations -> OperationEntry \cup {Absent}]
      /\ sessions' \in [Uploads -> Session \cup {Absent}] /\ Kept(u)
  BY <1>5 DEF StoreInv, TypeInv, Kept
<1> QED
  BY <1>3, <1>4, <1>5, <1>6, <1>7, <1>8, <1>9, SessionFrame

\* The session stays closed, and is noted as interrupted.
LEMMA MetadataFailsInv ==
    ASSUME StoreInv, NEW h \in Handlers, MetadataFails(h)
    PROVE  StoreInv'
<1>1. /\ operations' \in [Operations -> OperationEntry \cup {Absent}]
      /\ Only(h) /\ handler'[h] = NoWork
  BY Values, AnswerEffect DEF MetadataFails, StoreInv
<1>2. RequestOK(h)' /\ handler'[h].pc = "idle" /\ UNCHANGED storeVars /\ interrupted \subseteq interrupted'
  BY <1>1, Values, IdleIsOK DEF storeVars, MetadataFails
<1>3. \A u \in Uploads : ~Completing(h, u) \/ u \in interrupted'
  BY DEF MetadataFails, Completing
<1> QED
  BY <1>1, <1>2, <1>3, QuietStep

\* An answer that promises nothing new.
LEMMA AnswerResultInv ==
    ASSUME StoreInv, NEW h \in Handlers, AnswerResult(h)
    PROVE  StoreInv'
<1>1. handler[h].answer \in Response
  BY DEF StoreInv, TypeInv, HandlerState
<1>2. /\ operations' \in [Operations -> OperationEntry \cup {Absent}]
      /\ Only(h) /\ handler'[h] = NoWork
  BY <1>1, AnswerEffect DEF AnswerResult, StoreInv
<1>3. RequestOK(h)' /\ handler'[h].pc = "idle" /\ UNCHANGED storeVars /\ UNCHANGED interrupted
  BY <1>2, Values, IdleIsOK DEF storeVars, AnswerResult
<1>4. \A u \in Uploads : ~Completing(h, u)
  BY DEF AnswerResult, Completing
<1> QED
  BY <1>2, <1>3, <1>4, QuietStep

\* A completion that is dropped leaves its session closed, and is noted as
\* interrupted.
LEMMA DropHandlerInv ==
    ASSUME StoreInv, NEW h \in Handlers, DropHandler(h)
    PROVE  StoreInv'
<1>1. Only(h) /\ handler'[h] = NoWork
  BY Values DEF DropHandler, StoreInv, TypeInv, Only
<1>2. operations' \in [Operations -> OperationEntry \cup {Absent}]
  BY DEF DropHandler, LeaseDropped, StoreInv, TypeInv
<1>3. RequestOK(h)' /\ handler'[h].pc = "idle" /\ UNCHANGED storeVars /\ interrupted \subseteq interrupted'
  BY <1>1, Values, IdleIsOK DEF storeVars, DropHandler
<1>4. \A u \in Uploads : ~Completing(h, u) \/ u \in interrupted'
  BY DEF DropHandler
<1> QED
  BY <1>1, <1>2, <1>3, <1>4, QuietStep

\* A failed completion opens the session again, which was not put.
LEMMA ResetInv ==
    ASSUME StoreInv, NEW h \in Handlers, Reset(h)
    PROVE  StoreInv'
<1>1. PICK u : u = handler[h].upload
  OBVIOUS
<1>2. handler[h].pc = "reset"
  BY DEF Reset
<1>3. /\ u \in Uploads /\ u <= uploads /\ Completing(h, u) /\ CompletionOK(u)
      /\ sessions[u] \in Session \cup {Absent}
      /\ sessions[u] # Absent => sessions[u].finalizing /\ ~sessions[u].completed
      /\ \A g \in Handlers \ {h} : ~Completing(g, u)
      /\ \A v \in Uploads \ {u} : ~Completing(h, v)
      /\ handler[h].request.kind = "complete" /\ RequestOK(h)
  BY <1>1, <1>2, CompletingHandler
<1>4. /\ Only(h) /\ handler'[h].pc = "persist" /\ handler'[h].request = handler[h].request
      /\ handler'[h].upload = u /\ handler'[h].answer = Refused
  BY <1>1, Values, GotoEffect DEF Reset, StoreInv
<1>5. UNCHANGED <<file, uploads, behind, operations, versions, puts, persisterVars, promises,
                  interrupted, restarts>>
  BY DEF Reset, operationVars, objectVars
<1>6. RequestOK(h)'
  BY <1>1, <1>2, <1>3, <1>4, <1>5, GoesOn
<1>7. \A g \in Handlers : ~Completing(g, u)'
  BY <1>3, <1>4 DEF Only, Completing
<1>8. puts[u] <= restarts
  BY <1>1, <1>2, <1>3 DEF CompletionOK, Spent
<1>9. \A p \in Promised(h)' : Holds(p, sessions')
  BY <1>4 DEF Promised
<1>10. \A v \in Uploads \ {u} : ~Completing(h, v) /\ ~Completing(h, v)'
  BY <1>3, <1>4 DEF Completing
<1>11. operations' \in [Operations -> OperationEntry \cup {Absent}]
  BY <1>5 DEF StoreInv, TypeInv
<1>12. CASE sessions[u] = Absent
  <2>1. sessions' = sessions /\ sessions' \in [Uploads -> Session \cup {Absent}] /\ Kept(u)
    BY <1>1, <1>12 DEF Reset, StoreInv, TypeInv, Kept
  <2>2. CompletionOK(u)'
    BY <1>3, <1>5, <1>7, <1>8, <1>12, <2>1 DEF CompletionOK
  <2> QED
    BY <1>3, <1>4, <1>5, <1>6, <1>9, <1>10, <1>11, <2>1, <2>2, SessionFrame
<1>13. CASE sessions[u] # Absent
  <2>1. /\ sessions' = [sessions EXCEPT ![u].finalizing = FALSE]
        /\ sessions[u] \in Session /\ ~sessions[u].completed
    BY <1>1, <1>3, <1>13 DEF Reset
  <2>2. /\ sessions'[u] = [sessions[u] EXCEPT !.finalizing = FALSE]
        /\ \A v \in Uploads \ {u} : sessions'[v] = sessions[v]
    BY <1>3, <2>1 DEF StoreInv, TypeInv
  <2>3. /\ sessions'[u] \in Session /\ ~sessions'[u].finalizing /\ ~sessions'[u].completed
        /\ sessions'[u].chunks = sessions[u].chunks /\ sessions'[u].mode = sessions[u].mode
    <3>1. /\ sessions'[u] \in Session /\ sessions'[u].finalizing = FALSE
          /\ sessions'[u].completed = sessions[u].completed
          /\ sessions'[u].chunks = sessions[u].chunks /\ sessions'[u].mode = sessions[u].mode
      <4>1. PICK s \in Session : s = sessions[u]
        BY <2>1
      <4>2. sessions'[u] = [s EXCEPT !.finalizing = FALSE]
        BY <2>2, <4>1
      <4>3. /\ sessions'[u] \in Session
            /\ sessions'[u].chunks = s.chunks /\ sessions'[u].mode = s.mode
        BY <4>2 DEF Session
      <4>4. sessions'[u].finalizing = FALSE /\ sessions'[u].completed = s.completed
        BY <4>2 DEF Session
      <4> QED
        BY <4>1, <4>3, <4>4
    <3> QED
      BY <2>1, <3>1
  <2>4. Kept(u) /\ sessions' \in [Uploads -> Session \cup {Absent}]
    BY <1>3, <1>13, <2>1, <2>2, <2>3 DEF Kept, Keeps, StoreInv, TypeInv
  <2>5. CompletionOK(u)'
    BY <1>3, <1>5, <1>7, <1>8, <2>3 DEF CompletionOK
  <2> QED
    BY <1>3, <1>4, <1>5, <1>6, <1>9, <1>10, <1>11, <2>2, <2>4, <2>5, SessionFrame
<1> QED
  BY <1>12, <1>13

\* The one handler that completes the session records its result.
LEMMA FinishUploadInv ==
    ASSUME StoreInv, NEW h \in Handlers, FinishUpload(h)
    PROVE  StoreInv'
<1>1. PICK u : u = handler[h].upload
  OBVIOUS
<1>2. PICK v : v = handler[h].version
  OBVIOUS
<1>3. handler[h].pc = "finish"
  BY DEF FinishUpload
<1>4. /\ u \in Uploads /\ u <= uploads /\ Completing(h, u) /\ CompletionOK(u)
      /\ sessions[u] \in Session \cup {Absent}
      /\ sessions[u] # Absent => sessions[u].finalizing /\ ~sessions[u].completed
      /\ \A g \in Handlers \ {h} : ~Completing(g, u)
      /\ \A x \in Uploads \ {u} : ~Completing(h, x)
      /\ handler[h].request.kind = "complete" /\ RequestOK(h) /\ v \in Nat
  BY <1>1, <1>2, <1>3, CompletingHandler
<1>5. Ok(v) \in Response /\ Ok(v).value = v
  BY <1>4, Values
<1>6. /\ Only(h) /\ handler'[h].pc \in {"persist", "answer"} /\ handler'[h].request = handler[h].request
      /\ handler'[h].upload = u /\ handler'[h].answer = Ok(v)
  <2>1. PICK pc \in {"persist", "answer"} : Goto(h, pc, Ok(v))
    BY <1>2 DEF FinishUpload
  <2> QED
    BY <1>1, <1>5, <2>1, GotoEffect DEF StoreInv
<1>7. UNCHANGED <<file, uploads, behind, operations, versions, puts, persisterVars, promises,
                  interrupted, restarts>>
  BY DEF FinishUpload, operationVars, objectVars
<1>8. RequestOK(h)'
  BY <1>1, <1>3, <1>4, <1>6, <1>7, GoesOn
<1>9. \A g \in Handlers : ~Completing(g, u)'
  BY <1>4, <1>6 DEF Only, Completing
<1>10. \A x \in Uploads \ {u} : ~Completing(h, x) /\ ~Completing(h, x)'
  BY <1>4, <1>6 DEF Completing
<1>11. operations' \in [Operations -> OperationEntry \cup {Absent}]
  BY <1>7 DEF StoreInv, TypeInv
<1>12. \A g \in Handlers : handler'[g].pc \in {"put", "reset"} => handler'[g].upload # u
  BY <1>9 DEF Completing
<1>13. CASE sessions[u] = Absent
  <2>1. sessions' = sessions /\ sessions' \in [Uploads -> Session \cup {Absent}] /\ Kept(u)
    BY <1>1, <1>13 DEF FinishUpload, StoreInv, TypeInv, Kept
  <2>2. CompletionOK(u)'
    <3>1. Spent(u)'
      BY <1>12, <1>13, <2>1 DEF Spent
    <3> QED
      BY <1>4, <1>7, <1>9, <1>13, <2>1, <3>1 DEF CompletionOK
  <2>3. \A p \in Promised(h)' : Holds(p, sessions')
    BY <1>4, <1>6, <1>13, <2>1 DEF Promised
  <2> QED
    BY <1>4, <1>6, <1>7, <1>8, <1>10, <1>11, <2>1, <2>2, <2>3, SessionFrame
<1>14. CASE sessions[u] # Absent
  <2>1. sessions' = [sessions EXCEPT ![u] = Finished(sessions[u], v)] /\ sessions[u] \in Session
    BY <1>1, <1>2, <1>4, <1>14 DEF FinishUpload
  <2>2. /\ sessions'[u] = Finished(sessions[u], v)
        /\ \A x \in Uploads \ {u} : sessions'[x] = sessions[x]
    BY <1>4, <2>1 DEF StoreInv, TypeInv
  <2>3. /\ Finished(sessions[u], v) \in Session /\ ~Finished(sessions[u], v).finalizing
        /\ Finished(sessions[u], v).completed /\ Finished(sessions[u], v).result = v
        /\ Finished(sessions[u], v).mode = sessions[u].mode
        /\ sessions[u].mode = "fixed" => Finished(sessions[u], v).chunks = sessions[u].chunks
    BY <1>4, <2>1, Values DEF Finished, Session
  <2>4. Kept(u) /\ sessions' \in [Uploads -> Session \cup {Absent}]
    <3>1. Keeps(sessions[u], sessions'[u])
      BY <1>4, <1>14, <2>1, <2>2, <2>3 DEF Keeps
    <3>2. sessions' \in [Uploads -> Session \cup {Absent}]
      BY <1>4, <2>1, <2>3 DEF StoreInv, TypeInv
    <3> QED
      BY <3>1, <3>2 DEF Kept
  <2>5. CompletionOK(u)'
    <3>1. Spent(u)'
      BY <1>12, <2>2, <2>3 DEF Spent
    <3> QED
      BY <1>4, <1>7, <1>9, <2>2, <2>3, <3>1 DEF CompletionOK
  <2>6. \A p \in Promised(h)' : Holds(p, sessions')
    <3>1. SUFFICES ASSUME NEW p \in Promised(h)' PROVE Holds(p, sessions')
      OBVIOUS
    <3>2. p.kind = "complete" /\ p.upload = u /\ p.value = v
      BY <1>4, <1>5, <1>6 DEF Promised
    <3>3. sessions'[u] # Absent
      BY <2>2, <2>3, UploadAssumption
    <3> QED
      BY <2>2, <2>3, <3>2, <3>3 DEF Holds
  <2> QED
    BY <1>4, <1>6, <1>7, <1>8, <1>10, <1>11, <2>2, <2>4, <2>5, <2>6, SessionFrame
<1> QED
  BY <1>13, <1>14

-------------------------------------------------------------------------------
(***************************************************************************)
(* The file, time and restarts                                             *)
(***************************************************************************)

\* The whole store is written, or it is noted that it was not.
FileStep ==
    \/ UNCHANGED <<file, behind>>
    \/ file' = sessions /\ behind' = FALSE
    \/ file' = file /\ behind' = TRUE

\* A step that answers, or does nothing to the sessions, while the file is written
\* or the write fails.
LEMMA FileFrame ==
    ASSUME StoreInv, NEW new, \A p \in new : PromiseOK(p) /\ Holds(p, sessions),
           promises' = promises \cup new, UNCHANGED <<sessions, uploads, puts, interrupted, restarts>>,
           FileStep, new = {} \/ ~UNCHANGED <<file, behind>> \/ behind' \/ file' = sessions,
           handler' \in [Handlers -> HandlerState],
           \A g \in Handlers : \/ handler'[g] = handler[g]
                               \/ handler[g].pc = "persist" /\ handler'[g].pc = "idle",
           operations' \in [Operations -> OperationEntry \cup {Absent}],
           versions' \in Seq(Chunks), Len(versions) <= Len(versions'),
           PersisterInv', behind' => notified' \/ (persister'.pc # "waiting" /\ persister'.persisted # dirty')
    PROVE  StoreInv'
<1>0. uploads' = uploads /\ uploads \in Nat /\ uploads <= uploads' /\ sessions' = sessions
  BY DEF StoreInv, TypeInv
<1>1. TypeInv'
  <2>1. file' \in [Uploads -> Session \cup {Absent}]
    BY DEF FileStep, StoreInv, TypeInv
  <2>2. ASSUME NEW g \in Handlers, handler'[g].pc = "finish"
        PROVE  handler'[g].version \in 1..Len(versions')
    <3>1. handler[g].version \in 1..Len(versions) /\ handler'[g] = handler[g]
      BY <2>2 DEF StoreInv, TypeInv
    <3>2. Len(versions) \in Nat /\ Len(versions') \in Nat
      BY DEF StoreInv, TypeInv
    <3> QED
      BY <3>1, <3>2
  <2> QED
    BY <2>1, <2>2 DEF StoreInv, TypeInv
<1>2. RequestInv'
  <2>1. \A u \in Uploads : u > uploads' => sessions'[u] = Absent /\ file'[u] = Absent /\ puts'[u] = 0
    BY <1>0 DEF FileStep, StoreInv, RequestInv
  <2>2. \A g \in Handlers : handler'[g] = handler[g] \/ RequestOK(g)'
    BY IdleIsOK
  <2> QED
    BY <1>0, <2>1, <2>2, RequestFrame DEF StoreInv
<1>3. ASSUME NEW u \in Uploads PROVE CompletionOK(u)'
  <2>1. CompletionOK(u) /\ puts'[u] = puts[u]
    BY DEF StoreInv, CompletionInv
  <2>2. \A g \in Handlers : handler'[g] = handler[g] \/ (~Completing(g, u) /\ ~Completing(g, u)')
    BY DEF Completing
  <2>3. file'[u] = file[u] \/ file'[u] = sessions[u]
    BY DEF FileStep
  <2> QED
    BY <1>0, <2>1, <2>2, <2>3, CompletionFrame
<1>4. PersistInv'
  <2>1. ASSUME NEW p \in promises' PROVE PromiseOK(p)' /\ Holds(p, sessions)
    <3>1. PromiseOK(p) /\ Holds(p, sessions)
      BY DEF StoreInv, PersistInv, AnswersAreKept
    <3> QED
      BY <1>0, <3>1 DEF PromiseOK
  <2>2. ASSUME NEW g \in Handlers, handler'[g].pc = "persist", NEW p \in Promised(g)'
        PROVE  Holds(p, sessions)
    <3>1. handler'[g] = handler[g] /\ handler[g].pc = "persist"
      BY <2>2
    <3>2. p \in Promised(g)
      BY <1>0, <2>2, <3>1 DEF Promised
    <3> QED
      BY <3>1, <3>2 DEF StoreInv, PersistInv
  <2>3. ASSUME NEW p \in promises', ~behind' PROVE Holds(p, file')
    <3>1. CASE file' = sessions
      BY <2>1, <3>1
    <3>2. CASE UNCHANGED <<file, behind>> /\ new = {}
      BY <2>3, <3>2 DEF StoreInv, PersistInv, AnswersAreKept
    <3> QED
      BY <2>3, <3>1, <3>2 DEF FileStep
  <2> QED
    BY <1>0, <2>1, <2>2, <2>3 DEF PersistInv, AnswersAreKept
<1> QED
  BY <1>1, <1>2, <1>3, <1>4 DEF StoreInv, CompletionInv

\* What the handler promises is true of the sessions, and so of the file it writes; a
\* write that fails tells the persister.
LEMMA PersistHandlerInv ==
    ASSUME StoreInv, NEW h \in Handlers, Persist(h) \/ PersistFails(h)
    PROVE  StoreInv'
<1>1. handler[h].answer \in Response /\ handler[h].pc = "persist" /\ RequestOK(h)
  BY DEF StoreInv, TypeInv, HandlerState, Persist, PersistFails, RequestInv
<1>2. /\ operations' \in [Operations -> OperationEntry \cup {Absent}]
      /\ Only(h) /\ handler'[h] = NoWork
  BY <1>1, AnswerEffect DEF Persist, PersistFails, StoreInv
<1>3. PICK new : new = Promised(h)
  OBVIOUS
<1>4. \A p \in new : PromiseOK(p) /\ Holds(p, sessions)
  BY <1>1, <1>3, PromisedIsOK DEF StoreInv, PersistInv
<1>5. /\ promises' = promises \cup new
      /\ UNCHANGED <<sessions, uploads, versions, puts, interrupted, restarts>>
  BY <1>3 DEF Persist, PersistFails, objectVars
<1>6. /\ (file' = sessions /\ behind' = FALSE) \/ (file' = file /\ behind' = TRUE)
      /\ FileStep
  <2>1. CASE Persist(h)
    <3>1. file' = sessions /\ behind' = FALSE
      BY <2>1 DEF Persist
    <3> QED
      BY <3>1 DEF FileStep
  <2>2. CASE PersistFails(h)
    BY <2>2 DEF PersistFails, FileStep
  <2> QED
    BY <2>1, <2>2
<1>7. PersisterInv' /\ (behind' => notified')
  <2>1. CASE Persist(h)
    BY <2>1 DEF Persist, StoreInv, PersisterInv, persisterVars
  <2>2. CASE PersistFails(h)
    BY <2>2 DEF PersistFails, StoreInv, PersisterInv
  <2> QED
    BY <2>1, <2>2
<1>8. \A g \in Handlers : handler'[g] = handler[g] \/ (handler[g].pc = "persist" /\ handler'[g].pc = "idle")
  BY <1>1, <1>2, Values DEF Only
<1>9. versions' \in Seq(Chunks) /\ Len(versions) <= Len(versions') /\ handler' \in [Handlers -> HandlerState]
  BY <1>2, <1>5 DEF StoreInv, TypeInv, Only
<1>10. new = {} \/ ~UNCHANGED <<file, behind>> \/ behind' \/ file' = sessions
  BY <1>6
<1> QED
  BY <1>2, <1>4, <1>5, <1>6, <1>7, <1>8, <1>9, <1>10, FileFrame

\* The persister, an operation that is pruned, and a put of somebody else.
LEMMA BackgroundInv ==
    ASSUME StoreInv,
           \/ PersisterWakes \/ PersisterChecks \/ PersisterWrites \/ OtherPut
           \/ \E op \in Operations : Lapse(op)
    PROVE  StoreInv'
<1>1. /\ UNCHANGED <<sessions, uploads, puts, interrupted, restarts, handler, promises>>
      /\ FileStep
  BY DEF PersisterWakes, PersisterChecks, PersisterWrites, OtherPut, Lapse, objectVars, FileStep
<1>2. operations' \in [Operations -> OperationEntry \cup {Absent}]
  BY DEF PersisterWakes, PersisterChecks, PersisterWrites, OtherPut, Lapse, operationVars, StoreInv, TypeInv
<1>3. versions' \in Seq(Chunks) /\ Len(versions) <= Len(versions')
  <2>1. versions \in Seq(Chunks) /\ NoChunks \in Chunks
    BY Values DEF StoreInv, TypeInv
  <2>2. CASE OtherPut
    BY <2>1, <2>2 DEF OtherPut
  <2>3. CASE UNCHANGED versions
    BY <2>1, <2>3
  <2> QED
    BY <2>2, <2>3 DEF PersisterWakes, PersisterChecks, PersisterWrites, Lapse, objectVars
<1>4. PersisterInv' /\ (behind' => notified' \/ (persister'.pc # "waiting" /\ persister'.persisted # dirty'))
  <2>1. PersisterInv /\ (behind => notified \/ (persister.pc # "waiting" /\ persister.persisted # dirty))
    BY DEF StoreInv, PersistInv, AnswersAreKept
  <2>2. CASE PersisterWakes
    BY <2>1, <2>2 DEF PersisterWakes, PersisterInv
  <2>3. CASE PersisterChecks
    <3>1. CASE persister' = [persister EXCEPT !.pc = "waiting"] /\ dirty = persister.persisted
      BY <2>1, <2>3, <3>1 DEF PersisterChecks, PersisterInv
    <3>2. CASE persister' = [persister EXCEPT !.pc = "write", !.target = dirty]
      <4>1. UNCHANGED <<dirty, notified, behind>>
        BY <2>3 DEF PersisterChecks
      <4>2. /\ persister' \in [pc : {"waiting", "check", "write"}, persisted : Nat, target : Nat]
            /\ persister'.pc = "write" /\ persister'.persisted = persister.persisted
            /\ persister'.target = dirty
        BY <2>1, <3>2 DEF PersisterInv
      <4> QED
        BY <2>1, <4>1, <4>2 DEF PersisterInv
    <3> QED
      BY <2>3, <3>1, <3>2 DEF PersisterChecks
  <2>4. CASE PersisterWrites
    <3>1. UNCHANGED <<dirty, notified>> /\ persister.pc = "write"
      BY <2>4 DEF PersisterWrites
    <3>2. CASE persister' = [persister EXCEPT !.pc = "check", !.persisted = persister.target] /\ behind' = FALSE
      BY <2>1, <3>1, <3>2 DEF PersisterInv
    <3>3. CASE persister' = [persister EXCEPT !.pc = "check"] /\ behind' = behind
      BY <2>1, <3>1, <3>3 DEF PersisterInv
    <3> QED
      BY <2>4, <3>2, <3>3 DEF PersisterWrites
  <2>5. CASE UNCHANGED <<persisterVars, behind>>
    BY <2>1, <2>5 DEF persisterVars, PersisterInv
  <2> QED
    BY <2>2, <2>3, <2>4, <2>5 DEF OtherPut, Lapse
<1>5. handler' \in [Handlers -> HandlerState] /\ \A g \in Handlers : handler'[g] = handler[g]
  BY <1>1 DEF StoreInv, TypeInv
<1>6. PICK new : new = {}
  OBVIOUS
<1>7. promises' = promises \cup new /\ \A p \in new : PromiseOK(p) /\ Holds(p, sessions)
  BY <1>1, <1>6
<1> QED
  BY <1>1, <1>2, <1>3, <1>4, <1>5, <1>6, <1>7, FileFrame

\* A session that expires takes the promises about it along.
LEMMA ExpireInv ==
    ASSUME StoreInv, NEW u \in Uploads, Expire(u)
    PROVE  StoreInv'
<1>1. /\ sessions'[u] = Absent /\ \A v \in Uploads \ {u} : sessions'[v] = sessions[v]
      /\ sessions' \in [Uploads -> Session \cup {Absent}]
  BY DEF Expire, StoreInv, TypeInv
<1>2. /\ UNCHANGED <<file, uploads, behind, operations, handler, versions, puts, persisterVars,
                     interrupted, restarts>>
      /\ promises' = Withdraw(u) /\ promises' \subseteq promises
  BY DEF Expire, operationVars, objectVars, Withdraw
<1>3. uploads \in Nat /\ uploads' \in Nat /\ uploads <= uploads'
  BY <1>2 DEF StoreInv, TypeInv
<1>4. TypeInv'
  BY <1>1, <1>2 DEF StoreInv, TypeInv
<1>5. RequestInv'
  <2>1. \A v \in Uploads : v > uploads' => sessions'[v] = Absent /\ file'[v] = Absent /\ puts'[v] = 0
    BY <1>1, <1>2 DEF StoreInv, RequestInv
  <2> QED
    BY <1>2, <1>3, <2>1, RequestFrame DEF StoreInv
<1>6. ASSUME NEW v \in Uploads PROVE CompletionOK(v)'
  BY <1>1, <1>2, CompletionFrame DEF StoreInv, CompletionInv
<1>7. PersisterInv'
  BY <1>2 DEF StoreInv, PersisterInv, persisterVars
<1>8. PersistInv'
  <2>1. \A v \in 1..uploads : Kept(v)
    <3>1. \A v \in 1..uploads : v \in Uploads
      BY NamedSession
    <3> QED
      BY <1>1, <1>2, <3>1 DEF Kept, Withdraw
  <2> QED
    BY <1>2, <1>3, <2>1, PersistFrame DEF StoreInv
<1> QED
  BY <1>4, <1>5, <1>6, <1>7, <1>8 DEF StoreInv, CompletionInv

\* The node starts with the file, in which every promise holds that no failed write
\* has lost, or with nothing.
LEMMA RestartInv ==
    ASSUME StoreInv, NEW loaded \in BOOLEAN, RestartNode(loaded)
    PROVE  StoreInv'
<1>1. /\ sessions' = file \/ sessions' = [u \in Uploads |-> Absent]
      /\ UNCHANGED <<file, uploads, versions, puts>> /\ restarts' = restarts + 1
      /\ handler' = [h \in Handlers |-> NoWork] /\ operations' = [o \in Operations |-> Absent]
      /\ interrupted' = interrupted \cup {u \in Uploads : sessions'[u] # Absent /\ sessions'[u].finalizing}
      /\ behind' = FALSE
  BY DEF RestartNode, objectVars
<1>2. handler' \in [Handlers -> HandlerState] /\ \A h \in Handlers : handler'[h].pc = "idle"
  BY <1>1, Values
<1>3. TypeInv'
  BY <1>1, <1>2 DEF StoreInv, TypeInv
<1>4. RequestInv'
  <2>1. \A h \in Handlers : RequestOK(h)'
    BY <1>2, IdleIsOK
  <2> QED
    BY <1>1, <2>1 DEF StoreInv, RequestInv
<1>5. ASSUME NEW u \in Uploads PROVE CompletionOK(u)'
  <2>1. CompletionOK(u) /\ puts[u] \in Nat /\ restarts \in Nat
    BY DEF StoreInv, CompletionInv, TypeInv
  <2>2. \A h \in Handlers : ~Completing(h, u)'
    BY <1>2 DEF Completing
  <2>3. puts'[u] <= restarts'
    BY <1>1, <2>1 DEF CompletionOK
  <2>4. sessions'[u] # Absent => ~sessions'[u].finalizing \/ u \in interrupted'
    BY <1>1
  <2>5. /\ sessions'[u] # Absent => ~(sessions'[u].completed /\ sessions'[u].finalizing)
        /\ file'[u] # Absent => ~(file'[u].completed /\ file'[u].finalizing)
    BY <1>1, <2>1 DEF CompletionOK
  <2> QED
    BY <2>2, <2>3, <2>4, <2>5 DEF CompletionOK
<1>6. PersisterInv'
  <2>1. /\ persister' = [pc |-> "waiting", persisted |-> 0, target |-> 0]
        /\ dirty' = 0 /\ notified' = FALSE
    BY DEF RestartNode
  <2>2. /\ persister' \in [pc : {"waiting", "check", "write"}, persisted : Nat, target : Nat]
        /\ persister'.persisted = 0 /\ persister'.target = 0
    BY <2>1
  <2>3. notified' \in BOOLEAN /\ behind' \in BOOLEAN /\ ~behind'
    BY <1>1, <2>1
  <2>4. dirty' \in Nat /\ persister'.persisted <= dirty' /\ persister'.target <= dirty'
    BY <2>1, <2>2
  <2> QED
    BY <2>2, <2>3, <2>4 DEF PersisterInv
<1>7. PersistInv'
  <2>1. ASSUME NEW p \in promises' PROVE PromiseOK(p)' /\ Holds(p, sessions') /\ Holds(p, file)
    <3>1. p \in promises /\ Holds(p, sessions') /\ Holds(p, file)
      <4>1. CASE behind \/ ~loaded
        BY <4>1 DEF RestartNode
      <4>2. CASE ~behind /\ loaded
        <5>1. promises' = promises /\ sessions' = file
          BY <4>2 DEF RestartNode
        <5> QED
          BY <4>2, <5>1 DEF StoreInv, PersistInv, AnswersAreKept
      <4> QED
        BY <4>1, <4>2
    <3> QED
      BY <1>1, <3>1 DEF PromiseOK, StoreInv, PersistInv
  <2> QED
    BY <1>1, <1>2, <2>1 DEF PersistInv, AnswersAreKept
<1> QED
  BY <1>3, <1>4, <1>5, <1>6, <1>7 DEF StoreInv, CompletionInv

\* Every step keeps the part of the invariant that is about the sessions.
LEMMA StoreStep ==
    ASSUME StoreInv, UploadNext
    PROVE  StoreInv'
<1>1. ASSUME NEW h \in Handlers, HandlerStep(h) PROVE StoreInv'
  BY <1>1, ArriveInv, WakeInv, CommitChunkInv, PutInv, PutFailsInv, MetadataFailsInv, ResetInv,
     FinishUploadInv, PersistHandlerInv, AnswerResultInv, DropHandlerInv
  DEF HandlerStep
<1> QED
  BY <1>1, BackgroundInv, RestartInv, ExpireInv DEF UploadNext

-------------------------------------------------------------------------------
(***************************************************************************)
(* Operations                                                              *)
(***************************************************************************)

\* An operation whose entry, answers and owners are the same.
LEMMA OperationFrame ==
    ASSUME NEW x \in Operations, OperationOK(x), operations'[x] = operations[x],
           answers'[x] = answers[x], \A g \in Handlers : Owner(g, x)' <=> Owner(g, x)
    PROVE  OperationOK(x)'
  BY DEF OperationOK, InProgress

\* An operation that no handler works for.
LEMMA NoOwner ==
    ASSUME NEW x \in Operations, \A g \in Handlers : ~Owner(g, x)',
           ~InProgress(x)',
           answers'[x] = {} \/ (operations'[x] # Absent /\ answers'[x] = {operations'[x].answer})
    PROVE  OperationOK(x)'
  BY DEF OperationOK, InProgress

\* The handler becomes the owner of an operation that had none, and no answer.
LEMMA ProceedOperations ==
    ASSUME TypeInv, OperationInv, NEW h \in Handlers, handler[h].pc \in {"idle", "wait"},
           NEW op \in Operations \cup {Absent}, NEW r \in RequestFields, Free(op),
           NEW next \in HandlerState, next.pc \notin {"idle", "wait"}, Proceed(h, op, r, next)
    PROVE  OperationInv'
<1>1. Only(h) /\ handler'[h].op = op /\ handler'[h].pc \notin {"idle", "wait"}
  BY ProceedEffect
<1>2. UNCHANGED <<answers, lapsed>>
  BY DEF Proceed
<1>3. ASSUME NEW x \in Operations \ lapsed PROVE OperationOK(x)'
  <2>0. OperationOK(x)
    BY DEF OperationInv
  <2>1. CASE x # op
    <3>1. operations'[x] = operations[x] /\ \A g \in Handlers : Owner(g, x)' <=> Owner(g, x)
      BY <1>1, <2>1 DEF Proceed, TypeInv, Owner, Only
    <3> QED
      BY <1>2, <2>0, <3>1, OperationFrame
  <2>2. CASE x = op
    <3>1. operations[x] = Absent /\ answers'[x] = {} /\ \A g \in Handlers : ~Owner(g, x)
      BY <1>2, <2>0, <2>2, UploadAssumption DEF Free, OperationOK, InProgress
    <3>2. operations'[x] = [request |-> r, answer |-> Absent]
      BY <2>2, UploadAssumption DEF Proceed, TypeInv
    <3>3. operations'[x] # Absent /\ operations'[x].answer = Absent
      BY <3>2, UploadAssumption DEF OperationEntry
    <3>4. \A g \in Handlers : Owner(g, x)' <=> g = h
      BY <1>1, <2>2, <3>1 DEF Owner, Only
    <3> QED
      BY <3>1, <3>3, <3>4 DEF OperationOK, InProgress
  <2> QED
    BY <2>1, <2>2
<1> QED
  BY <1>2, <1>3 DEF OperationInv

\* The first answer of an operation that had no entry.
LEMMA RefuseOperations ==
    ASSUME TypeInv, OperationInv, NEW h \in Handlers, handler[h].pc \in {"idle", "wait"},
           NEW op \in Operations \cup {Absent}, NEW r \in RequestFields, Free(op), Refuse(h, op, r)
    PROVE  OperationInv'
<1>1. Only(h) /\ handler'[h].pc = "idle"
  BY RefuseEffect, Values
<1>2. UNCHANGED lapsed /\ answers' \in [Operations -> SUBSET Response]
  BY Values DEF Refuse, OperationInv
<1>3. \A x \in Operations, g \in Handlers : Owner(g, x)' <=> Owner(g, x)
  BY <1>1 DEF Owner, Only
<1>4. ASSUME NEW x \in Operations \ lapsed PROVE OperationOK(x)'
  <2>0. OperationOK(x)
    BY DEF OperationInv
  <2>1. CASE x # op
    <3>1. operations'[x] = operations[x] /\ answers'[x] = answers[x]
      BY <2>1 DEF Refuse, TypeInv, OperationInv
    <3> QED
      BY <1>3, <2>0, <3>1, OperationFrame
  <2>2. CASE x = op
    <3>1. answers[x] = {} /\ \A g \in Handlers : ~Owner(g, x)
      BY <2>0, <2>2, UploadAssumption DEF Free, OperationOK, InProgress
    <3>2. operations'[x] = [request |-> r, answer |-> Refused] /\ answers'[x] = {Refused}
      BY <2>2, <3>1, UploadAssumption DEF Refuse, TypeInv, OperationInv
    <3>3. operations'[x] # Absent /\ operations'[x].answer = Refused /\ Refused # Absent
      BY <3>2, Values, UploadAssumption DEF OperationEntry
    <3>4. ~InProgress(x)'
      BY <3>3 DEF InProgress
    <3> QED
      BY <1>3, <3>1, <3>2, <3>3, <3>4, NoOwner
  <2> QED
    BY <2>1, <2>2
<1> QED
  BY <1>2, <1>4 DEF OperationInv

\* The first answer of the operation, by its one owner.
LEMMA AnswerOperations ==
    ASSUME TypeInv, OperationInv, NEW h \in Handlers, handler[h].pc \notin {"idle", "wait"},
           NEW a \in Response, Answer(h, a)
    PROVE  OperationInv'
<1>1. Only(h) /\ handler'[h].pc = "idle"
  BY AnswerEffect, Values
<1>2. PICK op \in Operations \cup {Absent} : op = handler[h].op
  BY DEF TypeInv, HandlerState
<1>3. /\ UNCHANGED lapsed /\ answers' \in [Operations -> SUBSET Response]
      /\ op \in Operations => answers'[op] = answers[op] \cup {a}
      /\ \A x \in Operations \ {op} : answers'[x] = answers[x] /\ operations'[x] = operations[x]
  BY <1>2, UploadAssumption DEF Answer, OperationInv, TypeInv
<1>4. ASSUME NEW x \in Operations \ lapsed PROVE OperationOK(x)'
  <2>0. OperationOK(x)
    BY DEF OperationInv
  <2>1. CASE x # op
    <3>1. \A g \in Handlers : Owner(g, x)' <=> Owner(g, x)
      BY <1>1, <1>2, <2>1 DEF Owner, Only
    <3> QED
      BY <1>3, <2>0, <2>1, <3>1, OperationFrame
  <2>2. CASE x = op
    <3>1. Owner(h, x) /\ InProgress(x) /\ answers[x] = {}
      BY <1>2, <2>0, <2>2 DEF Owner, OperationOK, InProgress
    <3>2. operations[x] \in OperationEntry /\ operations' = [operations EXCEPT ![x].answer = a]
      BY <1>2, <2>2, <3>1, UploadAssumption DEF Answer, InProgress, TypeInv
    <3>3. operations'[x] = [operations[x] EXCEPT !.answer = a]
      BY <3>2 DEF TypeInv
    <3>4. operations'[x] \in OperationEntry /\ operations'[x].answer = a
      BY <3>2, <3>3 DEF OperationEntry
    <3>5. operations'[x] # Absent /\ a # Absent
      BY <3>4, UploadAssumption
    <3>6. \A g \in Handlers : ~Owner(g, x)'
      BY <1>1, <2>0, <3>1 DEF Owner, Only, OperationOK
    <3>7. ~InProgress(x)' /\ answers'[x] = {a}
      BY <1>3, <2>2, <3>1, <3>4, <3>5 DEF InProgress
    <3> QED
      BY <3>4, <3>5, <3>6, <3>7, NoOwner
  <2> QED
    BY <2>1, <2>2
<1> QED
  BY <1>3, <1>4 DEF OperationInv

\* A handler that goes on works for its operation as before.
LEMMA GoOnOperations ==
    ASSUME OperationInv, UNCHANGED operationVars,
           \A g \in Handlers : /\ handler'[g].op = handler[g].op
                               /\ handler'[g].pc \in {"idle", "wait"} <=> handler[g].pc \in {"idle", "wait"}
    PROVE  OperationInv'
<1>1. ASSUME NEW x \in Operations \ lapsed PROVE OperationOK(x)'
  <2>1. \A g \in Handlers : Owner(g, x)' <=> Owner(g, x)
    BY DEF Owner
  <2> QED
    BY <2>1, OperationFrame DEF OperationInv, operationVars
<1> QED
  BY <1>1 DEF OperationInv, operationVars

\* The first section of a request claims its operation or answers it.
LEMMA ServeOperations ==
    ASSUME StoreInv, OperationInv, NEW h \in Handlers, handler[h].pc \in {"idle", "wait"},
           NEW op \in Operations \cup {Absent}, NEW r, WellFormed(r), Serve(h, op, r)
    PROVE  OperationInv'
<1>0. r \in RequestFields /\ Free(op) /\ TypeInv
  BY DEF WellFormed, Serve, StoreInv
<1>1. ASSUME NEW pc \in {"commit", "put", "persist", "answer"}, NEW u \in 0..MaxUploads,
             NEW chunks \in Chunks, NEW expected \in Nat, NEW a \in Response,
             Proceed(h, op, r, [NoWork EXCEPT !.pc = pc, !.upload = u, !.chunks = chunks,
                                              !.expected = expected, !.answer = a])
      PROVE  OperationInv'
  <2> DEFINE next == [NoWork EXCEPT !.pc = pc, !.upload = u, !.chunks = chunks,
                                    !.expected = expected, !.answer = a]
  <2>1. next \in HandlerState /\ next.pc = pc
    BY Values DEF HandlerState
  <2> HIDE DEF next
  <2> QED
    BY <1>0, <1>1, <2>1, ProceedOperations DEF next
<1>2. CASE Refuse(h, op, r)
  BY <1>0, <1>2, RefuseOperations
<1>3. /\ NoWork.chunks \in Chunks /\ NoWork.expected \in Nat /\ NoWork.answer \in Response
      /\ \A v \in Nat : Ok(v) \in Response
  BY Values DEF HandlerState
<1>4. \A pc, u, a : [NoWork EXCEPT !.pc = pc, !.upload = u, !.answer = a]
         = [NoWork EXCEPT !.pc = pc, !.upload = u, !.chunks = NoWork.chunks,
                          !.expected = NoWork.expected, !.answer = a]
  BY ZenonT(60) DEF NoWork
<1>5. ASSUME NEW pc \in {"commit", "put", "persist", "answer"}, NEW u \in 0..MaxUploads, NEW a \in Response,
             Proceed(h, op, r, [NoWork EXCEPT !.pc = pc, !.upload = u, !.answer = a])
      PROVE  OperationInv'
  <2>1. Proceed(h, op, r, [NoWork EXCEPT !.pc = pc, !.upload = u, !.chunks = NoWork.chunks,
                                         !.expected = NoWork.expected, !.answer = a])
    BY <1>4, <1>5
  <2> QED
    BY <1>1, <1>3, <2>1
<1>6. CASE StartUpload(h, op, r)
  <2>1. uploads + 1 \in 0..MaxUploads /\ uploads + 1 \in Nat
    BY <1>0, <1>6, UploadAssumption DEF StartUpload, TypeInv
  <2>2. Proceed(h, op, r, [NoWork EXCEPT !.pc = "persist", !.upload = uploads + 1, !.answer = Ok(uploads + 1)])
    BY <1>6 DEF StartUpload
  <2> QED
    BY <1>3, <1>5, <2>1, <2>2
<1>7. CASE Preflight(h, op, r)
  <2>1. CASE Proceed(h, op, r, [NoWork EXCEPT !.pc = "commit", !.upload = r.upload])
    <3>1. r.upload \in 0..MaxUploads
      BY <1>0 DEF RequestFields
    <3>2. [NoWork EXCEPT !.pc = "commit", !.upload = r.upload]
             = [NoWork EXCEPT !.pc = "commit", !.upload = r.upload, !.answer = NoWork.answer]
      BY DEF NoWork
    <3> QED
      BY <1>3, <1>5, <2>1, <3>1, <3>2
  <2> QED
    BY <1>2, <1>7, <2>1 DEF Preflight
<1>8. CASE Prepare(h, op, r)
  <2> DEFINE u == r.upload
  <2>1. u \in 0..MaxUploads /\ sessions[u] \in Session \cup {Absent}
    BY <1>8, NamedSession DEF WellFormed, Prepare
  <2>2. CASE Recorded(r) /\ Proceed(h, op, r, [NoWork EXCEPT !.pc = "answer", !.upload = u, !.answer = Ok(sessions[u].result)])
    <3>1. sessions[u].result \in Nat
      BY <2>1, <2>2 DEF Recorded, Known, Session
    <3> QED
      BY <1>3, <1>5, <2>1, <2>2, <3>1
  <2>3. CASE Ready(r) /\ Proceed(h, op, r, [NoWork EXCEPT !.pc = "put", !.upload = u,
                                               !.chunks = Taken(sessions[u], r), !.expected = sessions[u].expected])
    <3>1. Taken(sessions[u], r) \in Chunks /\ sessions[u].expected \in Nat
      BY <1>0, <2>1, <2>3 DEF Ready, Open, Taken, Session, RequestFields
    <3>2. Proceed(h, op, r, [NoWork EXCEPT !.pc = "put", !.upload = u, !.chunks = Taken(sessions[u], r),
                                !.expected = sessions[u].expected, !.answer = NoWork.answer])
      BY <2>3 DEF NoWork
    <3> QED
      BY <1>1, <1>3, <2>1, <3>1, <3>2
  <2> QED
    BY <1>2, <1>8, <2>2, <2>3 DEF Prepare
<1>9. CASE Remove(h, op, r)
  <2>1. CASE Proceed(h, op, r, [NoWork EXCEPT !.pc = "persist", !.upload = r.upload, !.answer = Ok(0)])
    <3>1. r.upload \in 0..MaxUploads
      BY <1>0 DEF RequestFields
    <3> QED
      BY <1>3, <1>5, <2>1, <3>1
  <2> QED
    BY <1>2, <1>9, <2>1 DEF Remove
<1> QED
  BY <1>6, <1>7, <1>8, <1>9 DEF Serve

\* A request that is deferred gets the answer that is recorded, or none yet.
LEMMA DeferOperations ==
    ASSUME TypeInv, OperationInv, NEW h \in Handlers, handler[h].pc \in {"idle", "wait"},
           NEW op \in Operations \cup {Absent}, NEW r, Defer(h, op, r)
    PROVE  OperationInv'
<1>1. op \in Operations /\ operations[op] \in OperationEntry /\ UNCHANGED <<operations, lapsed>>
  BY DEF Defer, TypeInv
<1>2. \A x \in Operations, g \in Handlers : Owner(g, x)' <=> Owner(g, x)
  <2> DEFINE wait == [NoWork EXCEPT !.pc = "wait", !.op = op, !.request = r]
  <2>1. wait.pc = "wait" /\ NoWork.pc = "idle"
    BY DEF NoWork
  <2>2. handler' = [handler EXCEPT ![h] = NoWork] \/ handler' = [handler EXCEPT ![h] = wait]
    BY DEF Defer
  <2> HIDE DEF wait
  <2> QED
    BY <2>1, <2>2 DEF Owner, TypeInv
<1>3. CASE UNCHANGED answers
  BY <1>1, <1>2, <1>3, OperationFrame DEF OperationInv
<1>4. CASE ~InProgress(op) /\ answers' = [answers EXCEPT ![op] = @ \cup {operations[op].answer}]
  <2>1. operations[op] # Absent /\ operations[op].answer # Absent /\ operations[op].answer \in Response
    BY <1>1, <1>4, UploadAssumption DEF InProgress, OperationEntry
  <2>2. /\ answers' \in [Operations -> SUBSET Response] /\ answers'[op] = answers[op] \cup {operations[op].answer}
        /\ \A x \in Operations \ {op} : answers'[x] = answers[x]
    BY <1>1, <1>4, <2>1 DEF OperationInv
  <2>3. ASSUME NEW x \in Operations \ lapsed PROVE OperationOK(x)'
    <3>0. OperationOK(x)
      BY DEF OperationInv
    <3>1. CASE x # op
      BY <1>1, <1>2, <2>2, <3>0, <3>1, OperationFrame
    <3>2. CASE x = op
      <4>1. ~InProgress(x)' /\ \A g \in Handlers : ~Owner(g, x)'
        BY <1>1, <1>2, <1>4, <3>0, <3>2 DEF OperationOK, InProgress
      <4>2. answers'[x] = {operations'[x].answer} /\ operations'[x] # Absent
        BY <1>1, <2>1, <2>2, <3>0, <3>2 DEF OperationOK
      <4> QED
        BY <4>1, <4>2, NoOwner
    <3> QED
      BY <3>1, <3>2
  <2> QED
    BY <1>1, <2>2, <2>3 DEF OperationInv
<1> QED
  BY <1>3, <1>4 DEF Defer

\* An owner that is dropped takes the entry along, which had no answer.
LEMMA DropOperations ==
    ASSUME TypeInv, OperationInv, NEW h \in Handlers, DropHandler(h)
    PROVE  OperationInv'
<1>1. Only(h) /\ handler'[h].pc = "idle"
  BY Values DEF DropHandler, TypeInv, Only
<1>2. PICK op \in Operations \cup {Absent} : op = handler[h].op
  BY DEF TypeInv, HandlerState
<1>3. /\ UNCHANGED <<answers, lapsed>>
      /\ \A x \in Operations : ~Owner(h, x) => operations'[x] = operations[x]
      /\ \A x \in Operations : Owner(h, x) => operations'[x] = Absent
  BY <1>2, UploadAssumption DEF DropHandler, LeaseDropped, TypeInv, Owner
<1>4. ASSUME NEW x \in Operations \ lapsed PROVE OperationOK(x)'
  <2>0. OperationOK(x)
    BY DEF OperationInv
  <2>1. CASE ~Owner(h, x)
    <3>1. \A g \in Handlers : Owner(g, x)' <=> Owner(g, x)
      BY <1>1, <2>1 DEF Owner, Only
    <3> QED
      BY <1>3, <2>0, <2>1, <3>1, OperationFrame
  <2>2. CASE Owner(h, x)
    <3>1. answers'[x] = {} /\ operations'[x] = Absent
      BY <1>3, <2>0, <2>2 DEF OperationOK, InProgress
    <3>2. \A g \in Handlers : ~Owner(g, x)'
      BY <1>1, <2>0, <2>2 DEF Owner, Only, OperationOK
    <3> QED
      BY <3>1, <3>2, NoOwner DEF InProgress
  <2> QED
    BY <2>1, <2>2
<1> QED
  BY <1>3, <1>4 DEF OperationInv

\* A pruned entry either was answered, and nobody works for it, or is not spoken of.
LEMMA LapseOperations ==
    ASSUME TypeInv, OperationInv, NEW op \in Operations, Lapse(op)
    PROVE  OperationInv'
<1>1. /\ answers' \in [Operations -> SUBSET Response] /\ answers'[op] = {} /\ operations'[op] = Absent
      /\ \A x \in Operations \ {op} : answers'[x] = answers[x] /\ operations'[x] = operations[x]
  BY DEF Lapse, TypeInv, OperationInv
<1>2. lapsed \subseteq lapsed' /\ (InProgress(op) => op \in lapsed')
  BY DEF Lapse
<1>3. \A x \in Operations, g \in Handlers : Owner(g, x)' <=> Owner(g, x)
  BY DEF Lapse, Owner
<1>4. ASSUME NEW x \in Operations \ lapsed' PROVE OperationOK(x)'
  <2>0. OperationOK(x)
    BY <1>2 DEF OperationInv
  <2>1. CASE x # op
    BY <1>1, <1>3, <2>0, <2>1, OperationFrame
  <2>2. CASE x = op
    <3>1. \A g \in Handlers : ~Owner(g, x)'
      BY <1>2, <1>3, <2>0, <2>2 DEF OperationOK
    <3> QED
      BY <1>1, <2>2, <3>1, NoOwner DEF InProgress
  <2> QED
    BY <2>1, <2>2
<1> QED
  BY <1>1, <1>4 DEF OperationInv

\* A restart forgets the operations and whoever worked for them.
LEMMA RestartOperations ==
    ASSUME NEW loaded \in BOOLEAN, RestartNode(loaded)
    PROVE  OperationInv'
<1>1. /\ operations' = [o \in Operations |-> Absent] /\ answers' = [o \in Operations |-> {}]
      /\ handler' = [h \in Handlers |-> NoWork]
  BY DEF RestartNode
<1>2. ASSUME NEW x \in Operations PROVE OperationOK(x)'
  <2>1. \A g \in Handlers : ~Owner(g, x)'
    BY <1>1, Values DEF Owner
  <2>2. answers'[x] = {} /\ ~InProgress(x)'
    BY <1>1 DEF InProgress
  <2> QED
    BY <2>1, <2>2, NoOwner
<1> QED
  BY <1>1, <1>2 DEF OperationInv

\* A handler in the middle of its work: it goes on, or answers.
LEMMA WorkOperations ==
    ASSUME StoreInv, OperationInv, NEW h \in Handlers,
           \/ CommitChunk(h) \/ Put(h) \/ PutFails(h) \/ MetadataFails(h) \/ Reset(h)
           \/ FinishUpload(h) \/ Persist(h) \/ PersistFails(h) \/ AnswerResult(h)
    PROVE  OperationInv'
<1>0. TypeInv /\ handler[h] \in HandlerState /\ handler[h].pc \notin {"idle", "wait"}
  BY DEF StoreInv, TypeInv, CommitChunk, Put, PutFails, MetadataFails, Reset, FinishUpload, Persist,
         PersistFails, AnswerResult
<1>1. ASSUME NEW a \in Response, Answer(h, a) PROVE OperationInv'
  BY <1>0, <1>1, AnswerOperations
<1>2. ASSUME NEW a \in Response, NEW pc \in {"finish", "reset", "persist", "answer"},
             Goto(h, pc, a), UNCHANGED operationVars
      PROVE  OperationInv'
  <2>1. /\ \A g \in Handlers \ {h} : handler'[g] = handler[g]
        /\ handler'[h].op = handler[h].op /\ handler'[h].pc = pc
    BY <1>0, <1>2 DEF Goto, TypeInv, HandlerState
  <2> QED
    BY <1>0, <1>2, <2>1, GoOnOperations
<1>3. Refused \in Response /\ Ok(0) \in Response /\ Ok(handler[h].version) \in Response
      /\ handler[h].answer \in Response
  BY <1>0, Values DEF HandlerState
<1>4. CASE CommitChunk(h)
  BY <1>1, <1>2, <1>3, <1>4 DEF CommitChunk
<1>5. CASE Put(h)
  <2>1. UNCHANGED operationVars
    BY <1>5 DEF Put
  <2>2. \A g \in Handlers : /\ handler'[g].op = handler[g].op
                            /\ handler'[g].pc \in {"idle", "wait"} <=> handler[g].pc \in {"idle", "wait"}
    <3>1. \A g \in Handlers \ {h} : handler'[g] = handler[g]
      BY <1>0, <1>5 DEF Put, TypeInv
    <3>2. handler'[h].op = handler[h].op /\ handler'[h].pc = "finish"
      <4>1. PICK v : v = Len(versions')
        OBVIOUS
      <4>2. handler' = [handler EXCEPT ![h].pc = "finish", ![h].version = v]
        BY <1>5, <4>1 DEF Put
      <4> QED
        BY <1>0, <4>2 DEF TypeInv, HandlerState
    <3> QED
      BY <1>0, <3>1, <3>2
  <2> QED
    BY <2>1, <2>2, GoOnOperations
<1>6. CASE PutFails(h)
  BY <1>2, <1>3, <1>6 DEF PutFails
<1>7. CASE MetadataFails(h)
  BY <1>1, <1>3, <1>7 DEF MetadataFails
<1>8. CASE Reset(h)
  BY <1>2, <1>3, <1>8 DEF Reset
<1>9. CASE FinishUpload(h)
  BY <1>2, <1>3, <1>9 DEF FinishUpload
<1>10. CASE Persist(h) \/ PersistFails(h) \/ AnswerResult(h)
  BY <1>1, <1>3, <1>10 DEF Persist, PersistFails, AnswerResult
<1> QED
  BY <1>4, <1>5, <1>6, <1>7, <1>8, <1>9, <1>10

\* Every step keeps the part of the invariant that is about the operations.
LEMMA OperationStep ==
    ASSUME StoreInv, OperationInv, UploadNext
    PROVE  OperationInv'
<1>1. ASSUME NEW h \in Handlers, NEW op \in Operations \cup {Absent}, NEW r \in Requests, Arrive(h, op, r)
      PROVE  OperationInv'
  <2>1. WellFormed(r) /\ TypeInv
    BY RequestsAreWellFormed DEF StoreInv
  <2>2. handler[h].pc \in {"idle", "wait"} /\ (Serve(h, op, r) \/ Defer(h, op, r))
    BY <1>1 DEF Arrive
  <2> QED
    BY <2>1, <2>2, ServeOperations, DeferOperations
<1>2. ASSUME NEW h \in Handlers, Wake(h) PROVE OperationInv'
  <2>1. PICK r : r = handler[h].request
    OBVIOUS
  <2>2. PICK op \in Operations \cup {Absent} : op = handler[h].op
    BY DEF StoreInv, TypeInv, HandlerState
  <2>3. WellFormed(r) /\ handler[h].pc \in {"idle", "wait"} /\ TypeInv
    BY <1>2, <2>1 DEF Wake, StoreInv, RequestInv, RequestOK
  <2>4. Serve(h, op, r) \/ Defer(h, op, r)
    BY <1>2, <2>1, <2>2 DEF Wake
  <2> QED
    BY <2>3, <2>4, ServeOperations, DeferOperations
<1>3. ASSUME NEW h \in Handlers, HandlerStep(h) PROVE OperationInv'
  BY <1>1, <1>2, <1>3, WorkOperations, DropOperations DEF HandlerStep, StoreInv
<1>4. CASE UNCHANGED <<operationVars, handler>>
  BY <1>4, GoOnOperations
<1>5. CASE PersisterWakes \/ PersisterChecks \/ PersisterWrites \/ OtherPut \/ \E u \in Uploads : Expire(u)
  BY <1>4, <1>5 DEF PersisterWakes, PersisterChecks, PersisterWrites, OtherPut, Expire
<1> QED
  BY <1>3, <1>5, RestartOperations, LapseOperations DEF UploadNext, StoreInv

-------------------------------------------------------------------------------
(***************************************************************************)
(* The theorems                                                            *)
(***************************************************************************)

\* The node starts with nothing.
LEMMA UploadInitInv ==
    ASSUME UploadInit
    PROVE  UploadInv
<1>1. /\ \A h \in Handlers : handler[h] = NoWork /\ handler[h].pc = "idle"
      /\ handler \in [Handlers -> HandlerState]
  BY Values DEF UploadInit
<1>2. \A u \in Uploads : sessions[u] = Absent /\ file[u] = Absent /\ puts[u] = 0
  BY DEF UploadInit
<1>3. TypeInv
  <2>1. versions \in Seq(Chunks)
    BY DEF UploadInit
  <2>2. uploads \in 0..MaxUploads
    BY UploadAssumption DEF UploadInit
  <2> QED
    BY <1>1, <2>1, <2>2 DEF UploadInit, TypeInv
<1>4. RequestInv
  BY <1>1, <1>2 DEF RequestInv, RequestOK
<1>5. CompletionInv
  BY <1>1, <1>2 DEF CompletionInv, CompletionOK, Completing, UploadInit
<1>6. PersisterInv
  <2>1. /\ persister \in [pc : {"waiting", "check", "write"}, persisted : Nat, target : Nat]
        /\ dirty = 0 /\ persister.persisted = 0 /\ persister.target = 0
    BY DEF UploadInit
  <2>2. notified \in BOOLEAN /\ behind \in BOOLEAN /\ ~behind
    BY DEF UploadInit
  <2>3. dirty \in Nat /\ persister.persisted <= dirty /\ persister.target <= dirty
    BY <2>1
  <2> QED
    BY <2>1, <2>2, <2>3 DEF PersisterInv
<1>7. PersistInv
  <2>1. promises = {} /\ ~behind
    BY DEF UploadInit
  <2> QED
    BY <1>1, <2>1 DEF PersistInv, AnswersAreKept
<1>8. OperationInv
  <2>1. operations = [o \in Operations |-> Absent] /\ answers = [o \in Operations |-> {}]
    BY DEF UploadInit
  <2> QED
    BY <1>1, <2>1 DEF OperationInv, OperationOK, InProgress, Owner
<1> QED
  BY <1>3, <1>4, <1>5, <1>6, <1>7, <1>8 DEF UploadInv

\* Nothing that the invariant speaks of changes in a stuttering step.
LEMMA UploadStutters ==
    ASSUME UploadInv, UNCHANGED uploadVars
    PROVE  UploadInv'
<1>1. /\ UNCHANGED <<sessions, file, uploads, behind, operations, answers, lapsed, handler>>
      /\ UNCHANGED <<versions, puts, dirty, notified, persister, promises, interrupted, restarts>>
  BY DEF uploadVars, operationVars, objectVars, persisterVars
<1>2. TypeInv'
  BY <1>1 DEF UploadInv, TypeInv
<1>3. RequestInv'
  BY <1>1 DEF UploadInv, RequestInv, RequestOK, WellFormed
<1>4. CompletionInv'
  BY <1>1 DEF UploadInv, CompletionInv, CompletionOK, Spent, Completing
<1>5. PersisterInv'
  BY <1>1 DEF UploadInv, PersisterInv
<1>6. PersistInv'
  BY <1>1 DEF UploadInv, PersistInv, PromiseOK, AnswersAreKept, Promised
<1>7. OperationInv'
  BY <1>1, GoOnOperations DEF UploadInv, operationVars
<1> QED
  BY <1>2, <1>3, <1>4, <1>5, <1>6, <1>7 DEF UploadInv

\* The inductive invariant: a session is completed by one handler at a time, what
\* a handler is about to answer is true, and an operation that is under way has
\* one owner, whatever handlers, persister, faults and restarts do.
THEOREM UploadInvariant == UploadSpec => []UploadInv
<1>1. UploadInit => UploadInv
  BY UploadInitInv
<1>2. UploadInv /\ [UploadNext]_uploadVars => UploadInv'
  <2>1. ASSUME UploadInv, UploadNext PROVE UploadInv'
    <3>1. StoreInv /\ OperationInv
      BY <2>1 DEF UploadInv, StoreInv
    <3>2. StoreInv' /\ OperationInv'
      BY <2>1, <3>1, StoreStep, OperationStep
    <3> QED
      BY <3>2 DEF UploadInv, StoreInv
  <2> QED
    BY <2>1, UploadStutters
<1> QED
  BY <1>1, <1>2, PTL DEF UploadSpec

\* The session store, its file, the operations, the handlers and the persister
\* have their types; a handler that is at work names a session that was started,
\* and one that finishes has put a version.
THEOREM UploadTypesHold == UploadSpec => []UploadTypeOK
<1>1. UploadInv => UploadTypeOK
  BY DEF UploadInv, TypeInv, RequestInv, RequestOK, PersisterInv, UploadTypeOK
<1> QED
  BY <1>1, UploadInvariant, PTL

\* What the upload handlers have answered stays true: a started session, a chunk
\* that was taken, the result of a completion, a removal, in memory and, unless a
\* failed write is still to be repeated by the persister, in upload_sessions.json,
\* until the node restarts with a file that is behind or that it cannot read.
THEOREM AnswersStayTrue == UploadSpec => []AnswersAreKept
<1>1. UploadInv => AnswersAreKept
  BY DEF UploadInv, PersistInv
<1> QED
  BY <1>1, UploadInvariant, PTL

\* A session is closed exactly while one request completes it, with the chunks
\* that it will have, and is put into the object store at most once per run of the
\* node, however many completions arrive.
THEOREM CompletionsStayExclusive == UploadSpec => []CompletionsAreExclusive
<1>1. UploadInv => CompletionsAreExclusive
  <2>1. ASSUME UploadInv, NEW u \in Uploads PROVE puts[u] <= 1 + restarts
    <3>1. puts[u] \in Nat /\ restarts \in Nat
      BY <2>1 DEF UploadInv, TypeInv
    <3>2. puts[u] <= restarts \/ puts[u] = restarts + 1
      BY <2>1 DEF UploadInv, CompletionInv, CompletionOK
    <3> QED
      BY <3>1, <3>2
  <2> QED
    BY <2>1 DEF UploadInv, CompletionInv, CompletionOK, CompletionsAreExclusive
<1> QED
  BY <1>1, UploadInvariant, PTL

\* All requests with one operation id get one answer, and nobody waits for an owner
\* that is gone, unless prune took the entry while its owner was at work.
THEOREM OperationsHaveOneAnswer == UploadSpec => []OneAnswerPerOperation
<1>1. UploadInv => OneAnswerPerOperation
  <2> SUFFICES ASSUME UploadInv, NEW op \in Operations \ lapsed
               PROVE  /\ Cardinality(answers[op]) <= 1
                      /\ InProgress(op) => \E h \in Handlers : Owner(h, op)
    BY DEF OneAnswerPerOperation, Owner
  <2>1. OperationOK(op)
    BY DEF UploadInv, OperationInv
  <2>2. Cardinality(answers[op]) <= 1
    <3>1. CASE answers[op] = {}
      BY <3>1, FS_EmptySet
    <3>2. CASE answers[op] = {operations[op].answer}
      <4>1. Cardinality({operations[op].answer}) = 1
        BY FS_Singleton
      <4> QED
        BY <3>2, <4>1
    <3> QED
      BY <2>1, <3>1, <3>2 DEF OperationOK
  <2> QED
    BY <2>1, <2>2 DEF OperationOK
<1> QED
  BY <1>1, UploadInvariant, PTL

===============================================================================
