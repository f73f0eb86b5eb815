---------------------------- MODULE Server_proofs ----------------------------
(***************************************************************************)
(* The in-process cache never answers with a value older than the key it   *)
(* was asked with, for any threads, files, versions and requests; the MCP  *)
(* server answers every request once, in order and with the documents of   *)
(* its own operation, for any messages and sessions of any length.         *)
(***************************************************************************)
EXTENDS Mcp, BinaryCache, SequenceTheorems, TLAPS

(* BinaryCache *)

States == [at : {"idle", "wait", "compute", "done"}, path : Paths \cup {Nobody},
           stamp : Nat, since : Nat, value : Nat]

CacheTypeOK ==
  /\ version \in [Paths -> Nat] /\ stamp \in [Paths -> Nat] /\ since \in [Paths -> Nat]
  /\ slot \in [path : Paths \cup {Nobody}, stamp : Nat, value : Nat]
  /\ worker \in [Threads -> States]

\* A file's stamp was first seen at a version it has reached.
StampOK == \A p \in Paths :
  1 <= stamp[p] /\ stamp[p] <= version[p] /\ since[p] <= version[p]

\* A worker with a request in progress carries a key of its file: the current
\* one, whose first version it knows, or an earlier one.
Asking(t) == worker[t].at \in {"wait", "compute"}
WorkerOK(t) ==
  /\ worker[t].at # "idle" => worker[t].path \in Paths
  /\ Asking(t) =>
       /\ 1 <= worker[t].stamp /\ worker[t].stamp <= stamp[worker[t].path]
       /\ worker[t].since <= version[worker[t].path]
       /\ worker[t].stamp = stamp[worker[t].path] => worker[t].since = since[worker[t].path]
  /\ worker[t].at = "done" =>
       worker[t].since <= worker[t].value /\ worker[t].value <= version[worker[t].path]

\* The slot holds a version its file has reached, no older than the first one
\* with the slot's stamp, as far as the file or a worker still has that stamp.
SlotOK == slot # NoEntry =>
  /\ slot.path \in Paths
  /\ slot.stamp <= slot.value /\ slot.value <= version[slot.path]
  /\ slot.stamp <= stamp[slot.path]
  /\ slot.stamp = stamp[slot.path] => since[slot.path] <= slot.value
  /\ \A t \in Threads : Asking(t) /\ Matches(t) => worker[t].since <= slot.value

CInv == CacheTypeOK /\ StampOK /\ (\A t \in Threads : WorkerOK(t)) /\ SlotOK

---------------------------------------------------------------------------
\* A file gets a new version: no key that is in use becomes the current one.
LEMMA ReplaceStep ==
  ASSUME CInv, NEW p \in Paths, NEW same \in BOOLEAN, Replace(p, same)
  PROVE  CInv'
<1>1. /\ \A q \in Paths : q # p => version'[q] = version[q] /\ stamp'[q] = stamp[q] /\ since'[q] = since[q]
      /\ version'[p] = version[p] + 1
      /\ same => stamp'[p] = stamp[p] /\ since'[p] = since[p]
      /\ ~same => stamp'[p] = stamp[p] + 1 /\ since'[p] = version[p] + 1
      /\ slot' = slot /\ worker' = worker
  BY DEF CInv, CacheTypeOK, Replace
<1>2. CacheTypeOK'
  BY DEF CInv, CacheTypeOK, Replace
<1>3. StampOK'
  BY <1>1 DEF CInv, CacheTypeOK, StampOK
<1>4. ASSUME NEW t \in Threads PROVE WorkerOK(t)'
  BY <1>1 DEF CInv, CacheTypeOK, StampOK, WorkerOK, Asking, States
<1>5. SlotOK'
  BY <1>1 DEF CInv, CacheTypeOK, StampOK, SlotOK, Asking, Matches, States
<1>6. QED
  BY <1>2, <1>3, <1>4, <1>5 DEF CInv

\* Key::file: the key read is the current one.
LEMMA ReadKeyStep ==
  ASSUME CInv, NEW t \in Threads, NEW p \in Paths, ReadKey(t, p) \/ Uncached(t, p)
  PROVE  CInv'
<1> DEFINE asked == [at |-> "wait", path |-> p, stamp |-> stamp[p], since |-> since[p], value |-> 0]
           parsed == [at |-> "done", path |-> p, stamp |-> 0, since |-> version[p], value |-> version[p]]
<1>0. worker' = [worker EXCEPT ![t] = asked] \/ worker' = [worker EXCEPT ![t] = parsed]
  BY Zenon DEF ReadKey, Uncached, Fresh
<1>1. /\ \A u \in Threads : u # t => worker'[u] = worker[u]
      /\ UNCHANGED <<version, stamp, since, slot>>
      /\ worker'[t] = asked \/ worker'[t] = parsed
  BY <1>0 DEF CInv, CacheTypeOK, ReadKey, Uncached
<1>2. CacheTypeOK'
  BY <1>0, <1>1 DEF CInv, CacheTypeOK, States
<1>3. ASSUME NEW u \in Threads PROVE WorkerOK(u)'
  BY <1>1 DEF CInv, CacheTypeOK, StampOK, WorkerOK, Asking
<1>4. SlotOK'
  BY <1>1 DEF CInv, CacheTypeOK, StampOK, SlotOK, Asking, Matches
<1>5. QED
  BY <1>1, <1>2, <1>3, <1>4 DEF CInv, StampOK

\* lock(): a hit takes what is in the slot.
LEMMA LockStep ==
  ASSUME CInv, NEW t \in Threads, Lock(t)
  PROVE  CInv'
<1>1. /\ \A u \in Threads : u # t => worker'[u] = worker[u]
      /\ UNCHANGED <<version, stamp, since, slot>>
      /\ worker[t].at = "wait"
      /\ worker'[t].path = worker[t].path /\ worker'[t].stamp = worker[t].stamp
      /\ worker'[t].since = worker[t].since
      /\ \/ worker'[t].at = "compute"
         \/ worker'[t].at = "done" /\ Matches(t) /\ worker'[t].value = slot.value
  BY DEF CInv, CacheTypeOK, Lock, States
<1>2. CacheTypeOK'
  BY DEF CInv, CacheTypeOK, Lock, States
<1>3. Matches(t) => slot # NoEntry
  BY <1>1 DEF CInv, CacheTypeOK, WorkerOK, Asking, Matches, NoEntry, States
<1>4. ASSUME NEW u \in Threads PROVE WorkerOK(u)'
  BY <1>1, <1>3 DEF CInv, CacheTypeOK, WorkerOK, SlotOK, Asking, Matches
<1>5. SlotOK'
  BY <1>1 DEF CInv, CacheTypeOK, SlotOK, Asking, Matches
<1>6. QED
  BY <1>1, <1>2, <1>4, <1>5 DEF CInv, StampOK

\* compute(): what enters the slot is as new as the file.
LEMMA ComputeStep ==
  ASSUME CInv, NEW t \in Threads, Compute(t)
  PROVE  CInv'
<1> DEFINE p == worker[t].path
<1>1. p \in Paths /\ Asking(t)
  BY DEF CInv, WorkerOK, Compute, Asking
<1>2. /\ \A u \in Threads : u # t => worker'[u] = worker[u]
      /\ UNCHANGED <<version, stamp, since>>
      /\ worker'[t].at = "done" /\ worker'[t].path = p
      /\ worker'[t].since = worker[t].since /\ worker'[t].value = version[p]
      /\ slot'.path = p /\ slot'.stamp = worker[t].stamp /\ slot'.value = version[p]
  BY DEF CInv, CacheTypeOK, Compute, States
<1>3. CacheTypeOK'
  BY <1>1 DEF CInv, CacheTypeOK, Compute, States
<1>4. ASSUME NEW u \in Threads PROVE WorkerOK(u)'
  BY <1>1, <1>2 DEF CInv, CacheTypeOK, WorkerOK, Asking
<1>5. SlotOK'
  BY <1>1, <1>2 DEF CInv, CacheTypeOK, StampOK, WorkerOK, SlotOK, Asking, Matches, States
<1>6. QED
  BY <1>2, <1>3, <1>4, <1>5 DEF CInv, StampOK

\* A worker that unwinds or has its value gives its key up.
LEMMA ResetStep ==
  ASSUME CInv, NEW t \in Threads, Unwind(t) \/ Use(t)
  PROVE  CInv'
<1>1. /\ \A u \in Threads : u # t => worker'[u] = worker[u]
      /\ UNCHANGED <<version, stamp, since, slot>>
      /\ worker'[t].at = "idle"
  BY DEF CInv, CacheTypeOK, Unwind, Use, Fresh
<1>2. CacheTypeOK'
  BY DEF CInv, CacheTypeOK, Unwind, Use, Fresh, States
<1>3. QED
  BY <1>1, <1>2 DEF CInv, CacheTypeOK, StampOK, WorkerOK, SlotOK, Asking, Matches

\* No value handed out by Cache::get, and none kept for later, is older than the
\* binary its key describes, for any threads, files, versions and requests.
THEOREM CacheNeverOlder == CSpec => []NeverOlder
<1>1. CInit => CInv
  BY DEF CInit, CInv, CacheTypeOK, StampOK, WorkerOK, SlotOK, Asking, NoEntry, Fresh, States
<1>2. CInv /\ [CNext]_cvars => CInv'
  <2> SUFFICES ASSUME CInv, [CNext]_cvars PROVE CInv'
    OBVIOUS
  <2>1. CASE \E p \in Paths, same \in BOOLEAN : Replace(p, same)
    BY <2>1, ReplaceStep
  <2>2. CASE \E t \in Threads, p \in Paths : ReadKey(t, p) \/ Uncached(t, p)
    BY <2>2, ReadKeyStep
  <2>3. CASE \E t \in Threads : WorkerMove(t) \/ Use(t)
    BY <2>3, LockStep, ComputeStep, ResetStep DEF WorkerMove
  <2>4. CASE UNCHANGED cvars
    BY <2>4 DEF cvars, CInv, CacheTypeOK, StampOK, WorkerOK, SlotOK, Asking, Matches
  <2>5. QED
    BY <2>1, <2>2, <2>3, <2>4 DEF CNext
<1>3. CInv => NeverOlder
  BY DEF CInv, CacheTypeOK, WorkerOK, SlotOK, NeverOlder, States
<1>4. QED
  BY <1>1, <1>2, <1>3, PTL DEF CSpec

---------------------------------------------------------------------------
(* Mcp *)

Docs == [from : Nat, kind : {"payload", "record", "failure"}]
Replies == [line : Nat, id : {0} \cup {msg.id : msg \in Messages},
            result : {"none", "plain", "rpc_error", "tool"}, error : BOOLEAN, docs : Seq(Docs)]

McpTypeOK ==
  /\ lines \in Seq(Messages)
  /\ spc \in {"read", "handle", "join", "write", "closed", "failed"}
  /\ wpc \in {"none", "begin", "select", "run", "unframe", "finish", "end", "exited", "panicked"}
  /\ frames \in Seq(Seq(Docs)) /\ captured \in Seq(Docs) /\ output \in Seq(Docs)
  /\ outcome \in [ok : BOOLEAN, code : 0 .. 2]
  /\ reply \in Replies /\ responses \in Seq(Replies)

Payloads(line, docs) ==
  \A k \in 1 .. Len(docs) : docs[k].from = line /\ docs[k].kind = "payload"
WithEvidence == Message.tool = "evidence"

\* What the response's own frame holds when the operation has ended: its
\* payloads, or the record made of them and nothing when none was made.
Ended(line, evidence, ok, docs) ==
  IF evidence THEN docs = IF ok THEN <<[from |-> line, kind |-> "record"]>> ELSE <<>>
  ELSE Payloads(line, docs)

\* serve() waits for a worker exactly while it handles a tool call.
SessionOK ==
  /\ spc = "join" <=> wpc # "none"
  /\ spc \in {"handle", "join", "write"} => lines # <<>> /\ Message.kind # "blank"
  /\ spc = "join" => IsTool(Message)
  /\ printed = <<>>

\* The frames open at each step of the worker, and what is in them.
FramesOK ==
  /\ wpc = "begin" => frames = <<>>
  /\ wpc = "select" => frames = << <<>> >>
  /\ wpc \in {"run", "unframe"} =>
       IF WithEvidence THEN Len(frames) = 2 /\ frames[1] = <<>> /\ Payloads(Now, frames[2])
       ELSE Len(frames) = 1 /\ Payloads(Now, frames[1])
  /\ wpc = "unframe" => WithEvidence
  /\ wpc = "finish" => WithEvidence /\ frames = << <<>> >> /\ outcome.ok
  /\ wpc = "end" => Len(frames) = 1 /\ Ended(Now, WithEvidence, outcome.ok, frames[1])
  /\ wpc = "exited" => Ended(Now, WithEvidence, outcome.ok, output)
  /\ ~outcome.ok => outcome.code = 1

\* A response belongs to a line that is due one, carries its id and nothing
\* but its documents.
NeedsAnswer(msg) == msg.kind \notin {"blank", "notification", "response"}
Attributed(r) ==
  /\ r.line \in 1 .. Now /\ NeedsAnswer(lines[r.line])
  /\ r.id = IF lines[r.line].kind \in {"garbage", "not_object", "bad_id"}
            THEN 0 ELSE lines[r.line].id
Faithful(r) ==
  /\ \A k \in 1 .. Len(r.docs) :
       /\ r.docs[k].from = r.line
       /\ r.docs[k].kind = "failure" => r.error /\ k = Len(r.docs)
  /\ lines[r.line].kind = "call" /\ lines[r.line].tool = "evidence" =>
       Len(r.docs) = 1 /\ r.docs[1].kind \in {"record", "failure"}

Answers == {responses[i].line : i \in 1 .. Len(responses)}
Handled == IF spc \in {"handle", "join", "write"} THEN Now - 1 ELSE Now

ResponsesOK ==
  /\ \A i \in 1 .. Len(responses) : Attributed(responses[i]) /\ Faithful(responses[i])
  /\ \A i, j \in 1 .. Len(responses) : i < j => responses[i].line < responses[j].line
  /\ spc # "failed" =>
       \A n \in 1 .. Now : n \in Answers <=> n <= Handled /\ NeedsAnswer(lines[n])
  /\ spc = "write" => Attributed(reply) /\ Faithful(reply) /\ reply.line = Now

SInv == McpTypeOK /\ SessionOK /\ FramesOK /\ ResponsesOK

\* What appending an element does.
LEMMA Appended ==
  ASSUME NEW S, NEW s \in Seq(S), NEW e \in S
  PROVE  /\ Append(s, e) \in Seq(S) /\ Append(s, e) # <<>>
         /\ Len(s) \in Nat /\ Len(Append(s, e)) = Len(s) + 1
         /\ \A i \in 1 .. Len(s) : Append(s, e)[i] = s[i]
         /\ Append(s, e)[Len(s) + 1] = e
  OBVIOUS

\* The message being handled is one of the client's.
LEMMA MessageShape ==
  ASSUME McpTypeOK, lines # <<>>
  PROVE  /\ Now \in Nat /\ Now >= 1 /\ Message \in Messages
         /\ Message.id \in {0} \cup {msg.id : msg \in Messages}
  BY DEF McpTypeOK, Now, Message

\* Only what the responses say depends on the lines, responses and reply.
LEMMA ResponsesKept ==
  ASSUME SInv, UNCHANGED <<lines, responses, reply>>, spc' = spc
  PROVE  ResponsesOK'
  BY DEF SInv, ResponsesOK, Attributed, Faithful, NeedsAnswer, Answers, Handled, Now

\* read_until: the session so far stays as it was answered.
LEMMA ReadStep ==
  ASSUME SInv, NEW msg \in Messages, Read(msg)
  PROVE  SInv'
<1>1. /\ Now \in Nat /\ Now' = Now + 1 /\ lines'[Now'] = msg /\ lines' # <<>>
      /\ \A i \in 1 .. Now : lines'[i] = lines[i]
      /\ lines' \in Seq(Messages)
      /\ spc = "read" /\ spc' \in {"read", "handle"}
      /\ spc' = "handle" <=> msg.kind # "blank"
      /\ UNCHANGED <<wpc, frames, captured, outcome, output, reply, responses, printed>>
  <2>1. lines \in Seq(Messages) /\ lines' = Append(lines, msg)
    BY DEF SInv, McpTypeOK, Read
  <2>2. /\ Now \in Nat /\ Now' = Now + 1 /\ lines'[Now'] = msg /\ lines' # <<>>
        /\ \A i \in 1 .. Now : lines'[i] = lines[i]
        /\ lines' \in Seq(Messages)
    BY <2>1, Appended DEF Now
  <2>3. QED
    BY <2>2 DEF Read
<1>2. McpTypeOK'
  BY <1>1 DEF SInv, McpTypeOK
<1>3. wpc = "none"
  BY <1>1 DEF SInv, SessionOK
<1>4. SessionOK'
  BY <1>1, <1>3 DEF SInv, SessionOK, Message
<1>5. FramesOK'
  BY <1>1, <1>3 DEF SInv, FramesOK
<1>6. ResponsesOK'
  <2>1. \A i \in 1 .. Len(responses) : responses[i].line \in 1 .. Now
    BY DEF SInv, ResponsesOK, Attributed
  <2>2. \A i \in 1 .. Len(responses) : Attributed(responses[i])' /\ Faithful(responses[i])'
    BY <1>1, <2>1 DEF SInv, ResponsesOK, Attributed, Faithful
  <2>3. Handled' = (IF msg.kind = "blank" THEN Now + 1 ELSE Now) /\ Handled = Now
    BY <1>1 DEF Handled
  <2>4. Answers' = Answers /\ Now + 1 \notin Answers
    BY <1>1, <2>1 DEF Answers
  <2>5. \A n \in 1 .. Now' : n \in Answers' <=> n <= Handled' /\ NeedsAnswer(lines'[n])
    BY <1>1, <2>3, <2>4 DEF SInv, ResponsesOK, NeedsAnswer
  <2>6. QED
    BY <1>1, <2>2, <2>5 DEF SInv, ResponsesOK, NeedsAnswer
<1>7. QED
  BY <1>2, <1>4, <1>5, <1>6 DEF SInv

LEMMA CloseStep ==
  ASSUME SInv, Close
  PROVE  SInv'
<1>1. /\ spc = "read" /\ spc' \in {"closed", "failed"}
      /\ UNCHANGED <<lines, wpc, frames, captured, outcome, output, reply, responses, printed>>
  BY DEF Close
<1>2. McpTypeOK' /\ SessionOK' /\ FramesOK'
  BY <1>1 DEF SInv, McpTypeOK, SessionOK, FramesOK, Payloads, Ended, WithEvidence, Doc, Message, Now
<1>3. ResponsesOK'
  BY <1>1 DEF SInv, ResponsesOK, Attributed, Faithful, NeedsAnswer, Answers, Handled, Now
<1>4. QED
  BY <1>2, <1>3 DEF SInv

\* What a reply must be for the response being written.
LEMMA ReplyGiven ==
  ASSUME SInv, spc \in {"handle", "join"}, spc' = "write", wpc' = "none",
         UNCHANGED <<lines, frames, captured, outcome, output, responses, printed>>,
         reply' \in Replies, reply'.line = Now, Attributed(reply'), Faithful(reply')
  PROVE  SInv'
<1>1. McpTypeOK' /\ SessionOK'
  BY DEF SInv, McpTypeOK, SessionOK, Message, Now
<1>2. FramesOK'
  BY DEF SInv, FramesOK
<1>3. Attributed(reply)' /\ Faithful(reply)' /\ reply'.line = Now'
  BY DEF Attributed, Faithful, NeedsAnswer, Now
<1>4. ResponsesOK'
  BY <1>3 DEF SInv, ResponsesOK, Attributed, Faithful, NeedsAnswer, Answers, Handled, Now
<1>5. QED
  BY <1>1, <1>2, <1>4 DEF SInv

\* A failed tool call is answered with one failure document.
LEMMA FailureReply ==
  ASSUME SInv, spc \in {"handle", "join"}, IsTool(Message)
  PROVE  LET r == ToolResult(1, <<Doc("failure")>>)
         IN  r \in Replies /\ r.line = Now /\ Attributed(r) /\ Faithful(r)
<1> DEFINE d == Doc("failure")
           r == ToolResult(1, <<d>>)
<1>1. Now \in Nat /\ Now >= 1 /\ Message.id \in {0} \cup {msg.id : msg \in Messages}
  BY MessageShape DEF SInv, SessionOK
<1>2. d \in Docs /\ d.from = Now /\ d.kind = "failure"
  BY <1>1 DEF Doc, Docs
<1> HIDE DEF d
<1>3. <<d>> \in Seq(Docs) /\ Len(<<d>>) = 1 /\ <<d>>[1] = d
  BY <1>2
<1>4. /\ r.line = Now /\ r.id = Message.id /\ r.error = TRUE /\ r.docs = <<d>>
      /\ r \in Replies
  BY <1>1, <1>3 DEF ToolResult, Replies
<1>5. Message.kind = "call" /\ Message = lines[Now]
  BY DEF IsTool, Message
<1> HIDE DEF r
<1>6. Attributed(r)
  BY <1>1, <1>4, <1>5 DEF Attributed, NeedsAnswer
<1>7. Faithful(r)
  BY <1>2, <1>3, <1>4 DEF Faithful
<1>8. QED
  BY <1>4, <1>6, <1>7 DEF r, d

\* handle() for everything but tool calls.
LEMMA HandleStep ==
  ASSUME SInv, HandleNow
  PROVE  SInv'
<1>1. /\ spc = "handle" /\ ~IsTool(Message) /\ wpc = "none"
      /\ UNCHANGED <<lines, wpc, frames, captured, outcome, output, responses, printed>>
  BY DEF HandleNow, SInv, SessionOK
<1>2. Now \in Nat /\ Now >= 1 /\ Message.id \in {0} \cup {msg.id : msg \in Messages}
  BY <1>1, MessageShape DEF SInv, SessionOK
<1>3. CASE Silent(Message)
  <2>1. spc' = "read" /\ reply' = reply
    BY <1>3 DEF HandleNow
  <2>2. McpTypeOK' /\ SessionOK' /\ FramesOK'
    BY <1>1, <2>1 DEF SInv, McpTypeOK, SessionOK, FramesOK
  <2>3. ~NeedsAnswer(lines[Now])
    BY <1>3 DEF Silent, NeedsAnswer, Message
  <2>4. Handled' = Now /\ Handled = Now - 1 /\ Now' = Now
    BY <1>1, <2>1 DEF Handled, Now
  <2>5. Answers' = Answers
    BY <1>1 DEF Answers
  <2>6. \A n \in 1 .. Now : n \in Answers' <=> n <= Handled' /\ NeedsAnswer(lines'[n])
    BY <1>1, <1>2, <2>3, <2>4, <2>5 DEF SInv, ResponsesOK
  <2>7. ResponsesOK'
    BY <1>1, <2>1, <2>4, <2>6 DEF SInv, ResponsesOK, Attributed, Faithful, NeedsAnswer, Now
  <2>8. QED
    BY <2>2, <2>7 DEF SInv
<1>4. CASE ~Silent(Message)
  <2> DEFINE res == IF Message.kind = "ping" THEN "plain" ELSE "rpc_error"
             r == [line |-> Now, id |-> IdOf(Message), result |-> res, error |-> FALSE, docs |-> <<>>]
  <2>1. spc' = "write" /\ reply' = r
    BY <1>4, Zenon DEF HandleNow, NoReply
  <2>2. res \in {"plain", "rpc_error"}
    OBVIOUS
  <2>3. r \in Replies
    BY <1>2, <2>2 DEF Replies, IdOf
  <2> HIDE DEF res
  <2>4. Message.kind \notin {"blank", "notification", "response"} /\ Message = lines[Now]
    BY <1>4 DEF Silent, Message
  <2>5. ~(Message.kind = "call" /\ Message.tool = "evidence")
    BY <1>1 DEF IsTool
  <2>6. Attributed(r)
    BY <1>2, <2>4 DEF Attributed, NeedsAnswer, IdOf
  <2>7. Faithful(r)
    BY <2>4, <2>5 DEF Faithful
  <2>8. QED
    BY <1>1, <2>1, <2>3, <2>6, <2>7, ReplyGiven
<1>5. QED
  BY <1>3, <1>4

\* invoke() answers without a worker.
LEMMA RefuseStep ==
  ASSUME SInv, RefuseArguments \/ SpawnFails
  PROVE  SInv'
<1>1. /\ spc = "handle" /\ IsTool(Message) /\ wpc = "none" /\ wpc' = "none" /\ spc' = "write"
      /\ UNCHANGED <<lines, frames, captured, outcome, output, responses, printed>>
      /\ reply' = ToolResult(1, <<Doc("failure")>>)
  BY DEF RefuseArguments, SpawnFails, SInv, SessionOK
<1>2. QED
  BY <1>1, FailureReply, ReplyGiven

\* A worker starts with no frame of its own.
LEMMA SpawnStep ==
  ASSUME SInv, Spawn
  PROVE  SInv'
<1>1. /\ spc = "handle" /\ IsTool(Message) /\ wpc = "none" /\ wpc' = "begin" /\ spc' = "join"
      /\ frames' = <<>> /\ captured' = <<>> /\ output' = <<>>
      /\ UNCHANGED <<lines, outcome, reply, responses, printed>>
  BY DEF Spawn, SInv, SessionOK
<1>2. McpTypeOK' /\ SessionOK' /\ FramesOK'
  BY <1>1 DEF SInv, McpTypeOK, SessionOK, FramesOK, IsTool, Message, Now
<1>3. ResponsesOK'
  BY <1>1 DEF SInv, ResponsesOK, Attributed, Faithful, NeedsAnswer, Answers, Handled, Now
<1>4. QED
  BY <1>2, <1>3 DEF SInv

---------------------------------------------------------------------------
(* The worker: only its frames, its outcome and its output change. *)

LEMMA WorkerKeeps ==
  ASSUME SInv, UNCHANGED <<lines, spc, reply, responses, printed>>, wpc # "none", wpc' # "none",
         McpTypeOK', FramesOK'
  PROVE  SInv'
<1>1. SessionOK'
  BY DEF SInv, SessionOK, IsTool, Message, Now
<1>2. QED
  BY <1>1, ResponsesKept DEF SInv

\* What a message and a document are does not change while a worker runs.
LEMMA SameLine ==
  ASSUME lines' = lines
  PROVE  Now' = Now /\ WithEvidence' = WithEvidence
  BY DEF Now, WithEvidence, Message

LEMMA BeginSelectStep ==
  ASSUME SInv, Begin \/ Select \/ SelectFails
  PROVE  SInv'
<1>1. UNCHANGED <<lines, spc, reply, responses, printed, captured, output>> /\ wpc # "none" /\ wpc' # "none"
  BY DEF Begin, Select, SelectFails
<1>2. CASE Begin
  <2>1. frames' = << <<>> >> /\ wpc' = "select" /\ outcome' = outcome
    BY <1>2 DEF Begin, BeginCapture, SInv, FramesOK
  <2>2. McpTypeOK' /\ FramesOK'
    BY <1>1, <2>1 DEF SInv, McpTypeOK, FramesOK
  <2>3. QED
    BY <1>1, <2>2, WorkerKeeps
<1>3. CASE Select
  <2>1. frames = << <<>> >> /\ wpc' = "run" /\ outcome' = outcome
    BY <1>3 DEF Select, SInv, FramesOK
  <2>2. frames \in Seq(Seq(Docs)) /\ <<>> \in Seq(Docs)
    BY DEF SInv, McpTypeOK
  <2>3. LET opened == Append(frames, <<>>)
        IN  opened \in Seq(Seq(Docs)) /\ Len(opened) = 2 /\ opened[1] = <<>> /\ opened[2] = <<>>
    BY <2>1, <2>2, Appended
  <2>4. /\ WithEvidence => Len(frames') = 2 /\ frames'[1] = <<>> /\ frames'[2] = <<>>
        /\ ~WithEvidence => Len(frames') = 1 /\ frames'[1] = <<>>
        /\ frames' \in Seq(Seq(Docs))
    BY <1>3, <2>1, <2>2, <2>3 DEF Select, BeginCapture, WithEvidence
  <2>5. McpTypeOK'
    BY <1>1, <2>1, <2>4 DEF SInv, McpTypeOK
  <2>6. FramesOK'
    BY <1>1, <2>1, <2>4, SameLine DEF SInv, FramesOK, Payloads
  <2>7. QED
    BY <1>1, <2>5, <2>6, WorkerKeeps
<1>4. CASE SelectFails
  <2>1. frames' = << <<>> >> /\ wpc' = "end" /\ outcome' = [ok |-> FALSE, code |-> 1]
    BY <1>4 DEF SelectFails, SInv, FramesOK, Failed
  <2>2. McpTypeOK'
    BY <1>1, <2>1 DEF SInv, McpTypeOK
  <2>3. Ended(Now, WithEvidence, outcome.ok, <<>>)'
    BY <2>1 DEF Ended, Payloads
  <2>4. FramesOK'
    BY <1>1, <2>1, <2>3 DEF SInv, FramesOK
  <2>5. QED
    BY <1>1, <2>2, <2>4, WorkerKeeps
<1>5. QED
  BY <1>2, <1>3, <1>4

\* emit() adds to the innermost frame and prints nothing while one is open.
LEMMA EmitFact ==
  ASSUME McpTypeOK, lines # <<>>, frames # <<>>, NEW kind \in {"payload", "record", "failure"},
         Emit(Doc(kind))
  PROVE  /\ frames' \in Seq(Seq(Docs)) /\ Len(frames') = Len(frames) /\ printed' = printed
         /\ \A n \in 1 .. Len(frames) : n # Len(frames) => frames'[n] = frames[n]
         /\ frames[Len(frames)] \in Seq(Docs)
         /\ frames'[Len(frames)] = Append(frames[Len(frames)], Doc(kind))
         /\ Doc(kind) \in Docs
<1> DEFINE top == Append(frames[Len(frames)], Doc(kind))
<1>1. Doc(kind) \in Docs
  BY MessageShape DEF Doc, Docs
<1>2. frames \in Seq(Seq(Docs)) /\ Len(frames) \in 1 .. Len(frames) /\ frames[Len(frames)] \in Seq(Docs)
  BY DEF McpTypeOK
<1>3. top \in Seq(Docs)
  BY <1>1, <1>2, Appended
<1>4. frames' = [frames EXCEPT ![Len(frames)] = top] /\ printed' = printed
  BY DEF Emit
<1> HIDE DEF top
<1>5. /\ frames' \in Seq(Seq(Docs)) /\ Len(frames') = Len(frames)
      /\ \A n \in 1 .. Len(frames) : n # Len(frames) => frames'[n] = frames[n]
      /\ frames'[Len(frames)] = top
  BY <1>2, <1>3, <1>4
<1>6. QED
  BY <1>1, <1>2, <1>4, <1>5 DEF top

\* What taking the last element off does.
LEMMA Shortened ==
  ASSUME NEW S, NEW s \in Seq(S), s # <<>>
  PROVE  /\ s[Len(s)] \in S
         /\ SubSeq(s, 1, Len(s) - 1) \in Seq(S)
         /\ Len(SubSeq(s, 1, Len(s) - 1)) = Len(s) - 1
         /\ \A n \in 1 .. Len(s) - 1 : SubSeq(s, 1, Len(s) - 1)[n] = s[n]
<1> DEFINE m == Len(s) - 1
           t == SubSeq(s, 1, m)
<1>1. s[Len(s)] \in S /\ m \in Nat /\ \A i \in 1 .. m : s[i] \in S
  OBVIOUS
<1> HIDE DEF m
<1>2. /\ t \in Seq(S) /\ Len(t) = IF 1 <= m THEN m - 1 + 1 ELSE 0
      /\ \A i \in 1 .. m - 1 + 1 : t[i] = s[1 + i - 1]
  BY <1>1, SubSeqProperties
<1> HIDE DEF t
<1>3. t \in Seq(S) /\ Len(t) = m /\ \A i \in 1 .. m : t[i] = s[i]
  BY <1>1, <1>2
<1>4. QED
  BY <1>1, <1>3 DEF t, m

\* end_capture() takes the innermost frame off.
LEMMA EndCaptureFact ==
  ASSUME NEW stack \in Seq(Seq(Docs)), stack # <<>>
  PROVE  /\ EndCapture(stack).docs = stack[Len(stack)] /\ stack[Len(stack)] \in Seq(Docs)
         /\ EndCapture(stack).rest \in Seq(Seq(Docs))
         /\ Len(EndCapture(stack).rest) = Len(stack) - 1
         /\ \A n \in 1 .. Len(stack) - 1 : EndCapture(stack).rest[n] = stack[n]
<1>1. EndCapture(stack).docs = stack[Len(stack)] /\ EndCapture(stack).rest = SubSeq(stack, 1, Len(stack) - 1)
  BY DEF EndCapture, Last, Front
<1>2. QED
  BY <1>1, Shortened

LEMMA PayloadStep ==
  ASSUME SInv, Payload
  PROVE  SInv'
<1>1. /\ UNCHANGED <<lines, spc, wpc, reply, responses, captured, output, outcome>> /\ wpc = "run"
      /\ Emit(Doc("payload"))
  BY DEF Payload
<1>2. lines # <<>> /\ frames # <<>> /\ McpTypeOK
  BY <1>1 DEF SInv, SessionOK, FramesOK, McpTypeOK
<1> DEFINE n == Len(frames)
<1>3. /\ frames' \in Seq(Seq(Docs)) /\ Len(frames') = n /\ printed' = printed
      /\ \A k \in 1 .. n : k # n => frames'[k] = frames[k]
      /\ frames[n] \in Seq(Docs) /\ frames'[n] = Append(frames[n], Doc("payload"))
      /\ Doc("payload") \in Docs
  BY <1>1, <1>2, EmitFact
<1>4. n \in {1, 2} /\ Payloads(Now, frames[n])
  BY <1>1 DEF SInv, FramesOK
<1>5. Payloads(Now, Append(frames[n], Doc("payload")))
  <2>1. Doc("payload").from = Now /\ Doc("payload").kind = "payload"
    BY DEF Doc
  <2>2. QED
    BY <1>3, <1>4, <2>1, Appended DEF Payloads
<1>6. McpTypeOK'
  BY <1>1, <1>3 DEF SInv, McpTypeOK
<1>7. FramesOK'
  <2>1. Payloads(Now, frames'[n]) /\ Now' = Now /\ WithEvidence' = WithEvidence
    BY <1>1, <1>3, <1>5, SameLine
  <2>2. CASE WithEvidence
    <3>1. n = 2 /\ frames[1] = <<>>
      BY <1>1, <2>2 DEF SInv, FramesOK
    <3>2. Len(frames') = 2
      BY <1>3, <3>1
    <3>3. 1 \in 1 .. n /\ 1 # n
      BY <3>1
    <3>4. frames'[1] = <<>>
      BY <1>3, <3>1, <3>3, Zenon
    <3>5. Payloads(Now', frames'[2])
      BY <2>1, <3>1, Zenon
    <3>6. QED
      BY <1>1, <2>1, <2>2, <3>2, <3>4, <3>5 DEF SInv, FramesOK
  <2>3. CASE ~WithEvidence
    <3>1. n = 1
      BY <1>1, <2>3 DEF SInv, FramesOK
    <3>2. Len(frames') = 1 /\ Payloads(Now', frames'[1])
      BY <1>3, <2>1, <3>1
    <3>3. QED
      BY <1>1, <2>1, <2>3, <3>2 DEF SInv, FramesOK
  <2>4. QED
    BY <2>2, <2>3
<1>8. QED
  BY <1>1, <1>3, <1>6, <1>7, WorkerKeeps

LEMMA ReturnsStep ==
  ASSUME SInv, NEW result \in [ok : BOOLEAN, code : 0 .. 2], ~result.ok => result.code = 1, Returns(result)
  PROVE  SInv'
<1>1. /\ UNCHANGED <<lines, spc, frames, reply, responses, printed, captured, output>>
      /\ wpc = "run" /\ outcome' = result
      /\ wpc' = IF WithEvidence THEN "unframe" ELSE "end"
  BY DEF Returns, WithEvidence
<1>2. McpTypeOK'
  BY <1>1 DEF SInv, McpTypeOK
<1>3. ~WithEvidence => Ended(Now, WithEvidence, outcome.ok, frames[1])'
  BY <1>1, SameLine DEF SInv, FramesOK, Ended
<1>4. FramesOK'
  BY <1>1, <1>3, SameLine DEF SInv, FramesOK
<1>5. QED
  BY <1>1, <1>2, <1>4, WorkerKeeps

LEMMA UnframeStep ==
  ASSUME SInv, Unframe
  PROVE  SInv'
<1>1. /\ UNCHANGED <<lines, spc, outcome, reply, responses, printed, output>>
      /\ wpc = "unframe" /\ wpc' = IF outcome.ok THEN "finish" ELSE "end"
      /\ captured' = EndCapture(frames).docs /\ frames' = EndCapture(frames).rest
  BY DEF Unframe
<1>2. /\ WithEvidence /\ Len(frames) = 2 /\ frames[1] = <<>>
      /\ frames \in Seq(Seq(Docs)) /\ frames # <<>>
  <2>1. FramesOK /\ frames \in Seq(Seq(Docs))
    BY DEF SInv, McpTypeOK
  <2>2. WithEvidence /\ Len(frames) = 2 /\ frames[1] = <<>>
    BY <1>1, <2>1 DEF FramesOK
  <2>3. QED
    BY <2>1, <2>2
<1>3. captured' \in Seq(Docs) /\ frames' \in Seq(Seq(Docs)) /\ Len(frames') = 1 /\ frames'[1] = <<>>
  <2>1. /\ captured' \in Seq(Docs) /\ frames' \in Seq(Seq(Docs)) /\ Len(frames') = Len(frames) - 1
        /\ \A n \in 1 .. Len(frames) - 1 : frames'[n] = frames[n]
    BY <1>1, <1>2, EndCaptureFact
  <2>2. QED
    BY <1>2, <2>1
<1>4. frames' = << <<>> >>
  BY <1>3
<1>5. McpTypeOK'
  BY <1>1, <1>3 DEF SInv, McpTypeOK
<1>6. ~outcome.ok => Ended(Now, WithEvidence, outcome.ok, frames[1])'
  BY <1>1, <1>2, <1>3, SameLine DEF Ended
<1>7. outcome.ok \in BOOLEAN
  BY DEF SInv, McpTypeOK
<1>8. FramesOK'
  BY <1>1, <1>2, <1>3, <1>4, <1>6, <1>7, SameLine DEF SInv, FramesOK
<1>9. QED
  BY <1>1, <1>5, <1>8, WorkerKeeps

LEMMA FinishStep ==
  ASSUME SInv, FinishRecord \/ FinishFails
  PROVE  SInv'
<1>1. /\ UNCHANGED <<lines, spc, reply, responses, captured, output>>
      /\ wpc = "finish" /\ wpc' = "end"
  BY DEF FinishRecord, FinishFails
<1>2. WithEvidence /\ frames = << <<>> >> /\ outcome.ok /\ lines # <<>> /\ McpTypeOK /\ frames # <<>>
  BY <1>1 DEF SInv, FramesOK, SessionOK
<1>3. CASE FinishRecord
  <2>1. Emit(Doc("record")) /\ outcome' = outcome
    BY <1>3 DEF FinishRecord
  <2>2. /\ frames' \in Seq(Seq(Docs)) /\ Len(frames') = 1 /\ printed' = printed
        /\ frames'[1] = Append(<<>>, Doc("record")) /\ Doc("record") \in Docs
    BY <1>2, <2>1, EmitFact
  <2>3. frames'[1] = <<Doc("record")>>
    BY <2>2
  <2>4. Ended(Now, WithEvidence, outcome.ok, frames[1])'
    BY <1>1, <1>2, <2>1, <2>3, SameLine DEF Ended, Doc
  <2>5. McpTypeOK'
    BY <1>1, <2>1, <2>2 DEF SInv, McpTypeOK
  <2>6. FramesOK'
    BY <1>1, <2>1, <2>2, <2>4 DEF SInv, FramesOK
  <2>7. QED
    BY <1>1, <2>2, <2>5, <2>6, WorkerKeeps
<1>4. CASE FinishFails
  <2>1. outcome' = [ok |-> FALSE, code |-> 1] /\ frames' = frames /\ printed' = printed
    BY <1>4 DEF FinishFails, Failed
  <2>2. Ended(Now, WithEvidence, outcome.ok, <<>>)'
    BY <1>1, <1>2, <2>1, SameLine DEF Ended
  <2>3. McpTypeOK'
    BY <1>1, <2>1 DEF SInv, McpTypeOK
  <2>4. Len(frames') = 1 /\ frames'[1] = <<>>
    BY <1>2, <2>1
  <2>5. FramesOK'
    BY <1>1, <2>1, <2>2, <2>4 DEF FramesOK
  <2>6. QED
    BY <1>1, <2>1, <2>3, <2>5, WorkerKeeps
<1>5. QED
  BY <1>3, <1>4

LEMMA EndStep ==
  ASSUME SInv, End
  PROVE  SInv'
<1>1. /\ UNCHANGED <<lines, spc, reply, responses, captured, outcome, printed>>
      /\ wpc = "end" /\ wpc' = "exited"
      /\ output' = EndCapture(frames).docs /\ frames' = EndCapture(frames).rest
  BY DEF End
<1>2. /\ Len(frames) = 1 /\ Ended(Now, WithEvidence, outcome.ok, frames[1])
      /\ frames \in Seq(Seq(Docs)) /\ frames # <<>>
  <2>1. FramesOK /\ frames \in Seq(Seq(Docs))
    BY DEF SInv, McpTypeOK
  <2>2. Len(frames) = 1 /\ Ended(Now, WithEvidence, outcome.ok, frames[1])
    BY <1>1, <2>1 DEF FramesOK
  <2>3. QED
    BY <2>1, <2>2
<1>3. output' = frames[1] /\ output' \in Seq(Docs) /\ frames' \in Seq(Seq(Docs))
  BY <1>1, <1>2, EndCaptureFact
<1>4. Ended(Now, WithEvidence, outcome.ok, output)'
  BY <1>1, <1>2, <1>3, SameLine DEF Ended, Doc
<1>5. McpTypeOK' /\ FramesOK'
  BY <1>1, <1>3, <1>4 DEF SInv, McpTypeOK, FramesOK
<1>6. QED
  BY <1>1, <1>5, WorkerKeeps

LEMMA PanicStep ==
  ASSUME SInv, Panic
  PROVE  SInv'
<1>1. /\ UNCHANGED <<lines, spc, frames, captured, outcome, output, reply, responses, printed>>
      /\ wpc # "none" /\ wpc' = "panicked"
  BY DEF Panic
<1>2. McpTypeOK' /\ FramesOK'
  BY <1>1 DEF SInv, McpTypeOK, FramesOK
<1>3. QED
  BY <1>1, <1>2, WorkerKeeps

---------------------------------------------------------------------------
\* invoke() makes its response of the documents its worker ended with.
LEMMA JoinStep ==
  ASSUME SInv, Join
  PROVE  SInv'
<1>1. /\ spc = "join" /\ wpc \in {"exited", "panicked"} /\ spc' = "write" /\ wpc' = "none"
      /\ reply' = Answer /\ IsTool(Message)
      /\ UNCHANGED <<lines, frames, captured, outcome, output, responses, printed>>
  BY DEF Join, SInv, SessionOK
<1>2. CASE wpc = "panicked" \/ (wpc = "exited" /\ ~outcome.ok /\ output = <<>>)
  <2>1. Append(<<>>, Doc("failure")) = <<Doc("failure")>>
    OBVIOUS
  <2>2. Answer = ToolResult(1, <<Doc("failure")>>)
    BY <1>2, <2>1 DEF Answer
  <2>3. QED
    BY <1>1, <2>2, FailureReply, ReplyGiven
<1>3. CASE wpc = "exited" /\ ~(~outcome.ok /\ output = <<>>)
  <2> DEFINE docs == IF outcome.ok THEN output ELSE Append(output, Doc("failure"))
             err == ~outcome.ok \/ outcome.code = 1
  <2>1. /\ Now \in Nat /\ Now >= 1 /\ Message.id \in {0} \cup {msg.id : msg \in Messages}
        /\ Message.kind = "call" /\ Message = lines[Now] /\ outcome.ok \in BOOLEAN
        /\ output \in Seq(Docs) /\ Ended(Now, WithEvidence, outcome.ok, output)
    BY <1>1, <1>3, MessageShape DEF SInv, SessionOK, FramesOK, IsTool, Message, McpTypeOK
  <2>2. Doc("failure") \in Docs /\ Doc("failure").from = Now /\ Doc("failure").kind = "failure"
    BY <2>1 DEF Doc, Docs
  <2>3. docs \in Seq(Docs)
    BY <2>1, <2>2, Appended
  <2>4. \A k \in 1 .. Len(docs) :
          docs[k].from = Now /\ (docs[k].kind = "failure" => ~outcome.ok /\ k = Len(docs))
    <3>1. CASE outcome.ok /\ WithEvidence
      <4> DEFINE rec == [from |-> Now, kind |-> "record"]
      <4>1. docs = <<rec>> /\ rec.from = Now /\ rec.kind = "record"
        BY <2>1, <3>1 DEF Ended
      <4> HIDE DEF docs, rec
      <4>2. Len(docs) = 1 /\ docs[1] = rec
        BY <4>1
      <4>3. QED
        BY <4>1, <4>2
    <3>2. CASE outcome.ok /\ ~WithEvidence
      BY <2>1, <3>2 DEF Ended, Payloads
    <3>3. CASE ~outcome.ok
      <4>1. ~WithEvidence /\ Payloads(Now, output)
        BY <1>3, <2>1, <3>3 DEF Ended
      <4>2. /\ Len(output) \in Nat /\ Len(docs) = Len(output) + 1
            /\ \A i \in 1 .. Len(output) : docs[i] = output[i]
            /\ docs[Len(output) + 1] = Doc("failure")
        BY <2>1, <2>2, <3>3, Appended
      <4>3. QED
        BY <2>2, <3>3, <4>1, <4>2 DEF Payloads
    <3>4. QED
      BY <2>1, <3>1, <3>2, <3>3
  <2>5. WithEvidence => Len(docs) = 1 /\ docs[1].kind \in {"record", "failure"}
    <3> DEFINE rec == [from |-> Now, kind |-> "record"]
    <3>1. (WithEvidence => docs = <<rec>>) /\ rec.kind = "record"
      BY <1>3, <2>1 DEF Ended
    <3> HIDE DEF docs, rec
    <3>2. WithEvidence => Len(docs) = 1 /\ docs[1] = rec
      BY <3>1
    <3>3. QED
      BY <3>1, <3>2
  <2> HIDE DEF docs
  <2> DEFINE r == [line |-> Now, id |-> Message.id, result |-> "tool", error |-> err, docs |-> docs]
  <2>6. reply' = r
    BY <1>1, <1>3, <2>1 DEF Answer, ToolResult, docs
  <2>7. r \in Replies
    BY <2>1, <2>3 DEF Replies
  <2>8. r.line = Now /\ r.id = Message.id /\ r.error = err /\ r.docs = docs
    OBVIOUS
  <2> HIDE DEF r
  <2>9. Attributed(r)
    BY <2>1, <2>8 DEF Attributed, NeedsAnswer
  <2>10. Faithful(r)
    BY <2>1, <2>4, <2>5, <2>8 DEF Faithful, WithEvidence
  <2>11. QED
    BY <1>1, <2>6, <2>7, <2>8, <2>9, <2>10, ReplyGiven
<1>4. QED
  BY <1>1, <1>2, <1>3

\* The line being handled is the one the response completes.
LEMMA WriteStep ==
  ASSUME SInv, Write
  PROVE  SInv'
<1>1. /\ spc = "write" /\ spc' = "read" /\ responses' = Append(responses, reply) /\ wpc = "none"
      /\ UNCHANGED <<lines, wpc, frames, captured, outcome, output, reply, printed>>
  BY DEF Write, SInv, SessionOK
<1> DEFINE n == Len(responses)
<1>2. /\ responses' \in Seq(Replies) /\ n \in Nat /\ Len(responses') = n + 1
      /\ \A i \in 1 .. n : responses'[i] = responses[i]
      /\ responses'[n + 1] = reply
  BY <1>1, Appended DEF SInv, McpTypeOK
<1>3. Attributed(reply) /\ Faithful(reply) /\ reply.line = Now /\ Now \in Nat /\ Now >= 1 /\ Now' = Now
  BY <1>1, MessageShape DEF SInv, ResponsesOK, SessionOK, Now
<1>4. McpTypeOK' /\ SessionOK' /\ FramesOK'
  BY <1>1, <1>2 DEF SInv, McpTypeOK, SessionOK, FramesOK
<1>5. \A n1 \in 1 .. Now : n1 \in Answers <=> n1 <= Now - 1 /\ NeedsAnswer(lines[n1])
  BY <1>1 DEF SInv, ResponsesOK, Handled
<1>6. \A i \in 1 .. n : responses[i].line \in 1 .. Now /\ responses[i].line \in Answers
  BY DEF SInv, ResponsesOK, Attributed, Answers
<1>7. \A i \in 1 .. n : responses[i].line < Now
  BY <1>3, <1>5, <1>6
<1> HIDE DEF n
<1>8. \A i \in 1 .. n + 1 : Attributed(responses'[i]) /\ Faithful(responses'[i])
  BY <1>2, <1>3 DEF SInv, ResponsesOK, n
<1>9. \A i, j \in 1 .. n + 1 : i < j => responses'[i].line < responses'[j].line
  BY <1>2, <1>3, <1>7 DEF SInv, ResponsesOK, n
<1>10. Answers' = Answers \cup {Now}
  <2>1. Answers' = {responses'[i].line : i \in 1 .. n + 1}
    BY <1>2 DEF Answers
  <2>2. Answers = {responses[i].line : i \in 1 .. n}
    BY DEF Answers, n
  <2>3. QED
    BY <1>2, <1>3, <2>1, <2>2
<1>11. \A k \in 1 .. Now : k \in Answers' <=> k <= Now /\ NeedsAnswer(lines[k])
  BY <1>3, <1>5, <1>10 DEF Attributed
<1>12. ResponsesOK'
  BY <1>1, <1>2, <1>3, <1>8, <1>9, <1>11 DEF ResponsesOK, Attributed, Faithful, Handled, NeedsAnswer
<1>13. QED
  BY <1>4, <1>12 DEF SInv

LEMMA WriteFailsStep ==
  ASSUME SInv, WriteFails
  PROVE  SInv'
<1>1. /\ spc = "write" /\ spc' = "failed" /\ wpc = "none"
      /\ UNCHANGED <<lines, wpc, frames, captured, outcome, output, reply, responses, printed>>
  BY DEF WriteFails, SInv, SessionOK
<1>2. McpTypeOK' /\ SessionOK' /\ FramesOK'
  BY <1>1 DEF SInv, McpTypeOK, SessionOK, FramesOK
<1>3. ResponsesOK'
  BY <1>1 DEF SInv, ResponsesOK, Attributed, Faithful, NeedsAnswer, Now
<1>4. QED
  BY <1>2, <1>3 DEF SInv

\* No step of the session breaks the invariant.
LEMMA ServerInvariance == SSpec => []SInv
<1>1. SInit => SInv
  BY DEF SInit, SInv, McpTypeOK, SessionOK, FramesOK, ResponsesOK, Answers, Handled, Now,
         NoReply, Ok, Replies
<1>2. SInv /\ [SNext]_svars => SInv'
  <2> SUFFICES ASSUME SInv, [SNext]_svars PROVE SInv'
    OBVIOUS
  <2>1. CASE \E msg \in Messages : Read(msg)
    BY <2>1, ReadStep
  <2>2. CASE Close
    BY <2>2, CloseStep
  <2>3. CASE ServerStep
    BY <2>3, HandleStep, RefuseStep, SpawnStep, JoinStep, WriteStep, WriteFailsStep DEF ServerStep
  <2>4. CASE WorkerStep
    <3>1. CASE \E code \in 0 .. 2 : Returns(Ok(code))
      BY <3>1, ReturnsStep DEF Ok
    <3>2. CASE Returns(Failed)
      <4>1. Failed \in [ok : BOOLEAN, code : 0 .. 2] /\ Failed.code = 1
        BY DEF Failed
      <4>2. QED
        BY <3>2, <4>1, ReturnsStep
    <3>3. CASE ~(\E code \in 0 .. 2 : Returns(Ok(code))) /\ ~Returns(Failed)
      BY <2>4, <3>3, BeginSelectStep, PayloadStep, UnframeStep, FinishStep, EndStep, PanicStep DEF WorkerStep
    <3>4. QED
      BY <3>1, <3>2, <3>3
  <2>5. CASE UNCHANGED svars
    <3>1. UNCHANGED <<lines, spc, wpc, frames, captured, outcome, output, reply, responses, printed>>
      BY <2>5 DEF svars
    <3>2. McpTypeOK' /\ SessionOK' /\ FramesOK'
      BY <3>1, SameLine DEF SInv, McpTypeOK, SessionOK, FramesOK, Message
    <3>3. QED
      BY <3>1, <3>2, ResponsesKept DEF SInv
  <2>6. QED
    BY <2>1, <2>2, <2>3, <2>4, <2>5 DEF SNext
<1>3. QED
  BY <1>1, <1>2, PTL DEF SSpec

\* serve() answers every message that needs it exactly once, in order and with
\* its own id, and no other, for any messages and sessions of any length.
THEOREM ServerAnswersOnce == SSpec => []OneAnswerEach
<1>1. SInv => OneAnswerEach
  <2> SUFFICES ASSUME SInv, spc # "failed"
               PROVE  /\ Answers = Due(Handled)
                      /\ \A i, j \in 1 .. Len(responses) : i < j => responses[i].line < responses[j].line
                      /\ \A i \in 1 .. Len(responses) : Attributed(responses[i])
    <3>1. SInv => DOMAIN responses = 1 .. Len(responses)
      BY DEF SInv, McpTypeOK
    <3>2. QED
      BY <3>1 DEF OneAnswerEach, Answers, Handled, Attributed
  <2>1. Now \in Nat /\ Handled \in Int /\ Handled <= Now
    BY DEF SInv, McpTypeOK, Handled, Now
  <2>2. \A n \in Answers : n \in 1 .. Now
    BY DEF SInv, ResponsesOK, Attributed, Answers
  <2>3. \A n \in 1 .. Now : n \in Answers <=> n <= Handled /\ NeedsAnswer(lines[n])
    BY DEF SInv, ResponsesOK
  <2>4. Answers = Due(Handled)
    BY <2>1, <2>2, <2>3 DEF Due, NeedsAnswer
  <2>5. QED
    BY <2>4 DEF SInv, ResponsesOK
<1>2. QED
  BY <1>1, ServerInvariance, PTL

\* What a worker emits reaches the client in the response to its own request
\* and nowhere else, for any messages, sessions and operations.
THEOREM ServerOwnDocuments == SSpec => []OwnDocuments
<1>1. SInv => OwnDocuments
  <2> SUFFICES ASSUME SInv, NEW i \in DOMAIN responses
               PROVE  LET msg == lines[responses[i].line]
                          docs == responses[i].docs
                          kinds == [k \in DOMAIN docs |-> docs[k].kind]
                      IN  /\ \A k \in DOMAIN docs : docs[k].from = responses[i].line
                          /\ msg.kind = "call" /\ msg.tool = "evidence" =>
                                kinds \in {<<"record">>, <<"failure">>}
                          /\ "failure" \in ToSet(kinds) => /\ responses[i].error
                                                           /\ Last(kinds) = "failure"
    BY Zenon DEF OwnDocuments, SInv, SessionOK
  <2> DEFINE docs == responses[i].docs
             kinds == [k \in DOMAIN docs |-> docs[k].kind]
  <2>1. docs \in Seq(Docs) /\ Faithful(responses[i])
    <3>1. i \in 1 .. Len(responses) /\ responses[i] \in Replies
      BY DEF SInv, McpTypeOK
    <3>2. QED
      BY <3>1 DEF SInv, ResponsesOK, Replies
  <2> HIDE DEF docs
  <2>2. /\ DOMAIN docs = 1 .. Len(docs) /\ Len(docs) \in Nat
        /\ \A k \in 1 .. Len(docs) : docs[k].kind \in {"payload", "record", "failure"}
    <3>1. DOMAIN docs = 1 .. Len(docs) /\ Len(docs) \in Nat /\ \A k \in 1 .. Len(docs) : docs[k] \in Docs
      BY <2>1
    <3>2. QED
      BY <3>1 DEF Docs
  <2>3. /\ kinds \in Seq({"payload", "record", "failure"}) /\ Len(kinds) = Len(docs)
        /\ \A k \in 1 .. Len(docs) : kinds[k] = docs[k].kind
    BY <2>2
  <2> HIDE DEF kinds
  <2>4. \A k \in DOMAIN docs : docs[k].from = responses[i].line
    BY <2>1, <2>2 DEF Faithful, docs
  <2>5. ASSUME lines[responses[i].line].kind = "call", lines[responses[i].line].tool = "evidence"
        PROVE  kinds \in {<<"record">>, <<"failure">>}
    <3>1. Len(kinds) = 1 /\ kinds[1] \in {"record", "failure"}
      BY <2>1, <2>2, <2>3, <2>5 DEF Faithful, docs
    <3>2. QED
      BY <2>3, <3>1
  <2>6. ASSUME "failure" \in ToSet(kinds)
        PROVE  responses[i].error /\ Last(kinds) = "failure"
    <3>1. PICK k \in 1 .. Len(docs) : kinds[k] = "failure"
      BY <2>3, <2>6 DEF ToSet
    <3>2. responses[i].error /\ k = Len(docs)
      BY <2>1, <2>2, <2>3, <3>1 DEF Faithful, docs
    <3>3. QED
      BY <2>3, <3>1, <3>2 DEF Last
  <2>7. QED
    BY <2>4, <2>5, <2>6 DEF docs, kinds
<1>2. QED
  BY <1>1, ServerInvariance, PTL
=============================================================================
