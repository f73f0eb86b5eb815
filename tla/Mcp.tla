--------------------------------- MODULE Mcp ---------------------------------
(***************************************************************************)
(* The MCP server (src/rsleigh-cli/src/cli/agent/mcp.rs) over the agent    *)
(* contract (invoke and run_selected of agent.rs) and the capture frames   *)
(* of evidence.rs.  serve() reads one JSON-RPC message per line, answers   *)
(* requests in order and nothing else; a tool call runs on a fresh worker  *)
(* thread whose emitted documents are captured instead of printed, and an  *)
(* operation run with --evidence captures its payload in a nested frame to *)
(* wrap it in a record.                                                    *)
(*                                                                         *)
(* A message is [kind, id, tool]; a document is [from, kind]: the number   *)
(* of the message whose worker emitted it and "payload", "record" or       *)
(* "failure".                                                              *)
(***************************************************************************)
EXTENDS Naturals, Sequences, SequencesExt

CONSTANTS
    Messages,  \* the messages a client may send
    MaxLines,  \* bound of the model: lines of one session
    MaxEmits   \* bound of the model: documents one operation emits

ASSUME McpAssumption == MaxLines \in Nat /\ MaxEmits \in Nat

VARIABLES
    lines,      \* the messages read so far; the last is being handled
    spc,        \* serve(): "read", "handle", "join", "write", "closed", "failed"
    wpc,        \* the worker: "none", "begin", "select", "run", "unframe",
                \* "finish", "end", "exited", "panicked"
    frames,     \* the worker thread's CAPTURE
    captured,   \* the payload end_capture() returned to run_selected
    outcome,    \* what run_selected returns: [ok, code]
    emits,      \* documents the running operation has emitted
    output,     \* the documents of invoke()
    reply,      \* the response being built, with the line it answers
    responses,  \* what the client has been sent
    printed     \* documents printed to stdout between the responses

svars == <<lines, spc, wpc, frames, captured, outcome, emits, output, reply, responses, printed>>

Now == Len(lines)
Message == lines[Now]
Doc(kind) == [from |-> Now, kind |-> kind]
Failed == [ok |-> FALSE, code |-> 1]
Ok(code) == [ok |-> TRUE, code |-> code]
NoReply == [line |-> 0, id |-> 0, result |-> "none", error |-> FALSE, docs |-> <<>>]

SInit ==
    /\ lines = <<>> /\ spc = "read" /\ wpc = "none"
    /\ frames = <<>> /\ captured = <<>> /\ outcome = Ok(0) /\ emits = 0
    /\ output = <<>> /\ reply = NoReply /\ responses = <<>> /\ printed = <<>>

\* read_until: a line, or the end of the input.  A blank line is skipped.
Read(msg) ==
    /\ spc = "read" /\ Now < MaxLines
    /\ lines' = Append(lines, msg)
    /\ spc' = IF msg.kind = "blank" THEN "read" ELSE "handle"
    /\ UNCHANGED <<wpc, frames, captured, outcome, emits, output, reply, responses, printed>>

Close ==
    /\ spc = "read"
    /\ spc' \in {"closed", "failed"}    \* end of input, or stdin cannot be read
    /\ UNCHANGED <<lines, wpc, frames, captured, outcome, emits, output, reply, responses, printed>>

\* Variant of Silent: the client's responses are answered like requests.
SilentButResponses(msg) == msg.kind \in {"blank", "notification"}

\* Notifications and the client's own responses get no answer.
Silent(msg) == msg.kind \in {"blank", "notification", "response"}

\* A message that cannot be attributed is answered with a null id.
IdOf(msg) == IF msg.kind \in {"garbage", "not_object", "bad_id"} THEN 0 ELSE msg.id

\* A call of a known tool; any other call is a protocol error.
IsTool(msg) == msg.kind = "call" /\ msg.tool \in {"bad_arguments", "plain", "evidence"}

\* handle() for everything but a tool call: malformed messages, the protocol's
\* own methods (initialize, ping, tools/list) and unknown ones.
HandleNow ==
    /\ spc = "handle" /\ ~IsTool(Message)
    /\ IF Silent(Message)
       THEN spc' = "read" /\ UNCHANGED reply
       ELSE /\ spc' = "write"
            /\ reply' = [NoReply EXCEPT !.line = Now, !.id = IdOf(Message),
                             !.result = IF Message.kind = "ping" THEN "plain" ELSE "rpc_error"]
    /\ UNCHANGED <<lines, wpc, frames, captured, outcome, emits, output, responses, printed>>

ToolResult(code, docs) ==
    [line |-> Now, id |-> Message.id, result |-> "tool", error |-> code = 1, docs |-> docs]

\* argv() refuses the arguments: a failed tool result without a worker.
RefuseArguments ==
    /\ spc = "handle" /\ IsTool(Message) /\ Message.tool = "bad_arguments"
    /\ reply' = ToolResult(1, <<Doc("failure")>>)
    /\ spc' = "write"
    /\ UNCHANGED <<lines, wpc, frames, captured, outcome, emits, output, responses, printed>>

\* invoke(): a worker thread, with a CAPTURE of its own, or none.
Spawn ==
    /\ spc = "handle" /\ IsTool(Message) /\ Message.tool # "bad_arguments"
    /\ spc' = "join" /\ wpc' = "begin"
    /\ frames' = <<>> /\ captured' = <<>> /\ output' = <<>> /\ emits' = 0
    /\ UNCHANGED <<lines, outcome, reply, responses, printed>>

SpawnFails ==
    /\ spc = "handle" /\ IsTool(Message) /\ Message.tool # "bad_arguments"
    /\ reply' = ToolResult(1, <<Doc("failure")>>)
    /\ spc' = "write"
    /\ UNCHANGED <<lines, wpc, frames, captured, outcome, emits, output, responses, printed>>

-----------------------------------------------------------------------------
(* The worker thread.                                                      *)

BeginCapture(stack) == Append(stack, <<>>)

\* end_capture(): the innermost frame, or nothing.
EndCapture(stack) ==
    IF stack = <<>> THEN [docs |-> <<>>, rest |-> <<>>]
    ELSE [docs |-> Last(stack), rest |-> Front(stack)]

\* emit(): into the innermost frame, or to stdout.
Emit(doc) ==
    IF frames = <<>> THEN printed' = Append(printed, doc) /\ UNCHANGED frames
    ELSE frames' = [frames EXCEPT ![Len(frames)] = Append(@, doc)] /\ UNCHANGED printed

Begin ==
    /\ wpc = "begin"
    /\ frames' = BeginCapture(frames)
    /\ wpc' = "select"
    /\ UNCHANGED <<lines, spc, captured, outcome, emits, output, reply, responses, printed>>

\* run_selected up to the operation: validate, read the binary, preflight.
SelectFails ==
    /\ wpc = "select"
    /\ outcome' = Failed /\ wpc' = "end"
    /\ UNCHANGED <<lines, spc, frames, captured, emits, output, reply, responses, printed>>

Select ==
    /\ wpc = "select"
    /\ frames' = IF Message.tool = "evidence" THEN BeginCapture(frames) ELSE frames
    /\ wpc' = "run"
    /\ UNCHANGED <<lines, spc, captured, outcome, emits, output, reply, responses, printed>>

\* run_operation emits a payload.
Payload ==
    /\ wpc = "run" /\ emits < MaxEmits
    /\ Emit(Doc("payload"))
    /\ emits' = emits + 1
    /\ UNCHANGED <<lines, spc, wpc, captured, outcome, output, reply, responses>>

\* run_operation returns a code or an error.
Returns(result) ==
    /\ wpc = "run"
    /\ outcome' = result
    /\ wpc' = IF Message.tool = "evidence" THEN "unframe" ELSE "end"
    /\ UNCHANGED <<lines, spc, frames, captured, emits, output, reply, responses, printed>>

\* Variant of Unframe: an error leaves before the frame is closed.
UnframeOnSuccess ==
    /\ wpc = "unframe"
    /\ captured' = IF outcome.ok THEN EndCapture(frames).docs ELSE <<>>
    /\ frames' = IF outcome.ok THEN EndCapture(frames).rest ELSE frames
    /\ wpc' = IF outcome.ok THEN "finish" ELSE "end"
    /\ UNCHANGED <<lines, spc, outcome, emits, output, reply, responses, printed>>

\* The nested frame is closed whether or not the operation succeeded.
Unframe ==
    /\ wpc = "unframe"
    /\ captured' = EndCapture(frames).docs
    /\ frames' = EndCapture(frames).rest
    /\ wpc' = IF outcome.ok THEN "finish" ELSE "end"
    /\ UNCHANGED <<lines, spc, outcome, emits, output, reply, responses, printed>>

\* evidence::finish: exactly one payload becomes a record.
FinishRecord ==
    /\ wpc = "finish" /\ Len(captured) = 1
    /\ Emit(Doc("record"))
    /\ wpc' = "end"
    /\ UNCHANGED <<lines, spc, captured, outcome, emits, output, reply, responses>>

\* It refuses any other number of payloads, or the record cannot be stored.
FinishFails ==
    /\ wpc = "finish"
    /\ outcome' = Failed /\ wpc' = "end"
    /\ UNCHANGED <<lines, spc, frames, captured, emits, output, reply, responses, printed>>

End ==
    /\ wpc = "end"
    /\ output' = EndCapture(frames).docs
    /\ frames' = EndCapture(frames).rest
    /\ wpc' = "exited"
    /\ UNCHANGED <<lines, spc, captured, outcome, emits, reply, responses, printed>>

\* A panic anywhere unwinds the worker; its captured documents die with it.
Panic ==
    /\ wpc \in {"select", "run", "finish"}
    /\ wpc' = "panicked"
    /\ UNCHANGED <<lines, spc, frames, captured, outcome, emits, output, reply, responses, printed>>

-----------------------------------------------------------------------------
\* The rest of invoke(): the output of a worker that ended, a failure envelope
\* behind it when it failed, and nothing else when it panicked.
Answer ==
    IF wpc = "exited"
    THEN IF outcome.ok THEN ToolResult(outcome.code, output)
         ELSE ToolResult(1, Append(output, Doc("failure")))
    ELSE ToolResult(1, <<Doc("failure")>>)

Join ==
    /\ spc = "join" /\ wpc \in {"exited", "panicked"}
    /\ reply' = Answer
    /\ spc' = "write" /\ wpc' = "none"
    /\ UNCHANGED <<lines, frames, captured, outcome, emits, output, responses, printed>>

Write ==
    /\ spc = "write"
    /\ responses' = Append(responses, reply)
    /\ spc' = "read"
    /\ UNCHANGED <<lines, wpc, frames, captured, outcome, emits, output, reply, printed>>

WriteFails ==
    /\ spc = "write"
    /\ spc' = "failed"
    /\ UNCHANGED <<lines, wpc, frames, captured, outcome, emits, output, reply, responses, printed>>

ServerStep == HandleNow \/ RefuseArguments \/ Spawn \/ SpawnFails \/ Join \/ Write \/ WriteFails
WorkerStep ==
    \/ Begin \/ Select \/ SelectFails \/ Payload \/ Unframe \/ FinishRecord \/ FinishFails
    \/ End \/ Panic
    \/ \E code \in 0 .. 2 : Returns(Ok(code))
    \/ Returns(Failed)

SNext == (\E msg \in Messages : Read(msg)) \/ Close \/ ServerStep \/ WorkerStep

SSpec == SInit /\ [][SNext]_svars /\ WF_svars(ServerStep) /\ WF_svars(WorkerStep)

-----------------------------------------------------------------------------
\* The lines up to k that an answer is due to.
Due(k) == {i \in 1 .. k : lines[i].kind \notin {"blank", "notification", "response"}}

\* Every message that needs an answer gets exactly one, in the order of the
\* messages and with its own id (none when it has no usable one);
\* notifications, blank lines and the client's responses get none.
OneAnswerEach ==
    spc # "failed" =>
        /\ {responses[i].line : i \in DOMAIN responses} =
              Due(IF spc \in {"handle", "join", "write"} THEN Now - 1 ELSE Now)
        /\ \A i, j \in DOMAIN responses : i < j => responses[i].line < responses[j].line
        /\ \A i \in DOMAIN responses :
              LET msg == lines[responses[i].line] IN
              responses[i].id = IF msg.kind \in {"garbage", "not_object", "bad_id"}
                                THEN 0 ELSE msg.id

\* What a worker emits goes into the response to its own request and nowhere
\* else: never between the responses on stdout, never into a later response
\* after a panic or an error left a frame open.  A call with evidence answers
\* with its record alone or with a failure alone, never with the payload it
\* captured; and a result that carries a failure envelope ends with it and is
\* marked as an error.
OwnDocuments ==
    /\ printed = <<>>
    /\ \A i \in DOMAIN responses :
        LET msg == lines[responses[i].line]
            docs == responses[i].docs
            kinds == [k \in DOMAIN docs |-> docs[k].kind]
        IN  /\ \A k \in DOMAIN docs : docs[k].from = responses[i].line
            /\ msg.kind = "call" /\ msg.tool = "evidence" =>
                  kinds \in {<<"record">>, <<"failure">>}
            /\ "failure" \in ToSet(kinds) => /\ responses[i].error
                                             /\ Last(kinds) = "failure"

\* A request is answered, unless the output is lost: a worker that panics or
\* cannot be started does not leave the client waiting.
Answered == (spc = "handle") ~> (spc \in {"read", "failed"})
=============================================================================
