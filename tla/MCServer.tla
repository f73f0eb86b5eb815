------------------------------ MODULE MCServer ------------------------------
(* The MCP server and the in-process cache, one or the other active: they   *)
(* share no state (a session has one worker at a time, the cache serves the *)
(* workers of one whole-binary job).                                        *)
EXTENDS Mcp, BinaryCache

Line(kind, id, tool) == [kind |-> kind, id |-> id, tool |-> tool]
Session ==
    {Line("blank", 0, "no"), Line("garbage", 0, "no"), Line("bad_id", 9, "no"),
     Line("notification", 0, "no"), Line("response", 8, "no"), Line("no_method", 1, "no"),
     Line("ping", 2, "no"), Line("call", 3, "unknown"), Line("call", 4, "bad_arguments"),
     Line("call", 5, "plain"), Line("call", 6, "evidence")}

CIdle ==
    /\ version = [p \in Paths |-> MaxVersions] /\ stamp = version /\ since = version
    /\ slot = NoEntry /\ holder = Nobody
    /\ worker = [t \in Threads |-> Fresh] /\ gets = [t \in Threads |-> MaxGets]

SIdle ==
    /\ lines = <<>> /\ spc = "closed" /\ wpc = "none" /\ frames = <<>> /\ captured = <<>>
    /\ outcome = Ok(0) /\ emits = 0 /\ output = <<>> /\ reply = NoReply /\ responses = <<>>
    /\ printed = <<>>

Init == (SInit /\ CIdle) \/ (CInit /\ SIdle)
Next == (SNext /\ UNCHANGED cvars) \/ (CNext /\ UNCHANGED svars)
Spec == /\ Init /\ [][Next]_<<svars, cvars>>
        /\ WF_svars(ServerStep) /\ WF_svars(WorkerStep) /\ CFairness

\* Nobody is left waiting: a client for the answer to a call whose worker
\* panicked or could not start, a thread for the cache's mutex after another
\* one unwound while it computed.
RequestsEnd == Answered /\ EveryGetEnds
=============================================================================
