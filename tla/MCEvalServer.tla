---------------------------- MODULE MCEvalServer ----------------------------
(***************************************************************************)
(* Instances of EvalServer.                                                 *)
(***************************************************************************)
EXTENDS EvalServer

CONSTANTS s1, s2

\* The second server is run by root, which may remove the file of the first.
RootIsSecond == {<<s1, s1>>, <<s2, s2>>, <<s2, s1>>}
OwnOnly == {<<s1, s1>>}

Ask(cmd) == [cmd |-> cmd, fails |-> "nothing"]
Evaluation(f) == [cmd |-> "evaluate", fails |-> f]

AllRequests ==
    {Ask(cmd) : cmd \in {"ping", "shutdown", "unknown", "missing"}}
        \cup {Evaluation(f) : f \in Failures}
=============================================================================
