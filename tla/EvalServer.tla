----------------------------- MODULE EvalServer -----------------------------
(***************************************************************************)
(* The evaluation service: ilf/src/eval_server.c, a single-threaded server  *)
(* on the Unix socket /tmp/ilf_eval.sock, and its clients,                  *)
(* ilf/src/eval_client.c.  Each client process sends one request.           *)
(*                                                                         *)
(* The processes end in four ways: a return from main or the exit of        *)
(* signal_handler, with a cleaned-up socket; a failed start; g_error, which *)
(* aborts; and SIGPIPE, which send raises, and neither program handles,     *)
(* when the peer is gone.  The file the socket was bound to outlives an     *)
(* abort and a SIGPIPE.  unlink may fail, and its result is not looked at:  *)
(* in /tmp a process only removes files of its own user, unless it is root. *)
(* Left out are failures of socket, listen, accept and memory, and the      *)
(* permission connect needs; a request is taken to fit into the one recv    *)
(* that is made.                                                            *)
(***************************************************************************)
EXTENDS Integers, Sequences, FiniteSets

CONSTANTS
    Servers,     \* the server processes that are started in a behaviour
    Clients,     \* the client processes
    Requests,    \* the requests clients may make
    None,        \* no server, no client
    MayUnlink,   \* <<s, t>>: server s may remove the file server t bound
    MaxRunning,  \* bound: server processes at a time
    MaxSignals,  \* bound: SIGINT and SIGTERM sent from outside
    MaxKills,    \* bound: clients that are killed while connected
    Backlog      \* the second argument of listen

\* Where an evaluation goes wrong: a parameter is missing, a file is not XML,
\* the profile document has no RiskProfile, a script does not compile, the
\* ratings can not be queried, or the output can not be written.
Failures == {"nothing", "parameters", "load", "build", "evaluate", "map", "save"}
Request  == [cmd : {"evaluate", "ping", "shutdown", "unknown", "missing"}, fails : Failures]

ASSUME ServerAssumption ==
    /\ None \notin Servers /\ None \notin Clients
    /\ Requests \subseteq Request
    /\ MayUnlink \subseteq Servers \X Servers
    /\ \A s \in Servers : <<s, s>> \in MayUnlink
    /\ {MaxRunning, MaxSignals, MaxKills, Backlog} \subseteq Nat

VARIABLES
    path,     \* the server process SOCKET_PATH was bound by, or None: no file
    server,   \* where each server process is
    met,      \* history: <<s, t>> if servers s and t ran at the same time
    backlog,  \* the connections of its socket it has not accepted, oldest first
    serving,  \* the client of client_socket, or None
    reply,    \* the response being built
    client,   \* where each client process is
    request,  \* what it asks
    sent,     \* whether its request is in the socket or was read from there
    answer,   \* what its recv finds
    saved,    \* the clients whose output file was written
    signals,  \* SIGINT and SIGTERM sent from outside so far
    kills     \* clients killed so far

serverVars == <<path, server, met, backlog, serving, reply, saved>>
clientVars == <<client, request, sent, kills>>
vars == <<path, server, met, backlog, serving, reply, saved,
          client, request, sent, kills, answer, signals>>

Stages    == {"loading", "building", "evaluating", "mapping", "saving"}
Listening == {"accepting", "receiving", "answering"} \cup Stages
Running   == {"starting", "bound"} \cup Listening
Ended     == {"exited", "failed", "crashed"}

Init ==
    /\ path = None
    /\ server = [s \in Servers |-> "off"]
    /\ met = {}
    /\ backlog = [s \in Servers |-> <<>>]
    /\ serving = [s \in Servers |-> None]
    /\ reply = [s \in Servers |-> "none"]
    /\ saved = {}
    /\ client = [c \in Clients |-> "idle"]
    /\ request \in [Clients -> Requests]
    /\ sent = [c \in Clients |-> FALSE]
    /\ answer = [c \in Clients |-> "none"]
    /\ signals = 0
    /\ kills = 0

-----------------------------------------------------------------------------
(* The end of a server process.                                             *)

Queued(s) == {backlog[s][i] : i \in 1..Len(backlog[s])}

\* The kernel closes the sockets: a connection that was not accepted, or has
\* unread data, is reset; one whose request was read is at its end.
Hangup(s) ==
    answer' = [c \in Clients |->
        IF answer[c] # "none" \/ ~ (serving[s] = c \/ c \in Queued(s)) THEN answer[c]
        ELSE IF c \in Queued(s) \/ (server[s] = "receiving" /\ sent[c]) THEN "reset"
        ELSE "eof"]

End(s, how) ==
    /\ server' = [server EXCEPT ![s] = how]
    /\ backlog' = [backlog EXCEPT ![s] = <<>>]
    /\ serving' = [serving EXCEPT ![s] = None]
    /\ UNCHANGED <<met, reply, clientVars>>

\* abort, or death by SIGPIPE: nothing is cleaned up.
Crash(s) == End(s, "crashed") /\ UNCHANGED <<path, saved, signals>>

-----------------------------------------------------------------------------
(* main: start.                                                             *)

Alive == {t \in Servers : server[t] \in Running}

\* unlink(SOCKET_PATH), whoever bound the file; that it fails is not noticed.
Unlink(s) == path' = IF path # None /\ <<s, path>> \in MayUnlink THEN None ELSE path

Starting(s) ==
    /\ server[s] = "off"
    /\ Cardinality(Alive) < MaxRunning
    /\ server' = [server EXCEPT ![s] = "starting"]
    /\ met' = met \cup ({s} \X Alive) \cup (Alive \X {s})
    /\ UNCHANGED <<backlog, serving, reply, saved, clientVars, answer, signals>>

\* Mutant of Start: an existing socket file is left alone.
StartNoUnlink(s) == Starting(s) /\ UNCHANGED path

Start(s) == Starting(s) /\ Unlink(s)

\* bind fails if the file is still there, or again.
Bind(s) ==
    /\ server[s] = "starting"
    /\ IF path = None
       THEN path' = s /\ server' = [server EXCEPT ![s] = "bound"]
       ELSE path' = path /\ server' = [server EXCEPT ![s] = "failed"]
    /\ UNCHANGED <<met, backlog, serving, reply, saved, clientVars, answer, signals>>

Listen(s) ==
    /\ server[s] = "bound"
    /\ server' = [server EXCEPT ![s] = "accepting"]
    /\ UNCHANGED <<path, met, backlog, serving, reply, saved, clientVars, answer, signals>>

-----------------------------------------------------------------------------
(* main: the accept loop, and handle_client.                                *)

Accept(s) ==
    /\ server[s] = "accepting" /\ backlog[s] # <<>>
    /\ serving' = [serving EXCEPT ![s] = Head(backlog[s])]
    /\ backlog' = [backlog EXCEPT ![s] = Tail(@)]
    /\ server' = [server EXCEPT ![s] = "receiving"]
    /\ UNCHANGED <<path, met, reply, saved, clientVars, answer, signals>>

Reply(s, status) ==
    /\ reply' = [reply EXCEPT ![s] = status]
    /\ server' = [server EXCEPT ![s] = "answering"]

\* Mutant of ReceiveNothing: the test is for an error only, and no bytes are
\* a request without a command.
ReceiveNothingParsed(s) ==
    /\ server[s] = "receiving"
    /\ ~ sent[serving[s]] /\ client[serving[s]] = "exited"
    /\ Reply(s, "error")
    /\ UNCHANGED <<path, met, backlog, serving, saved, clientVars, answer, signals>>

\* recv returns 0: the client went away before it sent anything.
ReceiveNothing(s) ==
    /\ server[s] = "receiving"
    /\ ~ sent[serving[s]] /\ client[serving[s]] = "exited"
    /\ server' = [server EXCEPT ![s] = "accepting"]
    /\ serving' = [serving EXCEPT ![s] = None]
    /\ UNCHANGED <<path, met, backlog, reply, saved, clientVars, answer, signals>>

\* Mutant of Receive: the arguments of build_json_response are swapped in the
\* response to ping.
ReceivePong(s) ==
    /\ server[s] = "receiving" /\ sent[serving[s]]
    /\ LET r == request[serving[s]]
       IN  IF r.cmd = "evaluate" /\ r.fails # "parameters"
           THEN server' = [server EXCEPT ![s] = "loading"] /\ UNCHANGED reply
           ELSE Reply(s, IF r.cmd = "ping" THEN "pong"
                         ELSE IF r.cmd = "shutdown" THEN "success" ELSE "error")
    /\ UNCHANGED <<path, met, backlog, serving, saved, clientVars, answer, signals>>

\* An evaluation whose parameters are all there begins; anything else is
\* answered at once.
Receive(s) ==
    /\ server[s] = "receiving" /\ sent[serving[s]]
    /\ LET r == request[serving[s]]
       IN  IF r.cmd = "evaluate" /\ r.fails # "parameters"
           THEN server' = [server EXCEPT ![s] = "loading"] /\ UNCHANGED reply
           ELSE Reply(s, IF r.cmd \in {"ping", "shutdown"} THEN "success" ELSE "error")
    /\ UNCHANGED <<path, met, backlog, serving, saved, clientVars, answer, signals>>

-----------------------------------------------------------------------------
(* process_evaluate_command.                                                *)

Fails(s, stage) == request[serving[s]].fails = stage

\* One stage of the pipeline that reports its failures.
Stage(s, at, failure, next) ==
    /\ server[s] = at
    /\ IF Fails(s, failure)
       THEN Reply(s, "error")
       ELSE server' = [server EXCEPT ![s] = next] /\ UNCHANGED reply
    /\ UNCHANGED <<path, met, backlog, serving, saved, clientVars, answer, signals>>

Load(s)  == Stage(s, "loading", "load", "building")
Build(s) == Stage(s, "building", "build", "evaluating")
Map(s)   == Stage(s, "mapping", "map", "saving")

\* evaluate_risk_profile_tree: the document was given and has a tree, so the
\* only failure left is a script, and that aborts.
Evaluate(s) ==
    /\ server[s] = "evaluating" /\ ~ Fails(s, "evaluate")
    /\ server' = [server EXCEPT ![s] = "mapping"]
    /\ UNCHANGED <<path, met, backlog, serving, reply, saved, clientVars, answer, signals>>

EvaluateAborts(s) ==
    /\ server[s] = "evaluating" /\ Fails(s, "evaluate")
    /\ Hangup(s) /\ Crash(s)

\* Mutant of Save: the file is written after the response was built.
SaveLate(s) ==
    /\ server[s] = "saving" /\ ~ Fails(s, "save")
    /\ Reply(s, "success")
    /\ UNCHANGED <<path, met, backlog, serving, saved, clientVars, answer, signals>>

Save(s) ==
    /\ server[s] = "saving" /\ ~ Fails(s, "save")
    /\ saved' = saved \cup {serving[s]}
    /\ Reply(s, "success")
    /\ UNCHANGED <<path, met, backlog, serving, clientVars, answer, signals>>

\* save_risk_profile_result reports a failed save with g_error.
SaveAborts(s) ==
    /\ server[s] = "saving" /\ Fails(s, "save")
    /\ Hangup(s) /\ Crash(s)

-----------------------------------------------------------------------------
(* The response, and the end.                                               *)

\* Mutant of Answer: an error skips the send, and the close behind it.
AnswerSkipsErrors(s) ==
    /\ server[s] = "answering"
    /\ client[serving[s]] # "exited"
    /\ request[serving[s]].cmd # "shutdown"
    /\ answer' = IF reply[s] = "error" THEN answer
                 ELSE [answer EXCEPT ![serving[s]] = reply[s]]
    /\ server' = [server EXCEPT ![s] = "accepting"]
    /\ serving' = [serving EXCEPT ![s] = None]
    /\ UNCHANGED <<path, met, backlog, reply, saved, clientVars, signals>>

\* The response to shutdown is sent before SIGTERM is raised.
Answer(s) ==
    /\ server[s] = "answering"
    /\ client[serving[s]] # "exited"
    /\ request[serving[s]].cmd # "shutdown"
    /\ answer' = [answer EXCEPT ![serving[s]] = reply[s]]
    /\ server' = [server EXCEPT ![s] = "accepting"]
    /\ serving' = [serving EXCEPT ![s] = None]
    /\ UNCHANGED <<path, met, backlog, reply, saved, clientVars, signals>>

\* signal_handler.
CleanExit(s) == Unlink(s) /\ End(s, "exited") /\ UNCHANGED saved

Shutdown(s) ==
    /\ server[s] = "answering"
    /\ client[serving[s]] # "exited"
    /\ request[serving[s]].cmd = "shutdown"
    /\ answer' = [c \in Clients |->
                    IF c = serving[s] THEN reply[s]
                    ELSE IF c \in Queued(s) /\ answer[c] = "none" THEN "reset" ELSE answer[c]]
    /\ CleanExit(s)
    /\ UNCHANGED signals

\* send to a client that is gone.
BrokenPipe(s) ==
    /\ server[s] = "answering" /\ client[serving[s]] = "exited"
    /\ Hangup(s) /\ Crash(s)

Signal(s) ==
    /\ server[s] \in Running /\ signals < MaxSignals
    /\ signals' = signals + 1
    /\ Hangup(s) /\ CleanExit(s)

-----------------------------------------------------------------------------
(* send_command of eval_client.c.                                           *)

Exit(c) == client' = [client EXCEPT ![c] = "exited"]

Reachable == path # None /\ server[path] \in Listening

\* connect is refused unless the file was bound by a socket that listens, and
\* blocks while its queue is full.
ConnectRefused(c) ==
    /\ client[c] = "idle" /\ ~ Reachable
    /\ Exit(c)
    /\ answer' = [answer EXCEPT ![c] = "refused"]
    /\ UNCHANGED <<serverVars, request, sent, kills, signals>>

Connect(c) ==
    /\ client[c] = "idle" /\ Reachable /\ Len(backlog[path]) <= Backlog
    /\ backlog' = [backlog EXCEPT ![path] = Append(@, c)]
    /\ client' = [client EXCEPT ![c] = "connected"]
    /\ UNCHANGED <<path, server, met, serving, reply, saved, request, sent, kills, answer, signals>>

Send(c) ==
    /\ client[c] = "connected" /\ answer[c] = "none"
    /\ sent' = [sent EXCEPT ![c] = TRUE]
    /\ client' = [client EXCEPT ![c] = "waiting"]
    /\ UNCHANGED <<serverVars, request, kills, answer, signals>>

\* The server is gone: SIGPIPE.
SendFails(c) ==
    /\ client[c] = "connected" /\ answer[c] # "none"
    /\ Exit(c)
    /\ answer' = [answer EXCEPT ![c] = "sigpipe"]
    /\ UNCHANGED <<serverVars, request, sent, kills, signals>>

Recv(c) ==
    /\ client[c] = "waiting" /\ answer[c] # "none"
    /\ Exit(c)
    /\ UNCHANGED <<serverVars, request, sent, kills, answer, signals>>

Killed(c) ==
    /\ client[c] \in {"connected", "waiting"} /\ kills < MaxKills
    /\ kills' = kills + 1
    /\ Exit(c)
    /\ answer' = [answer EXCEPT ![c] = "killed"]
    /\ UNCHANGED <<serverVars, request, sent, signals>>

\* The exit code of a client: 1 for a call that failed and for a response that
\* contains the error status, 0 for any other response, the empty one too.
ExitsZero(c) == client[c] = "exited" /\ answer[c] \in {"success", "eof"}

-----------------------------------------------------------------------------
ServerStep(s) ==
    \/ Bind(s) \/ Listen(s) \/ Accept(s)
    \/ ReceiveNothing(s) \/ Receive(s)
    \/ Load(s) \/ Build(s) \/ Evaluate(s) \/ EvaluateAborts(s) \/ Map(s)
    \/ Save(s) \/ SaveAborts(s)
    \/ Answer(s) \/ Shutdown(s) \/ BrokenPipe(s)

ClientStep(c) == Connect(c) \/ ConnectRefused(c) \/ Send(c) \/ SendFails(c) \/ Recv(c)

Next ==
    \/ \E s \in Servers : Start(s) \/ ServerStep(s) \/ Signal(s)
    \/ \E c \in Clients : ClientStep(c) \/ Killed(c)

Spec == Init /\ [][Next]_vars

\* Processes run on; nobody has to start a server, send a signal or kill.
FairSpec ==
    /\ Spec
    /\ \A s \in Servers : WF_vars(ServerStep(s))
    /\ \A c \in Clients : WF_vars(ClientStep(c))

-----------------------------------------------------------------------------
TypeOK ==
    /\ path \in Servers \cup {None}
    /\ server \in [Servers -> {"off"} \cup Running \cup Ended]
    /\ met \subseteq Servers \X Servers
    /\ backlog \in [Servers -> Seq(Clients)]
    /\ serving \in [Servers -> Clients \cup {None}]
    /\ reply \in [Servers -> {"none", "success", "error"}]
    /\ saved \subseteq Clients
    /\ client \in [Clients -> {"idle", "connected", "waiting", "exited"}]
    /\ request \in [Clients -> Requests]
    /\ sent \in [Clients -> BOOLEAN]
    /\ answer \in [Clients -> {"none", "success", "error", "eof", "reset",
                               "refused", "sigpipe", "killed"}]
    /\ signals \in 0..MaxSignals
    /\ kills \in 0..MaxKills

(***************************************************************************)
(* A connected client that has heard nothing yet is in the queue of a       *)
(* server that listens, or is the one it serves: no path through            *)
(* handle_client, and no end of a server, loses a connection.               *)
(***************************************************************************)
NobodyIsForgotten ==
    \A c \in Clients :
        client[c] \in {"connected", "waiting"} /\ answer[c] = "none" =>
            \E s \in Servers :
                /\ server[s] \in Listening
                /\ serving[s] = c \/ c \in Queued(s)

(***************************************************************************)
(* A client told "success" for an evaluation has its output file; one told  *)
(* "error" has none, so it may try again.                                   *)
(***************************************************************************)
ResponsesAreTrue ==
    \A c \in Clients : request[c].cmd = "evaluate" =>
        /\ answer[c] = "success" => c \in saved
        /\ answer[c] = "error" => c \notin saved

(***************************************************************************)
(* What a server leaves behind never harms one that starts after it: a      *)
(* start fails only if another server ran at the same time, or crashed and  *)
(* left a file that may not be removed.  A server that listens is the one   *)
(* clients reach, unless another that ran at the same time took its file    *)
(* away.  One that ended by shutdown or a signal left no file.              *)
(***************************************************************************)
FailedStartsHaveACause ==
    \A s \in Servers :
        /\ server[s] = "failed" =>
              \E t \in Servers :
                  <<s, t>> \in met \/ (server[t] = "crashed" /\ <<s, t>> \notin MayUnlink)
        /\ server[s] \in Listening =>
              path = s \/ \E t \in Servers : <<s, t>> \in met /\ <<t, s>> \in MayUnlink
        /\ server[s] = "exited" => path # s

(***************************************************************************)
(* A server only crashes on a request that was sent: one that asks for an   *)
(* evaluation that aborts, or one whose client left before the response.    *)
(* A client that leaves without a request does no harm.                     *)
(***************************************************************************)
CrashesHaveACause ==
    \A s \in Servers : server[s] = "crashed" =>
        \E c \in Clients :
            /\ sent[c]
            /\ \/ answer[c] = "killed"
               \/ request[c].cmd = "evaluate" /\ request[c].fails \in {"evaluate", "save"}

(***************************************************************************)
(* A client that was started ends, whatever becomes of the server and of    *)
(* the other clients.                                                       *)
(***************************************************************************)
ClientsEnd == \A c \in Clients : client[c] = "connected" ~> client[c] = "exited"

-----------------------------------------------------------------------------
(***************************************************************************)
(* ilf/src/eval_client.c:122, "Parse response to check status": a client    *)
(* whose request was not answered does not report success.                  *)
(***************************************************************************)
ExitCodeIsTheStatus == \A c \in Clients : ExitsZero(c) => answer[c] = "success"

(***************************************************************************)
(* ilf/docs/SERVER_IMPLEMENTATION_SUMMARY.md:290, "Handles errors           *)
(* gracefully": a client that goes away does not end the service.           *)
(***************************************************************************)
ServerSurvivesClients ==
    (\A c \in Clients : request[c].fails = "nothing") =>
        \A s \in Servers : server[s] # "crashed"
=============================================================================
