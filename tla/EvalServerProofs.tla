-------------------------- MODULE EvalServerProofs --------------------------
(***************************************************************************)
(* For any number of servers, clients and requests: no connection is lost,  *)
(* responses are true, and crashes and failed starts have a cause.          *)
(*                                                                         *)
(* NobodyIsForgotten is not inductive: Accept would lose the client being   *)
(* served if the loop could come back to accept with one, and Answer would  *)
(* leave a client without a response if there were none.  ServingInv says   *)
(* that neither is so.                                                      *)
(***************************************************************************)
EXTENDS EvalServer, SequenceTheorems, FiniteSetTheorems, TLAPS

Handling == {"receiving", "answering"} \cup Stages

ServingInv ==
    \A s \in Servers :
        /\ server[s] \in Handling => serving[s] \in Clients
        /\ server[s] \notin Handling => serving[s] = None
        /\ server[s] \notin Listening => backlog[s] = <<>>
        /\ server[s] = "answering" => reply[s] # "none"

ServerInv == TypeOK /\ ServingInv /\ NobodyIsForgotten

USE DEF Listening, Running, Ended, Stages, Handling

LEMMA InitInv == Init => ServerInv
<1> SUFFICES ASSUME Init PROVE ServerInv
  OBVIOUS
<1> USE ServerAssumption DEF Init
<1>1. TypeOK
  <2>1. \A s \in Servers : backlog[s] \in Seq(Clients)
    OBVIOUS
  <2>2. backlog \in [Servers -> Seq(Clients)]
    BY <2>1
  <2> QED
    BY <2>2 DEF TypeOK
<1>2. ServingInv
  BY DEF ServingInv
<1>3. NobodyIsForgotten
  BY DEF NobodyIsForgotten
<1> QED
  BY <1>1, <1>2, <1>3 DEF ServerInv

(***************************************************************************)
(* The steps that move one server on, and leave its queue, its client and   *)
(* all clients alone.                                                       *)
(***************************************************************************)
LEMMA QuietStep ==
    ASSUME ServerInv, NEW s \in Servers,
           NEW at \in {"off"} \cup Running \cup Ended,
           NEW status \in {"none", "success", "error"},
           server' = [server EXCEPT ![s] = at],
           reply' = [reply EXCEPT ![s] = status],
           path' \in Servers \cup {None},
           met' \subseteq Servers \X Servers,
           saved' \subseteq Clients,
           UNCHANGED <<backlog, serving, clientVars, answer, signals>>,
           server[s] \in Listening => at \in Listening,
           server[s] \in Handling <=> at \in Handling,
           at = "answering" => status # "none"
    PROVE  ServerInv'
<1> USE DEF ServerInv, clientVars
<1>1. TypeOK'
  BY DEF TypeOK
<1>2. ServingInv'
  BY DEF ServingInv, TypeOK
<1>3. NobodyIsForgotten'
  <2>1. \A t \in Servers : server[t] \in Listening => server'[t] \in Listening
    BY DEF TypeOK
  <2> QED
    BY <2>1 DEF NobodyIsForgotten, Queued
<1> QED
  BY <1>1, <1>2, <1>3

(***************************************************************************)
(* Every way a server ends answers the clients it knew.                     *)
(***************************************************************************)
LEMMA EndStep ==
    ASSUME ServerInv, NEW s \in Servers, NEW how \in Ended,
           End(s, how),
           path' \in Servers \cup {None},
           saved' = saved,
           signals' \in 0..MaxSignals,
           answer' \in [Clients -> {"none", "success", "error", "eof", "reset",
                                    "refused", "sigpipe", "killed"}],
           \A c \in Clients : answer[c] # "none" => answer'[c] # "none",
           \A c \in Queued(s) : answer'[c] # "none",
           serving[s] \in Clients => answer'[serving[s]] # "none"
    PROVE  ServerInv'
<1> USE DEF ServerInv, clientVars
<1>1. TypeOK'
  <2>1. backlog' \in [Servers -> Seq(Clients)]
    BY DEF TypeOK, End
  <2> QED
    BY <2>1 DEF TypeOK, End
<1>2. ServingInv'
  BY DEF ServingInv, TypeOK, End
<1>3. NobodyIsForgotten'
  <2> SUFFICES ASSUME NEW c \in Clients, client[c] \in {"connected", "waiting"},
                      answer'[c] = "none"
               PROVE  \E t \in Servers :
                          server'[t] \in Listening /\ (serving'[t] = c \/ c \in Queued(t)')
    BY DEF NobodyIsForgotten, End
  <2>1. answer[c] = "none"
    OBVIOUS
  <2>2. PICK t \in Servers :
            server[t] \in Listening /\ (serving[t] = c \/ c \in Queued(t))
    BY <2>1 DEF NobodyIsForgotten
  <2>3. t # s
    BY <2>2
  <2>4. server'[t] = server[t] /\ serving'[t] = serving[t] /\ backlog'[t] = backlog[t]
    BY <2>3 DEF End, TypeOK
  <2> QED
    BY <2>2, <2>4 DEF Queued
<1> QED
  BY <1>1, <1>2, <1>3

LEMMA HangupAnswers ==
    ASSUME ServerInv, NEW s \in Servers, Hangup(s)
    PROVE  /\ answer' \in [Clients -> {"none", "success", "error", "eof", "reset",
                                       "refused", "sigpipe", "killed"}]
           /\ \A c \in Clients : answer[c] # "none" => answer'[c] # "none"
           /\ \A c \in Queued(s) : answer'[c] # "none"
           /\ serving[s] \in Clients => answer'[serving[s]] # "none"
<1>1. Queued(s) \subseteq Clients
  BY DEF ServerInv, TypeOK, Queued
<1> QED
  BY <1>1 DEF ServerInv, TypeOK, Hangup

(***************************************************************************)
(* The steps of a client that change nothing of a server, and do not make   *)
(* it one that waits for an answer and had none before.                     *)
(***************************************************************************)
LEMMA ClientOnly ==
    ASSUME ServerInv, NEW c \in Clients,
           NEW at \in {"connected", "waiting", "exited"},
           client' = [client EXCEPT ![c] = at],
           UNCHANGED <<serverVars, request, signals>>,
           sent' \in [Clients -> BOOLEAN],
           kills' \in 0..MaxKills,
           answer' \in [Clients -> {"none", "success", "error", "eof", "reset",
                                    "refused", "sigpipe", "killed"}],
           \A d \in Clients : answer[d] # "none" => answer'[d] # "none",
           at # "exited" => client[c] \in {"connected", "waiting"}
    PROVE  ServerInv'
<1> USE DEF ServerInv, serverVars
<1>1. TypeOK'
  BY DEF TypeOK
<1>2. ServingInv'
  BY DEF ServingInv
<1>3. NobodyIsForgotten'
  <2> SUFFICES ASSUME NEW d \in Clients, client'[d] \in {"connected", "waiting"},
                      answer'[d] = "none"
               PROVE  \E t \in Servers :
                          server'[t] \in Listening /\ (serving'[t] = d \/ d \in Queued(t)')
    BY DEF NobodyIsForgotten
  <2>1. client[d] \in {"connected", "waiting"} /\ answer[d] = "none"
    BY DEF TypeOK
  <2> QED
    BY <2>1 DEF NobodyIsForgotten, Queued
<1> QED
  BY <1>1, <1>2, <1>3

LEMMA AcceptStep ==
    ASSUME ServerInv, NEW s \in Servers, Accept(s)
    PROVE  ServerInv'
<1> USE DEF ServerInv, clientVars
<1> DEFINE q == backlog[s]
<1>1. /\ q \in Seq(Clients) /\ q # <<>> /\ server[s] = "accepting"
      /\ Head(q) \in Clients /\ Tail(q) \in Seq(Clients)
  BY HeadTailProperties DEF TypeOK, Accept
<1>2. TypeOK'
  BY <1>1 DEF TypeOK, Accept
<1>3. ServingInv'
  BY <1>1 DEF ServingInv, TypeOK, Accept
<1>4. \A c \in Queued(s) : c = Head(q) \/ c \in Queued(s)'
  <2> SUFFICES ASSUME NEW i \in 1..Len(q), q[i] # Head(q)
               PROVE  q[i] \in Queued(s)'
    BY DEF Queued
  <2>1. backlog'[s] = Tail(q)
    BY DEF Accept, TypeOK
  <2>2. Len(q) \in Nat /\ i # 1 /\ Len(Tail(q)) = Len(q) - 1
    BY <1>1
  <2>3. i-1 \in 1..Len(Tail(q)) /\ Tail(q)[i-1] = q[i]
    BY <1>1, <2>2
  <2> HIDE DEF q
  <2> QED
    BY <2>1, <2>3 DEF Queued
<1>5. NobodyIsForgotten'
  <2> SUFFICES ASSUME NEW c \in Clients, client[c] \in {"connected", "waiting"},
                      answer[c] = "none"
               PROVE  \E t \in Servers :
                          server'[t] \in Listening /\ (serving'[t] = c \/ c \in Queued(t)')
    BY DEF NobodyIsForgotten, Accept
  <2>1. PICK t \in Servers :
            server[t] \in Listening /\ (serving[t] = c \/ c \in Queued(t))
    BY DEF NobodyIsForgotten
  <2>2. CASE t # s
    <3>1. server'[t] = server[t] /\ serving'[t] = serving[t] /\ backlog'[t] = backlog[t]
      BY <2>2 DEF Accept, TypeOK
    <3> QED
      BY <2>1, <3>1 DEF Queued
  <2>3. CASE t = s
    <3>1. serving[s] = None
      BY <1>1 DEF ServingInv
    <3>2. c \in Queued(s)
      BY <2>1, <2>3, <3>1, ServerAssumption
    <3>3. server'[s] = "receiving" /\ serving'[s] = Head(q)
      BY DEF Accept, TypeOK
    <3> HIDE DEF q
    <3> QED
      BY <3>2, <3>3, <1>4
  <2> QED
    BY <2>2, <2>3
<1> QED
  BY <1>2, <1>3, <1>5

(***************************************************************************)
(* The end of handle_client: the client served is gone or has its answer.   *)
(***************************************************************************)
LEMMA BackToAccept ==
    ASSUME ServerInv, NEW s \in Servers, server[s] \in Handling,
           server' = [server EXCEPT ![s] = "accepting"],
           serving' = [serving EXCEPT ![s] = None],
           UNCHANGED <<path, met, backlog, reply, saved, clientVars, signals>>,
           NEW status \in {"none", "success", "error"},
           answer' = IF status = "none" THEN answer
                     ELSE [answer EXCEPT ![serving[s]] = status],
           client[serving[s]] = "exited" \/ status # "none"
    PROVE  ServerInv'
<1> USE DEF ServerInv, clientVars
<1>1. TypeOK'
  BY DEF TypeOK
<1>2. ServingInv'
  BY DEF ServingInv, TypeOK
<1>3. NobodyIsForgotten'
  <2> SUFFICES ASSUME NEW c \in Clients, client[c] \in {"connected", "waiting"},
                      answer'[c] = "none"
               PROVE  \E t \in Servers :
                          server'[t] \in Listening /\ (serving'[t] = c \/ c \in Queued(t)')
    BY DEF NobodyIsForgotten
  <2>1. answer[c] = "none" /\ c # serving[s]
    BY DEF TypeOK, ServingInv
  <2>2. PICK t \in Servers :
            server[t] \in Listening /\ (serving[t] = c \/ c \in Queued(t))
    BY <2>1 DEF NobodyIsForgotten
  <2>3. CASE t # s
    BY <2>2, <2>3 DEF Queued, TypeOK
  <2>4. CASE t = s
    BY <2>1, <2>2, <2>4 DEF Queued, TypeOK
  <2> QED
    BY <2>3, <2>4
<1> QED
  BY <1>1, <1>2, <1>3

LEMMA ConnectStep ==
    ASSUME ServerInv, NEW c \in Clients, Connect(c)
    PROVE  ServerInv'
<1> USE DEF ServerInv
<1>1. path \in Servers /\ server[path] \in Listening /\ backlog[path] \in Seq(Clients)
  BY DEF Connect, Reachable, TypeOK
<1>2. /\ Append(backlog[path], c) \in Seq(Clients)
      /\ Len(Append(backlog[path], c)) = Len(backlog[path]) + 1
      /\ Append(backlog[path], c)[Len(backlog[path]) + 1] = c
      /\ \A i \in 1..Len(backlog[path]) :
            Append(backlog[path], c)[i] = backlog[path][i]
      /\ Len(backlog[path]) \in Nat
  BY <1>1
<1>3. /\ backlog'[path] = Append(backlog[path], c)
      /\ \A t \in Servers : t # path => backlog'[t] = backlog[t]
  BY <1>1 DEF Connect, TypeOK
<1>4. TypeOK'
  BY <1>1, <1>2 DEF TypeOK, Connect
<1>5. ServingInv'
  BY <1>1, <1>3 DEF ServingInv, Connect
<1>6. /\ c \in Queued(path)'
      /\ \A t \in Servers : \A d \in Queued(t) : d \in Queued(t)'
  <2>1. path' = path
    BY DEF Connect
  <2>2. Len(backlog[path]) + 1 \in 1..Len(Append(backlog[path], c))
    BY <1>2
  <2>3. \A i \in 1..Len(backlog[path]) : i \in 1..Len(Append(backlog[path], c))
    BY <1>2
  <2>4. c \in Queued(path)'
    BY <1>2, <1>3, <2>1, <2>2 DEF Queued
  <2>5. \A d \in Queued(path) : d \in {backlog'[path][i] : i \in 1..Len(backlog'[path])}
    BY <1>2, <1>3, <2>3 DEF Queued
  <2> QED
    BY <1>3, <2>4, <2>5 DEF Queued
<1>7. NobodyIsForgotten'
  <2> SUFFICES ASSUME NEW d \in Clients, client'[d] \in {"connected", "waiting"},
                      answer[d] = "none"
               PROVE  \E t \in Servers :
                          server[t] \in Listening /\ (serving[t] = d \/ d \in Queued(t)')
    BY DEF NobodyIsForgotten, Connect
  <2>1. CASE d = c
    BY <2>1, <1>1, <1>6 DEF Connect
  <2>2. CASE d # c
    <3>1. client[d] \in {"connected", "waiting"}
      BY <2>2 DEF Connect, TypeOK
    <3>2. PICK t \in Servers :
              server[t] \in Listening /\ (serving[t] = d \/ d \in Queued(t))
      BY <3>1 DEF NobodyIsForgotten
    <3> QED
      BY <3>2, <1>6
  <2> QED
    BY <2>1, <2>2
<1> QED
  BY <1>4, <1>5, <1>7
-----------------------------------------------------------------------------
(***************************************************************************)
(* One lemma per kind of process.                                           *)
(***************************************************************************)
LEMMA ServerSteps ==
    ASSUME ServerInv, NEW s \in Servers, Start(s) \/ ServerStep(s) \/ Signal(s)
    PROVE  ServerInv'
<1> USE DEF ServerInv
<1>r. reply[s] \in {"none", "success", "error"} /\ reply = [reply EXCEPT ![s] = reply[s]]
  BY DEF TypeOK
<1>s. signals \in 0..MaxSignals
  BY DEF TypeOK
<1>1. CASE Start(s)
  <2>1. /\ server[s] = "off" /\ server' = [server EXCEPT ![s] = "starting"]
        /\ met' = met \cup ({s} \X Alive) \cup (Alive \X {s})
        /\ UNCHANGED <<backlog, serving, reply, saved, clientVars, answer, signals>>
    BY <1>1 DEF Start, Starting
  <2>2. met' \subseteq Servers \X Servers
    BY <2>1 DEF TypeOK, Alive
  <2>3. path' \in Servers \cup {None}
    BY <1>1 DEF Start, Unlink, TypeOK
  <2> QED
    BY <2>1, <2>2, <2>3, <1>r, QuietStep DEF TypeOK
<1>2. CASE Bind(s)
  <2>1. /\ server[s] = "starting"
        /\ UNCHANGED <<met, backlog, serving, reply, saved, clientVars, answer, signals>>
        /\ path' \in Servers \cup {None}
        /\ \E at \in {"bound", "failed"} : server' = [server EXCEPT ![s] = at]
    BY <1>2 DEF Bind, TypeOK
  <2>2. PICK at \in {"bound", "failed"} : server' = [server EXCEPT ![s] = at]
    BY <2>1
  <2> QED
    BY <2>1, <2>2, <1>r, QuietStep DEF TypeOK
<1>3. CASE Listen(s)
  <2>1. server[s] = "bound" /\ server' = [server EXCEPT ![s] = "accepting"]
        /\ UNCHANGED <<path, met, backlog, serving, reply, saved, clientVars, answer, signals>>
    BY <1>3 DEF Listen
  <2> QED
    BY <2>1, <1>r, QuietStep DEF TypeOK
<1>4. CASE Accept(s)
  BY <1>4, AcceptStep
<1>5. CASE ReceiveNothing(s)
  <2>1. /\ server[s] = "receiving" /\ client[serving[s]] = "exited"
        /\ server' = [server EXCEPT ![s] = "accepting"]
        /\ serving' = [serving EXCEPT ![s] = None]
        /\ UNCHANGED <<path, met, backlog, reply, saved, clientVars, answer, signals>>
    BY <1>5 DEF ReceiveNothing
  <2> QED
    BY <2>1, BackToAccept
<1>6. CASE Receive(s)
  <2>1. /\ server[s] = "receiving"
        /\ UNCHANGED <<path, met, backlog, serving, saved, clientVars, answer, signals>>
        /\ \/ server' = [server EXCEPT ![s] = "loading"] /\ reply' = reply
           \/ \E status \in {"success", "error"} : Reply(s, status)
    BY <1>6 DEF Receive
  <2>2. CASE server' = [server EXCEPT ![s] = "loading"] /\ reply' = reply
    BY <2>1, <2>2, <1>r, QuietStep DEF TypeOK
  <2>3. CASE \E status \in {"success", "error"} : Reply(s, status)
    BY <2>1, <2>3, QuietStep DEF Reply, TypeOK
  <2> QED
    BY <2>1, <2>2, <2>3
<1>7. ASSUME NEW at \in {"loading", "building", "mapping"},
             NEW next \in {"building", "evaluating", "saving"},
             NEW failure, Stage(s, at, failure, next)
      PROVE  ServerInv'
  <2>1. /\ server[s] = at
        /\ UNCHANGED <<path, met, backlog, serving, saved, clientVars, answer, signals>>
        /\ \/ server' = [server EXCEPT ![s] = next] /\ reply' = reply
           \/ Reply(s, "error")
    BY <1>7 DEF Stage
  <2>2. CASE server' = [server EXCEPT ![s] = next] /\ reply' = reply
    BY <2>1, <2>2, <1>r, QuietStep DEF TypeOK
  <2>3. CASE Reply(s, "error")
    BY <2>1, <2>3, QuietStep DEF Reply, TypeOK
  <2> QED
    BY <2>1, <2>2, <2>3
<1>8. CASE Load(s) \/ Build(s) \/ Map(s)
  BY <1>7, <1>8 DEF Load, Build, Map
<1>9. CASE Evaluate(s)
  <2>1. server[s] = "evaluating" /\ server' = [server EXCEPT ![s] = "mapping"]
        /\ UNCHANGED <<path, met, backlog, serving, reply, saved, clientVars, answer, signals>>
    BY <1>9 DEF Evaluate
  <2> QED
    BY <2>1, <1>r, QuietStep DEF TypeOK
<1>10. CASE Save(s)
  <2>1. /\ server[s] = "saving" /\ Reply(s, "success")
        /\ saved' = saved \cup {serving[s]}
        /\ UNCHANGED <<path, met, backlog, serving, clientVars, answer, signals>>
    BY <1>10 DEF Save
  <2>2. saved' \subseteq Clients
    BY <2>1 DEF TypeOK, ServingInv
  <2> QED
    BY <2>1, <2>2, QuietStep DEF Reply, TypeOK
<1>11. CASE EvaluateAborts(s) \/ SaveAborts(s) \/ BrokenPipe(s)
  <2>1. Hangup(s) /\ End(s, "crashed") /\ UNCHANGED <<path, saved, signals>>
    BY <1>11 DEF EvaluateAborts, SaveAborts, BrokenPipe, Crash
  <2>2. path' \in Servers \cup {None} /\ saved' = saved /\ signals' \in 0..MaxSignals
    BY <2>1 DEF TypeOK
  <2> QED
    BY <2>1, <2>2, HangupAnswers, EndStep
<1>12. CASE Signal(s)
  <2>1. /\ Hangup(s) /\ End(s, "exited") /\ path' \in Servers \cup {None}
        /\ saved' = saved /\ signals' = signals + 1 /\ signals < MaxSignals
    BY <1>12 DEF Signal, CleanExit, Unlink, TypeOK
  <2>2. signals' \in 0..MaxSignals
    BY <2>1, <1>s, ServerAssumption
  <2> QED
    BY <2>1, <2>2, HangupAnswers, EndStep
<1>13. CASE Answer(s)
  <2>1. reply[s] \in {"success", "error"}
    BY <1>13 DEF Answer, ServingInv, TypeOK
  <2> QED
    BY <2>1, <1>13, BackToAccept DEF Answer
<1>14. CASE Shutdown(s)
  <2>1. /\ End(s, "exited") /\ path' \in Servers \cup {None}
        /\ saved' = saved /\ signals' = signals
        /\ server[s] = "answering"
        /\ answer' = [c \in Clients |->
                IF c = serving[s] THEN reply[s]
                ELSE IF c \in Queued(s) /\ answer[c] = "none" THEN "reset" ELSE answer[c]]
    BY <1>14 DEF Shutdown, CleanExit, Unlink, TypeOK
  <2>2. reply[s] \in {"success", "error"} /\ Queued(s) \subseteq Clients
    BY <2>1 DEF ServingInv, TypeOK, Queued
  <2>3. /\ answer' \in [Clients -> {"none", "success", "error", "eof", "reset",
                                    "refused", "sigpipe", "killed"}]
        /\ \A c \in Clients : answer[c] # "none" => answer'[c] # "none"
        /\ \A c \in Queued(s) : answer'[c] # "none"
        /\ serving[s] \in Clients => answer'[serving[s]] # "none"
    BY <2>1, <2>2 DEF TypeOK
  <2> QED
    BY <2>1, <2>3, <1>s, EndStep
<1> QED
  BY <1>1, <1>2, <1>3, <1>4, <1>5, <1>6, <1>8, <1>9, <1>10, <1>11, <1>12, <1>13, <1>14
     DEF ServerStep

LEMMA ClientSteps ==
    ASSUME ServerInv, NEW c \in Clients, ClientStep(c) \/ Killed(c)
    PROVE  ServerInv'
<1> USE DEF ServerInv
<1>1. CASE Connect(c)
  BY <1>1, ConnectStep
<1>2. CASE ConnectRefused(c) \/ SendFails(c)
  <2>1. PICK a \in {"refused", "sigpipe"} :
            /\ answer' = [answer EXCEPT ![c] = a] /\ Exit(c)
            /\ UNCHANGED <<serverVars, request, sent, kills, signals>>
    BY <1>2 DEF ConnectRefused, SendFails
  <2> QED
    BY <2>1, ClientOnly DEF TypeOK, Exit
<1>3. CASE Send(c)
  <2>1. /\ client[c] = "connected" /\ client' = [client EXCEPT ![c] = "waiting"]
        /\ sent' = [sent EXCEPT ![c] = TRUE]
        /\ UNCHANGED <<serverVars, request, kills, answer, signals>>
    BY <1>3 DEF Send
  <2> QED
    BY <2>1, ClientOnly DEF TypeOK
<1>4. CASE Recv(c)
  <2>1. Exit(c) /\ UNCHANGED <<serverVars, request, sent, kills, answer, signals>>
    BY <1>4 DEF Recv
  <2> QED
    BY <2>1, ClientOnly DEF TypeOK, Exit
<1>5. CASE Killed(c)
  <2>1. /\ kills' = kills + 1 /\ kills < MaxKills /\ Exit(c)
        /\ answer' = [answer EXCEPT ![c] = "killed"]
        /\ UNCHANGED <<serverVars, request, sent, signals>>
    BY <1>5 DEF Killed
  <2>2. kills' \in 0..MaxKills
    BY <2>1, ServerAssumption DEF TypeOK
  <2> QED
    BY <2>1, <2>2, ClientOnly DEF TypeOK, Exit
<1> QED
  BY <1>1, <1>2, <1>3, <1>4, <1>5 DEF ClientStep

LEMMA NextInv == ServerInv /\ [Next]_vars => ServerInv'
<1> SUFFICES ASSUME ServerInv, [Next]_vars PROVE ServerInv'
  OBVIOUS
<1>1. CASE UNCHANGED vars
  <2> USE <1>1 DEF vars, ServerInv
  <2>1. TypeOK'
    BY DEF TypeOK
  <2>2. ServingInv'
    BY DEF ServingInv
  <2>3. NobodyIsForgotten'
    BY DEF NobodyIsForgotten, Queued
  <2> QED
    BY <2>1, <2>2, <2>3
<1>2. CASE Next
  BY <1>2, ServerSteps, ClientSteps DEF Next
<1> QED
  BY <1>1, <1>2

(***************************************************************************)
(* Type correctness, for any number of processes.                           *)
(***************************************************************************)
THEOREM ServerTypeCorrect == Spec => []TypeOK
<1>1. ServerInv => TypeOK
  BY DEF ServerInv
<1> QED
  BY <1>1, InitInv, NextInv, PTL DEF Spec

(***************************************************************************)
(* No connection is lost: a client that waits is in the hands of a server   *)
(* that runs, so its answer or its end of connection is still to come.      *)
(***************************************************************************)
THEOREM NobodyIsEverForgotten == Spec => []NobodyIsForgotten
<1>1. ServerInv => NobodyIsForgotten
  BY DEF ServerInv
<1> QED
  BY <1>1, InitInv, NextInv, PTL DEF Spec

-----------------------------------------------------------------------------
(***************************************************************************)
(* A response is true because the file of a client is written by the one    *)
(* server that serves it, once, and right before the response is built.     *)
(* PlaceInv says that a connection is in one place at a time, and TruthInv  *)
(* that a client whose file is written and that is still held by a server   *)
(* is about to be told so.                                                  *)
(***************************************************************************)

HIDE DEF Listening, Running, Ended, Stages, Handling

Holds(s, c) == serving[s] = c \/ c \in Queued(s)
Verdicts == {"success", "error"}

PlaceInv ==
    /\ \A s \in Servers, c \in Clients :
          Holds(s, c) => client[c] # "idle" /\ answer[c] \notin Verdicts
    /\ \A s, t \in Servers, c \in Clients : Holds(s, c) /\ Holds(t, c) => s = t
    /\ \A s \in Servers, c \in Clients : serving[s] = c => c \notin Queued(s)
    /\ \A s \in Servers : \A i, j \in 1..Len(backlog[s]) :
          backlog[s][i] = backlog[s][j] => i = j
    /\ \A c \in Clients : client[c] = "idle" => answer[c] = "none" /\ c \notin saved

TruthInv ==
    /\ \A s \in Servers, c \in Clients :
          Holds(s, c) /\ c \in saved /\ request[c].cmd = "evaluate" =>
              serving[s] = c /\ server[s] = "answering" /\ reply[s] = "success"
    /\ \A s \in Servers : \A c \in Clients :
          /\ server[s] = "answering" /\ serving[s] = c
          /\ request[c].cmd = "evaluate" /\ reply[s] = "success"
          => c \in saved
    /\ ResponsesAreTrue

AnswerInv == PlaceInv /\ TruthInv

LEMMA InitAnswerInv == Init => AnswerInv
<1> SUFFICES ASSUME Init PROVE AnswerInv
  OBVIOUS
<1>1. \A s \in Servers, c \in Clients : ~ Holds(s, c)
  BY ServerAssumption DEF Init, Holds, Queued
<1>2. PlaceInv
  BY <1>1, ServerAssumption DEF Init, PlaceInv, Holds, Verdicts
<1>3. TruthInv
  BY <1>1 DEF Init, TruthInv, ResponsesAreTrue
<1> QED
  BY <1>2, <1>3 DEF AnswerInv

(***************************************************************************)
(* Who is held after a server took a connection, finished one, or ended.    *)
(***************************************************************************)
LEMMA AcceptHolds ==
    ASSUME ServerInv, NEW s \in Servers, Accept(s)
    PROVE  \A t \in Servers, c \in Clients : Holds(t, c)' => Holds(t, c)
<1> DEFINE q == backlog[s]
<1>1. /\ q \in Seq(Clients) /\ q # <<>>
      /\ server \in [Servers -> {"off"} \cup Running \cup Ended]
      /\ serving \in [Servers -> Clients \cup {None}] /\ backlog \in [Servers -> Seq(Clients)]
  BY DEF ServerInv, TypeOK, Accept
<1>2. /\ serving' = [serving EXCEPT ![s] = Head(q)]
      /\ backlog' = [backlog EXCEPT ![s] = Tail(q)]
  BY DEF Accept
<1>3. /\ Len(q) \in Nat /\ Len(q) > 0
      /\ Len(Tail(q)) = Len(q) - 1 /\ Head(q) = q[1]
  BY <1>1
<1>4. \A i \in 1..Len(Tail(q)) : Tail(q)[i] = q[i+1]
  BY <1>1
<1>5. Queued(s) = {q[i] : i \in 1..Len(q)}
  BY DEF Queued
<1> HIDE DEF q
<1>6. serving'[s] = Head(q) /\ Queued(s)' = {Tail(q)[i] : i \in 1..Len(Tail(q))}
  BY <1>1, <1>2 DEF Queued
<1>7. Head(q) \in Queued(s) /\ Queued(s)' \subseteq Queued(s)
  BY <1>3, <1>4, <1>5, <1>6
<1>8. \A t \in Servers \ {s} : serving'[t] = serving[t] /\ Queued(t)' = Queued(t)
  BY <1>1, <1>2 DEF Queued
<1> QED
  BY <1>6, <1>7, <1>8 DEF Holds

LEMMA BackHolds ==
    ASSUME ServerInv, AnswerInv, NEW s \in Servers, serving[s] \in Clients,
           serving' = [serving EXCEPT ![s] = None], backlog' = backlog
    PROVE  \A t \in Servers, c \in Clients :
               Holds(t, c)' => Holds(t, c) /\ c # serving[s]
<1>1. serving'[s] = None /\ \A t \in Servers \ {s} : serving'[t] = serving[t]
  BY DEF ServerInv, TypeOK
<1>2. \A t \in Servers : Queued(t)' = Queued(t)
  BY DEF Queued
<1> QED
  BY <1>1, <1>2, ServerAssumption DEF Holds, AnswerInv, PlaceInv

LEMMA EndHolds ==
    ASSUME ServerInv, AnswerInv, NEW s \in Servers, NEW how, End(s, how)
    PROVE  \A t \in Servers, c \in Clients :
               Holds(t, c)' => t # s /\ Holds(t, c) /\ ~ Holds(s, c)
<1>1. /\ serving'[s] = None /\ backlog'[s] = <<>>
      /\ \A t \in Servers \ {s} : serving'[t] = serving[t] /\ backlog'[t] = backlog[t]
  BY DEF ServerInv, TypeOK, End
<1>2. /\ \A t \in Servers \ {s}, c \in Clients : Holds(t, c)' = Holds(t, c)
      /\ \A c \in Clients : ~ Holds(s, c)'
  BY <1>1, ServerAssumption DEF Holds, Queued
<1> QED
  BY <1>2 DEF AnswerInv, PlaceInv

(***************************************************************************)
(* A server that is not answering moves on, and may write the file of the   *)
(* client it serves if it answers success next.                             *)
(***************************************************************************)
LEMMA QuietAnswers ==
    ASSUME ServerInv, AnswerInv, NEW s \in Servers,
           NEW at, NEW status,
           server' = [server EXCEPT ![s] = at],
           reply' = [reply EXCEPT ![s] = status],
           server[s] # "answering",
           UNCHANGED <<backlog, serving, clientVars, answer>>,
           \/ saved' = saved
           \/ /\ serving[s] \in Clients /\ saved' = saved \cup {serving[s]}
              /\ at = "answering" /\ status = "success",
           at = "answering" /\ status = "success" =>
               \/ serving[s] \in saved'
               \/ request[serving[s]].cmd # "evaluate"
    PROVE  AnswerInv'
<1> USE DEF clientVars
<1>1. \A t \in Servers, c \in Clients : Holds(t, c)' = Holds(t, c)
  BY DEF Holds, Queued
<1>2. /\ server'[s] = at /\ reply'[s] = status
      /\ \A t \in Servers \ {s} : server'[t] = server[t] /\ reply'[t] = reply[t]
  BY DEF ServerInv, TypeOK
<1>3. \A c \in Clients : c \in saved' /\ c \notin saved => c = serving[s] /\ Holds(s, c)
  BY DEF Holds
<1>4. PlaceInv'
  <2>1. \A c \in Clients : client[c] = "idle" => c \notin saved'
    BY <1>3 DEF AnswerInv, PlaceInv
  <2>2. \A t \in Servers : Queued(t)' = Queued(t)
    BY DEF Queued
  <2> QED
    BY <1>1, <2>1, <2>2 DEF AnswerInv, PlaceInv
<1>5. ASSUME NEW t \in Servers, NEW c \in Clients,
             Holds(t, c), c \in saved', request[c].cmd = "evaluate"
      PROVE  serving[t] = c /\ server'[t] = "answering" /\ reply'[t] = "success"
  <2>1. CASE c \in saved
    <3>1. serving[t] = c /\ server[t] = "answering" /\ reply[t] = "success"
      BY <1>5, <2>1 DEF AnswerInv, TruthInv
    <3> QED
      BY <3>1, <1>2
  <2>2. CASE c \notin saved
    <3>1. c = serving[s] /\ t = s
      BY <1>3, <1>5, <2>2 DEF AnswerInv, PlaceInv
    <3>2. at = "answering" /\ status = "success"
      BY <1>5, <2>2
    <3> QED
      BY <3>1, <3>2, <1>2
  <2> QED
    BY <2>1, <2>2
<1>6. ASSUME NEW t \in Servers, NEW c \in Clients,
             server'[t] = "answering", serving[t] = c,
             request[c].cmd = "evaluate", reply'[t] = "success"
      PROVE  c \in saved'
  <2>1. CASE t = s
    BY <1>2, <1>6, <2>1
  <2>2. CASE t # s
    BY <1>2, <1>6, <2>2 DEF AnswerInv, TruthInv
  <2> QED
    BY <2>1, <2>2
<1>7. ResponsesAreTrue'
  <2>1. \A c \in Clients : answer[c] = "error" => c \notin saved' \/ c \in saved
    BY <1>3 DEF AnswerInv, PlaceInv, Verdicts
  <2> QED
    BY <2>1 DEF AnswerInv, TruthInv, ResponsesAreTrue
<1>8. TruthInv'
  BY <1>1, <1>5, <1>6, <1>7 DEF TruthInv
<1> QED
  BY <1>4, <1>8 DEF AnswerInv

(***************************************************************************)
(* A server ends.  Whoever it held may hear something, but nobody who asked *)
(* for an evaluation hears a verdict.                                       *)
(***************************************************************************)
LEMMA EndAnswers ==
    ASSUME ServerInv, AnswerInv, NEW s \in Servers, NEW how \in Ended,
           End(s, how), saved' = saved,
           answer' \in [Clients -> {"none", "success", "error", "eof", "reset",
                                    "refused", "sigpipe", "killed"}],
           \A c \in Clients :
               \/ answer'[c] = answer[c]
               \/ /\ Holds(s, c)
                  /\ answer'[c] \in Verdicts => request[c].cmd # "evaluate"
    PROVE  AnswerInv'
<1> USE DEF clientVars
<1>1. /\ server'[s] = how /\ reply' = reply /\ client' = client /\ request' = request
      /\ \A t \in Servers \ {s} : server'[t] = server[t]
  BY DEF ServerInv, TypeOK, End
<1>2. /\ serving'[s] = None /\ backlog'[s] = <<>>
      /\ \A t \in Servers \ {s} : serving'[t] = serving[t] /\ backlog'[t] = backlog[t]
  BY DEF ServerInv, TypeOK, End
<1>3. \A t \in Servers \ {s} : Queued(t)' = Queued(t)
  BY <1>2 DEF Queued
<1>4. \A t \in Servers, c \in Clients : Holds(t, c)' => /\ t # s /\ Holds(t, c)
                                                        /\ answer'[c] = answer[c]
  BY EndHolds
<1>5. PlaceInv'
  <2>1. \A t \in Servers, c \in Clients :
            Holds(t, c)' => client'[c] # "idle" /\ answer'[c] \notin Verdicts
    BY <1>1, <1>4 DEF AnswerInv, PlaceInv
  <2>2. \A t, u \in Servers, c \in Clients : Holds(t, c)' /\ Holds(u, c)' => t = u
    BY <1>4 DEF AnswerInv, PlaceInv
  <2>3. ASSUME NEW t \in Servers, NEW c \in Clients, serving'[t] = c
        PROVE  c \notin Queued(t)'
    <3>1. t # s
      BY <1>2, <2>3, ServerAssumption
    <3> QED
      BY <1>2, <1>3, <2>3, <3>1 DEF AnswerInv, PlaceInv
  <2>4. \A t \in Servers : \A i, j \in 1..Len(backlog'[t]) :
            backlog'[t][i] = backlog'[t][j] => i = j
    BY <1>2 DEF AnswerInv, PlaceInv
  <2>5. \A c \in Clients : client'[c] = "idle" => answer'[c] = "none" /\ c \notin saved'
    BY <1>1 DEF AnswerInv, PlaceInv
  <2> QED
    BY <2>1, <2>2, <2>3, <2>4, <2>5 DEF PlaceInv
<1>6. TruthInv'
  <2>1. ResponsesAreTrue'
    <3> SUFFICES ASSUME NEW c \in Clients, request[c].cmd = "evaluate"
                 PROVE  /\ answer'[c] = "success" => c \in saved
                        /\ answer'[c] = "error" => c \notin saved
      BY <1>1 DEF ResponsesAreTrue
    <3>1. answer'[c] = answer[c] \/ answer'[c] \notin Verdicts
      OBVIOUS
    <3> QED
      BY <3>1 DEF AnswerInv, TruthInv, ResponsesAreTrue, Verdicts
  <2>2. \A t \in Servers, c \in Clients :
          Holds(t, c)' /\ c \in saved' /\ request'[c].cmd = "evaluate" =>
              serving'[t] = c /\ server'[t] = "answering" /\ reply'[t] = "success"
    BY <1>1, <1>2, <1>4 DEF AnswerInv, TruthInv
  <2>3. ASSUME NEW t \in Servers, NEW c \in Clients,
               server'[t] = "answering", serving'[t] = c,
               request'[c].cmd = "evaluate", reply'[t] = "success"
        PROVE  c \in saved'
    <3>1. t # s
      BY <1>1, <2>3 DEF Ended
    <3> QED
      BY <1>1, <1>2, <2>3, <3>1 DEF AnswerInv, TruthInv
  <2> QED
    BY <2>1, <2>2, <2>3 DEF TruthInv
<1> QED
  BY <1>5, <1>6 DEF AnswerInv

LEMMA HangupTells ==
    ASSUME ServerInv, NEW s \in Servers, Hangup(s)
    PROVE  \A c \in Clients :
               \/ answer'[c] = answer[c]
               \/ /\ Holds(s, c)
                  /\ answer'[c] \in Verdicts => request[c].cmd # "evaluate"
<1> SUFFICES ASSUME NEW c \in Clients, answer'[c] # answer[c]
             PROVE  Holds(s, c) /\ answer'[c] \in {"eof", "reset"}
  BY DEF Verdicts
<1> QED
  BY DEF Hangup, Holds

LEMMA AcceptAnswers ==
    ASSUME ServerInv, AnswerInv, NEW s \in Servers, Accept(s)
    PROVE  AnswerInv'
<1> USE DEF clientVars
<1> DEFINE q == backlog[s]
<1>1. /\ q \in Seq(Clients) /\ q # <<>> /\ server[s] = "accepting"
      /\ Head(q) \in Clients /\ Tail(q) \in Seq(Clients) /\ serving[s] = None
  <2>1. /\ q \in Seq(Clients) /\ q # <<>> /\ server[s] = "accepting"
        /\ Head(q) \in Clients /\ Tail(q) \in Seq(Clients)
    BY HeadTailProperties DEF ServerInv, TypeOK, Accept
  <2>2. serving[s] = None
    BY <2>1 DEF ServerInv, ServingInv, Handling, Stages
  <2> QED
    BY <2>1, <2>2
<1>2. /\ server'[s] = "receiving" /\ serving'[s] = Head(q) /\ backlog'[s] = Tail(q)
      /\ \A t \in Servers \ {s} : /\ server'[t] = server[t] /\ serving'[t] = serving[t]
                                  /\ backlog'[t] = backlog[t]
      /\ reply' = reply /\ saved' = saved /\ client' = client /\ request' = request
      /\ answer' = answer
  <2>1. /\ server \in [Servers -> {"off"} \cup Running \cup Ended]
        /\ serving \in [Servers -> Clients \cup {None}] /\ backlog \in [Servers -> Seq(Clients)]
    BY DEF ServerInv, TypeOK
  <2>2. /\ server' = [server EXCEPT ![s] = "receiving"]
        /\ serving' = [serving EXCEPT ![s] = Head(q)]
        /\ backlog' = [backlog EXCEPT ![s] = Tail(q)]
        /\ UNCHANGED <<reply, saved, client, request, answer>>
    BY DEF Accept
  <2> HIDE DEF q
  <2> QED
    BY <2>1, <2>2
<1>3. /\ Len(q) \in Nat /\ Len(Tail(q)) = Len(q) - 1 /\ Len(q) > 0
      /\ Head(q) = q[1]
      /\ \A i \in 1..Len(Tail(q)) : Tail(q)[i] = q[i+1] /\ i+1 \in 1..Len(q)
  <2>1. Len(q) \in Nat /\ Len(q) > 0
    BY <1>1
  <2>2. Len(Tail(q)) = Len(q) - 1 /\ Head(q) = q[1]
    BY <1>1
  <2>3. \A i \in 1..Len(Tail(q)) : Tail(q)[i] = q[i+1]
    BY <1>1
  <2> HIDE DEF q
  <2> QED
    BY <2>1, <2>2, <2>3
<1>4. \A i, j \in 1..Len(q) : q[i] = q[j] => i = j
  BY DEF AnswerInv, PlaceInv
<1>5. Queued(s)' = {Tail(q)[i] : i \in 1..Len(Tail(q))}
  BY <1>2 DEF Queued
<1>6. Head(q) \notin Queued(s)'
  <2> HIDE DEF q
  <2> QED
    BY <1>3, <1>4, <1>5
<1>8. \A i, j \in 1..Len(Tail(q)) : Tail(q)[i] = Tail(q)[j] => i = j
  <2> HIDE DEF q
  <2> QED
    BY <1>3, <1>4
<1> HIDE DEF q
<1>9. \A t \in Servers \ {s} : Queued(t)' = Queued(t)
  BY <1>2 DEF Queued
<1>10. \A t \in Servers, c \in Clients : Holds(t, c)' => Holds(t, c)
  BY AcceptHolds
<1>11. PlaceInv'
  <2>1. \A t \in Servers, c \in Clients : serving'[t] = c => c \notin Queued(t)'
    BY <1>2, <1>6, <1>9 DEF AnswerInv, PlaceInv
  <2>2. \A t \in Servers : \A i, j \in 1..Len(backlog'[t]) :
            backlog'[t][i] = backlog'[t][j] => i = j
    <3>1. backlog'[s] = Tail(q) /\ \A t \in Servers \ {s} : backlog'[t] = backlog[t]
      BY <1>2
    <3>2. \A t \in Servers : \A i, j \in 1..Len(backlog[t]) :
              backlog[t][i] = backlog[t][j] => i = j
      BY DEF AnswerInv, PlaceInv
    <3> QED
      BY <1>8, <3>1, <3>2
  <2> QED
    BY <1>2, <1>10, <2>1, <2>2 DEF AnswerInv, PlaceInv
<1>12. TruthInv'
  <2>1. \A t \in Servers, c \in Clients :
          Holds(t, c)' /\ c \in saved' /\ request'[c].cmd = "evaluate" =>
              serving'[t] = c /\ server'[t] = "answering" /\ reply'[t] = "success"
    BY <1>1, <1>2, <1>10 DEF AnswerInv, TruthInv
  <2>2. \A t \in Servers : \A c \in Clients :
          /\ server'[t] = "answering" /\ serving'[t] = c
          /\ request'[c].cmd = "evaluate" /\ reply'[t] = "success"
          => c \in saved'
    BY <1>2 DEF AnswerInv, TruthInv
  <2>3. ResponsesAreTrue'
    BY <1>2 DEF AnswerInv, TruthInv, ResponsesAreTrue
  <2> QED
    BY <2>1, <2>2, <2>3 DEF TruthInv
<1> QED
  BY <1>11, <1>12 DEF AnswerInv

(***************************************************************************)
(* The end of handle_client, with or without the response.                  *)
(***************************************************************************)
LEMMA BackAnswers ==
    ASSUME ServerInv, AnswerInv, NEW s \in Servers, serving[s] \in Clients,
           server' = [server EXCEPT ![s] = "accepting"],
           serving' = [serving EXCEPT ![s] = None],
           UNCHANGED <<path, met, backlog, reply, saved, clientVars, signals>>,
           \/ answer' = answer
           \/ /\ server[s] = "answering"
              /\ client[serving[s]] # "idle"
              /\ answer' = [answer EXCEPT ![serving[s]] = reply[s]]
    PROVE  AnswerInv'
<1> USE DEF clientVars
<1>1. /\ server'[s] = "accepting" /\ serving'[s] = None
      /\ \A t \in Servers \ {s} : server'[t] = server[t] /\ serving'[t] = serving[t]
      /\ \A c \in Clients \ {serving[s]} : answer'[c] = answer[c]
      /\ answer'[serving[s]] \in {answer[serving[s]], reply[s]}
      /\ answer'[serving[s]] # answer[serving[s]] => server[s] = "answering"
  BY DEF ServerInv, TypeOK
<1>2. \A t \in Servers : Queued(t)' = Queued(t)
  BY DEF Queued
<1>3. \A t \in Servers, c \in Clients : Holds(t, c)' => Holds(t, c) /\ c # serving[s]
  BY BackHolds
<1>4. PlaceInv'
  <2>1. \A t \in Servers, c \in Clients :
            Holds(t, c)' => client[c] # "idle" /\ answer'[c] \notin Verdicts
    BY <1>1, <1>3 DEF AnswerInv, PlaceInv
  <2>2. \A t, u \in Servers, c \in Clients : Holds(t, c)' /\ Holds(u, c)' => t = u
    BY <1>3 DEF AnswerInv, PlaceInv
  <2>3. \A t \in Servers, c \in Clients : serving'[t] = c => c \notin Queued(t)'
    BY <1>1, <1>2, ServerAssumption DEF AnswerInv, PlaceInv
  <2>4. client[serving[s]] # "idle"
    BY DEF AnswerInv, PlaceInv, Holds
  <2>5. \A c \in Clients : client[c] = "idle" => answer'[c] = "none" /\ c \notin saved
    BY <1>1, <2>4 DEF AnswerInv, PlaceInv
  <2> QED
    BY <2>1, <2>2, <2>3, <2>5 DEF AnswerInv, PlaceInv
<1>5. TruthInv'
  <2>1. \A t \in Servers, c \in Clients :
          Holds(t, c)' /\ c \in saved /\ request[c].cmd = "evaluate" =>
              serving'[t] = c /\ server'[t] = "answering" /\ reply[t] = "success"
    <3> SUFFICES ASSUME NEW t \in Servers, NEW c \in Clients,
                        Holds(t, c)', c \in saved, request[c].cmd = "evaluate"
                 PROVE  serving'[t] = c /\ server'[t] = "answering" /\ reply[t] = "success"
      OBVIOUS
    <3>1. serving[t] = c /\ server[t] = "answering" /\ reply[t] = "success" /\ c # serving[s]
      BY <1>3 DEF AnswerInv, TruthInv
    <3> QED
      BY <3>1, <1>1
  <2>2. \A t \in Servers : \A c \in Clients :
          /\ server'[t] = "answering" /\ serving'[t] = c
          /\ request[c].cmd = "evaluate" /\ reply[t] = "success"
          => c \in saved
    BY <1>1 DEF AnswerInv, TruthInv
  <2>3. ResponsesAreTrue'
    <3>1. ASSUME request[serving[s]].cmd = "evaluate", server[s] = "answering"
          PROVE  /\ reply[s] = "success" => serving[s] \in saved
                 /\ reply[s] = "error" => serving[s] \notin saved
      BY <3>1 DEF AnswerInv, TruthInv, Holds
    <3> QED
      BY <1>1, <3>1 DEF AnswerInv, TruthInv, ResponsesAreTrue
  <2> QED
    BY <2>1, <2>2, <2>3 DEF TruthInv
<1> QED
  BY <1>4, <1>5 DEF AnswerInv

(***************************************************************************)
(* The steps of a client.                                                   *)
(***************************************************************************)
LEMMA ClientAnswers ==
    ASSUME ServerInv, AnswerInv, NEW c \in Clients,
           NEW at \in {"connected", "waiting", "exited"},
           client' = [client EXCEPT ![c] = at],
           UNCHANGED <<serverVars, request>>,
           \A d \in Clients \ {c} : answer'[d] = answer[d],
           answer'[c] = answer[c] \/ answer'[c] \notin Verdicts
    PROVE  AnswerInv'
<1> USE DEF serverVars
<1>1. /\ \A t \in Servers, d \in Clients : Holds(t, d)' = Holds(t, d)
      /\ \A t \in Servers : Queued(t)' = Queued(t)
  BY DEF Holds, Queued
<1>2. client'[c] # "idle" /\ \A d \in Clients \ {c} : client'[d] = client[d]
  BY DEF ServerInv, TypeOK
<1>3. PlaceInv'
  BY <1>1, <1>2 DEF AnswerInv, PlaceInv
<1>4. ResponsesAreTrue'
  BY DEF AnswerInv, TruthInv, ResponsesAreTrue, Verdicts
<1>5. TruthInv'
  BY <1>1, <1>4 DEF AnswerInv, TruthInv
<1> QED
  BY <1>3, <1>5 DEF AnswerInv

LEMMA ConnectAnswers ==
    ASSUME ServerInv, AnswerInv, NEW c \in Clients, Connect(c)
    PROVE  AnswerInv'
<1> DEFINE q == backlog[path]
<1>1. path \in Servers /\ server[path] \in Listening /\ q \in Seq(Clients)
  BY DEF Connect, Reachable, ServerInv, TypeOK
<1>2. /\ Len(q) \in Nat
      /\ Len(Append(q, c)) = Len(q) + 1 /\ Append(q, c)[Len(q) + 1] = c
      /\ \A i \in 1..Len(q) : Append(q, c)[i] = q[i]
  BY <1>1
<1>3. /\ backlog'[path] = Append(q, c)
      /\ \A t \in Servers \ {path} : backlog'[t] = backlog[t]
      /\ client[c] = "idle" /\ client'[c] = "connected"
      /\ \A d \in Clients \ {c} : client'[d] = client[d]
      /\ UNCHANGED <<path, server, met, serving, reply, saved, request, answer>>
  BY <1>1 DEF Connect, ServerInv, TypeOK
<1>4. /\ answer[c] = "none" /\ c \notin saved
      /\ \A t \in Servers : ~ Holds(t, c)
  BY <1>3 DEF AnswerInv, PlaceInv
<1>5. Queued(path)' = Queued(path) \cup {c}
  <2>1. Queued(path)' = {Append(q, c)[i] : i \in 1..Len(q) + 1}
    BY <1>2, <1>3 DEF Queued
  <2>2. Queued(path) = {q[i] : i \in 1..Len(q)}
    BY DEF Queued
  <2> HIDE DEF q
  <2> QED
    BY <1>2, <2>1, <2>2
<1>6. \A t \in Servers \ {path} : Queued(t)' = Queued(t)
  BY <1>3 DEF Queued
<1>7. \A t \in Servers, d \in Clients :
          Holds(t, d)' => Holds(t, d) \/ (t = path /\ d = c /\ serving[t] # d)
  BY <1>3, <1>4, <1>5, <1>6 DEF Holds
<1>8. \A i, j \in 1..Len(q) + 1 : Append(q, c)[i] = Append(q, c)[j] => i = j
  <2>1. \A i, j \in 1..Len(q) : q[i] = q[j] => i = j
    BY <1>1 DEF AnswerInv, PlaceInv
  <2>2. \A i \in 1..Len(q) : q[i] # c
    BY <1>1, <1>4 DEF Holds, Queued
  <2> HIDE DEF q
  <2> QED
    BY <1>2, <2>1, <2>2
<1> HIDE DEF q
<1>9. PlaceInv'
  <2>1. \A t \in Servers, d \in Clients :
            Holds(t, d)' => client'[d] # "idle" /\ answer'[d] \notin Verdicts
    BY <1>3, <1>4, <1>7 DEF AnswerInv, PlaceInv, Verdicts
  <2>2. \A t, u \in Servers, d \in Clients : Holds(t, d)' /\ Holds(u, d)' => t = u
    BY <1>4, <1>7 DEF AnswerInv, PlaceInv
  <2>3. \A t \in Servers, d \in Clients : serving'[t] = d => d \notin Queued(t)'
    BY <1>3, <1>4, <1>5, <1>6 DEF AnswerInv, PlaceInv, Holds
  <2>4. \A t \in Servers : \A i, j \in 1..Len(backlog'[t]) :
            backlog'[t][i] = backlog'[t][j] => i = j
    <3>1. \A i, j \in 1..Len(backlog'[path]) : backlog'[path][i] = backlog'[path][j] => i = j
      BY <1>2, <1>3, <1>8
    <3> QED
      BY <1>3, <3>1 DEF AnswerInv, PlaceInv
  <2>5. \A d \in Clients : client'[d] = "idle" => answer'[d] = "none" /\ d \notin saved'
    BY <1>3 DEF AnswerInv, PlaceInv
  <2> QED
    BY <2>1, <2>2, <2>3, <2>4, <2>5 DEF PlaceInv
<1>10. TruthInv'
  <2>1. \A t \in Servers, d \in Clients :
          Holds(t, d)' /\ d \in saved' /\ request'[d].cmd = "evaluate" =>
              serving'[t] = d /\ server'[t] = "answering" /\ reply'[t] = "success"
    BY <1>3, <1>4, <1>7 DEF AnswerInv, TruthInv
  <2>2. ResponsesAreTrue'
    BY <1>3 DEF AnswerInv, TruthInv, ResponsesAreTrue
  <2> QED
    BY <1>3, <2>1, <2>2 DEF AnswerInv, TruthInv
<1> QED
  BY <1>9, <1>10 DEF AnswerInv
-----------------------------------------------------------------------------
(***************************************************************************)
(* One lemma per kind of process.                                           *)
(***************************************************************************)
LEMMA ServerAnswers ==
    ASSUME ServerInv, AnswerInv, NEW s \in Servers,
           Start(s) \/ ServerStep(s) \/ Signal(s)
    PROVE  AnswerInv'
<1>r. reply[s] \in {"none", "success", "error"} /\ reply = [reply EXCEPT ![s] = reply[s]]
  BY DEF ServerInv, TypeOK
<1>s. server[s] \in Handling => serving[s] \in Clients
  BY DEF ServerInv, ServingInv
<1>1. CASE Start(s) \/ Bind(s) \/ Listen(s) \/ Evaluate(s)
  <2>1. PICK at \in {"starting", "bound", "failed", "accepting", "mapping"} :
            server' = [server EXCEPT ![s] = at]
    BY <1>1 DEF Start, Starting, Bind, Listen, Evaluate
  <2>2. /\ UNCHANGED <<backlog, serving, reply, saved, clientVars, answer>>
        /\ server[s] # "answering"
    BY <1>1 DEF Start, Starting, Bind, Listen, Evaluate
  <2> QED
    BY <2>1, <2>2, <1>r, QuietAnswers
<1>2. CASE Accept(s)
  BY <1>2, AcceptAnswers
<1>3. CASE ReceiveNothing(s)
  <2>1. server[s] = "receiving"
    BY <1>3 DEF ReceiveNothing
  <2> QED
    BY <2>1, <1>3, <1>s, BackAnswers DEF ReceiveNothing, Handling
<1>4. CASE Receive(s)
  <2>1. /\ server[s] # "answering"
        /\ UNCHANGED <<backlog, serving, saved, clientVars, answer>>
        /\ \/ server' = [server EXCEPT ![s] = "loading"] /\ reply' = reply
           \/ Reply(s, "success") /\ request[serving[s]].cmd # "evaluate"
           \/ Reply(s, "error")
    BY <1>4 DEF Receive
  <2>2. CASE server' = [server EXCEPT ![s] = "loading"] /\ reply' = reply
    BY <2>1, <2>2, <1>r, QuietAnswers
  <2>3. CASE Reply(s, "success") /\ request[serving[s]].cmd # "evaluate"
    BY <2>1, <2>3, QuietAnswers DEF Reply
  <2>4. CASE Reply(s, "error")
    BY <2>1, <2>4, QuietAnswers DEF Reply
  <2> QED
    BY <2>1, <2>2, <2>3, <2>4
<1>5. ASSUME NEW at \in {"loading", "building", "mapping"},
             NEW next \in {"building", "evaluating", "saving"},
             NEW failure, Stage(s, at, failure, next)
      PROVE  AnswerInv'
  <2>1. /\ server[s] # "answering"
        /\ UNCHANGED <<backlog, serving, saved, clientVars, answer>>
        /\ \/ server' = [server EXCEPT ![s] = next] /\ reply' = reply
           \/ Reply(s, "error")
    BY <1>5 DEF Stage
  <2>2. CASE server' = [server EXCEPT ![s] = next] /\ reply' = reply
    BY <2>1, <2>2, <1>r, QuietAnswers
  <2>3. CASE Reply(s, "error")
    BY <2>1, <2>3, QuietAnswers DEF Reply
  <2> QED
    BY <2>1, <2>2, <2>3
<1>6. CASE Load(s) \/ Build(s) \/ Map(s)
  BY <1>5, <1>6 DEF Load, Build, Map
<1>7. CASE Save(s)
  <2>1. /\ server[s] = "saving" /\ Reply(s, "success")
        /\ saved' = saved \cup {serving[s]}
        /\ UNCHANGED <<backlog, serving, clientVars, answer>>
    BY <1>7 DEF Save
  <2>2. serving[s] \in Clients /\ serving[s] \in saved' /\ server[s] # "answering"
    BY <2>1, <1>s DEF Handling, Stages
  <2> QED
    BY <2>1, <2>2, QuietAnswers DEF Reply
<1>8. CASE EvaluateAborts(s) \/ SaveAborts(s) \/ BrokenPipe(s) \/ Signal(s)
  <2>1. PICK how \in Ended : End(s, how)
    BY <1>8 DEF EvaluateAborts, SaveAborts, BrokenPipe, Signal, Crash, CleanExit, Ended
  <2>2. Hangup(s) /\ saved' = saved
    BY <1>8 DEF EvaluateAborts, SaveAborts, BrokenPipe, Signal, Crash, CleanExit
  <2>3. answer' \in [Clients -> {"none", "success", "error", "eof", "reset",
                                 "refused", "sigpipe", "killed"}]
    BY <2>2, HangupAnswers
  <2> QED
    BY <2>1, <2>2, <2>3, HangupTells, EndAnswers
<1>9. CASE Answer(s)
  <2>1. server[s] = "answering"
    BY <1>9 DEF Answer
  <2>2. client[serving[s]] # "idle"
    BY <2>1, <1>s DEF AnswerInv, PlaceInv, Holds, Handling
  <2> QED
    BY <2>1, <2>2, <1>9, <1>s, BackAnswers DEF Answer, Handling
<1>10. CASE Shutdown(s)
  <2>1. /\ End(s, "exited") /\ saved' = saved
        /\ server[s] = "answering" /\ request[serving[s]].cmd = "shutdown"
        /\ answer' = [c \in Clients |->
                IF c = serving[s] THEN reply[s]
                ELSE IF c \in Queued(s) /\ answer[c] = "none" THEN "reset" ELSE answer[c]]
    BY <1>10 DEF Shutdown, CleanExit
  <2>2. answer' \in [Clients -> {"none", "success", "error", "eof", "reset",
                                 "refused", "sigpipe", "killed"}]
    BY <2>1, <1>r DEF ServerInv, TypeOK
  <2>3. \A c \in Clients :
            \/ answer'[c] = answer[c]
            \/ /\ Holds(s, c)
               /\ answer'[c] \in Verdicts => request[c].cmd # "evaluate"
    BY <2>1 DEF Holds, Verdicts
  <2> QED
    BY <2>1, <2>2, <2>3, EndAnswers DEF Ended
<1> QED
  BY <1>1, <1>2, <1>3, <1>4, <1>6, <1>7, <1>8, <1>9, <1>10 DEF ServerStep

LEMMA ClientsAnswers ==
    ASSUME ServerInv, AnswerInv, NEW c \in Clients, ClientStep(c) \/ Killed(c)
    PROVE  AnswerInv'
<1>1. CASE Connect(c)
  BY <1>1, ConnectAnswers
<1>2. CASE ConnectRefused(c) \/ SendFails(c) \/ Killed(c)
  <2>1. PICK a \in {"refused", "sigpipe", "killed"} : answer' = [answer EXCEPT ![c] = a]
    BY <1>2 DEF ConnectRefused, SendFails, Killed
  <2>2. client' = [client EXCEPT ![c] = "exited"] /\ UNCHANGED <<serverVars, request>>
    BY <1>2 DEF ConnectRefused, SendFails, Killed, Exit
  <2>3. answer'[c] = a /\ \A d \in Clients \ {c} : answer'[d] = answer[d]
    BY <2>1 DEF ServerInv, TypeOK
  <2> QED
    BY <2>2, <2>3, ClientAnswers DEF Verdicts
<1>3. CASE Send(c) \/ Recv(c)
  <2>1. PICK at \in {"waiting", "exited"} : client' = [client EXCEPT ![c] = at]
    BY <1>3 DEF Send, Recv, Exit
  <2>2. UNCHANGED <<serverVars, request, answer>>
    BY <1>3 DEF Send, Recv
  <2> QED
    BY <2>1, <2>2, ClientAnswers
<1> QED
  BY <1>1, <1>2, <1>3 DEF ClientStep

LEMMA NextAnswerInv == ServerInv /\ AnswerInv /\ [Next]_vars => AnswerInv'
<1> SUFFICES ASSUME ServerInv, AnswerInv, [Next]_vars PROVE AnswerInv'
  OBVIOUS
<1>1. CASE UNCHANGED vars
  <2> USE <1>1 DEF vars
  <2>1. \A t \in Servers, c \in Clients : Holds(t, c)' = Holds(t, c)
    BY DEF Holds, Queued
  <2>2. \A t \in Servers : Queued(t)' = Queued(t)
    BY DEF Queued
  <2>3. PlaceInv'
    BY <2>1, <2>2 DEF AnswerInv, PlaceInv
  <2>4. TruthInv'
    BY <2>1 DEF AnswerInv, TruthInv, ResponsesAreTrue
  <2> QED
    BY <2>3, <2>4 DEF AnswerInv
<1>2. CASE Next
  BY <1>2, ServerAnswers, ClientsAnswers DEF Next
<1> QED
  BY <1>1, <1>2

(***************************************************************************)
(* A client that is told "success" for an evaluation has its file, and one  *)
(* that is told "error" has none, for any number of processes and requests. *)
(***************************************************************************)
THEOREM ResponsesAreAlwaysTrue == Spec => []ResponsesAreTrue
<1>1. AnswerInv => ResponsesAreTrue
  BY DEF AnswerInv, TruthInv
<1> QED
  BY <1>1, InitInv, NextInv, InitAnswerInv, NextAnswerInv, PTL DEF Spec
-----------------------------------------------------------------------------
(* Why a start fails.  StartInv follows the file: it is of a server that    *)
(* has bound it and did not exit since; servers that run at the same time   *)
(* are on record as that; and a server that finds a file where it wants to  *)
(* bind has met the one whose it is, or may not remove what that one left.  *)

MayFind(s, t) == <<s, t>> \in met \/ (server[t] = "crashed" /\ <<s, t>> \notin MayUnlink)

LostTo(s, t) == <<s, t>> \in met /\ <<t, s>> \in MayUnlink

Finds(s) == server[s] = "starting" /\ path # None => MayFind(s, path)

StartInv ==
    /\ \A s, t \in Servers :
          s # t /\ server[s] \in Running /\ server[t] \in Running => <<s, t>> \in met
    /\ path # None => server[path] \in {"bound", "crashed"} \cup Listening
    /\ \A s \in Servers : Finds(s)
    /\ \A s \in Servers : server[s] \in {"bound"} \cup Listening =>
          path = s \/ \E t \in Servers : LostTo(s, t)
    /\ \A s \in Servers : server[s] = "failed" => \E t \in Servers : MayFind(s, t)

\* A step that records no meeting, and after which the file is where it was.
LEMMA RunningStep ==
    ASSUME ServerInv, StartInv, NEW s \in Servers, server[s] \in {"bound"} \cup Listening,
           NEW at \in Listening \cup {"crashed"},
           server' = [server EXCEPT ![s] = at], path' = path, met' = met
    PROVE  StartInv'
<1> USE DEF Running, Listening, Stages
<1>1. server'[s] = at /\ \A t \in Servers \ {s} : server'[t] = server[t]
  BY DEF ServerInv, TypeOK
<1>2. path \in Servers \cup {None}
  BY DEF ServerInv, TypeOK
<1>3. \A r, t \in Servers : MayFind(r, t) => MayFind(r, t)'
  BY <1>1 DEF MayFind
<1>4. \A r, t \in Servers : LostTo(r, t) => LostTo(r, t)'
  BY DEF LostTo
<1>5. \A r, t \in Servers :
          r # t /\ server'[r] \in Running /\ server'[t] \in Running => <<r, t>> \in met
  BY <1>1 DEF StartInv
<1>6. path' # None => server'[path'] \in {"bound", "crashed"} \cup Listening
  BY <1>1, <1>2 DEF StartInv
<1>7. \A r \in Servers : Finds(r)'
  BY <1>1, <1>2, <1>3 DEF StartInv, Finds
<1>8. \A r \in Servers : server'[r] \in {"bound"} \cup Listening =>
          path' = r \/ \E t \in Servers : LostTo(r, t)'
  BY <1>1, <1>4 DEF StartInv
<1>9. \A r \in Servers : server'[r] = "failed" => \E t \in Servers : MayFind(r, t)'
  BY <1>1, <1>3 DEF StartInv
<1> QED
  BY <1>5, <1>6, <1>7, <1>8, <1>9 DEF StartInv

\* unlink, by a server that starts or exits.
LEMMA UnlinkStep ==
    ASSUME ServerInv, StartInv, NEW s \in Servers, Unlink(s),
           NEW at \in {"starting", "exited"},
           server' = [server EXCEPT ![s] = at],
           met \subseteq met',
           \A t \in Servers \ {s} : server[t] \in Running => <<s, t>> \in met' /\ <<t, s>> \in met',
           at = "starting" => server[s] = "off",
           at = "exited" => server[s] \in Running
    PROVE  StartInv'
<1> USE DEF Running, Listening, Stages
<1>1. server'[s] = at /\ \A t \in Servers \ {s} : server'[t] = server[t]
  BY DEF ServerInv, TypeOK
<1>2. path \in Servers \cup {None} /\ None \notin Servers
  BY ServerAssumption DEF ServerInv, TypeOK
<1>3. \/ path' = path /\ (path # None => <<s, path>> \notin MayUnlink)
      \/ path # None /\ path' = None /\ <<s, path>> \in MayUnlink
  BY DEF Unlink
<1>4. path' # s
  <2>1. <<s, s>> \in MayUnlink
    BY ServerAssumption
  <2> QED
    BY <1>2, <1>3, <2>1
<1>5. \A r, t \in Servers : MayFind(r, t) => MayFind(r, t)'
  BY <1>1 DEF MayFind
<1>6. \A r, t \in Servers : LostTo(r, t) => LostTo(r, t)'
  BY DEF LostTo
<1>7. \A r, t \in Servers :
          r # t /\ server'[r] \in Running /\ server'[t] \in Running => <<r, t>> \in met'
  BY <1>1 DEF StartInv
<1>8. path' # None => server'[path'] \in {"bound", "crashed"} \cup Listening
  BY <1>1, <1>2, <1>3, <1>4 DEF StartInv
<1>9. \A r \in Servers : Finds(r)'
  <2> SUFFICES ASSUME NEW r \in Servers, server'[r] = "starting", path' # None
               PROVE  MayFind(r, path)'
    BY DEF Finds
  <2>1. path' = path /\ path \in Servers \ {s} /\ <<s, path>> \notin MayUnlink
    BY <1>2, <1>3, <1>4
  <2>2. CASE r = s
    <3>1. server[path] \in {"bound", "crashed"} \cup Listening /\ server'[path] = server[path]
      BY <1>1, <2>1, <1>2 DEF StartInv
    <3> QED
      BY <2>1, <2>2, <3>1 DEF MayFind
  <2>3. CASE r # s
    <3>1. MayFind(r, path)
      BY <1>1, <1>2, <2>1, <2>3 DEF StartInv, Finds
    <3> QED
      BY <1>5, <2>1, <3>1
  <2> QED
    BY <2>2, <2>3
<1>10. \A r \in Servers : server'[r] \in {"bound"} \cup Listening =>
          path' = r \/ \E t \in Servers : LostTo(r, t)'
  <2> SUFFICES ASSUME NEW r \in Servers, server'[r] \in {"bound"} \cup Listening
               PROVE  path' = r \/ \E t \in Servers : LostTo(r, t)'
    OBVIOUS
  <2>1. r # s /\ server[r] \in {"bound"} \cup Listening
    BY <1>1
  <2>2. CASE path = r
    <3>1. CASE path' = path
      BY <2>2, <3>1
    <3>2. CASE path' # path
      BY <1>3, <2>1, <2>2, <3>2 DEF LostTo
    <3> QED
      BY <3>1, <3>2
  <2>3. CASE path # r
    BY <1>6, <2>1, <2>3 DEF StartInv
  <2> QED
    BY <2>2, <2>3
<1>11. \A r \in Servers : server'[r] = "failed" => \E t \in Servers : MayFind(r, t)'
  BY <1>1, <1>5 DEF StartInv
<1> QED
  BY <1>7, <1>8, <1>9, <1>10, <1>11 DEF StartInv

\* bind.
LEMMA BindStep ==
    ASSUME ServerInv, StartInv, NEW s \in Servers, Bind(s)
    PROVE  StartInv'
<1> USE DEF Running, Listening, Stages
<1>1. /\ server[s] = "starting" /\ met' = met
      /\ \/ path = None /\ path' = s /\ server' = [server EXCEPT ![s] = "bound"]
         \/ path # None /\ path' = path /\ server' = [server EXCEPT ![s] = "failed"]
  BY DEF Bind
<1>2. /\ server'[s] = (IF path = None THEN "bound" ELSE "failed")
      /\ \A t \in Servers \ {s} : server'[t] = server[t]
  BY <1>1 DEF ServerInv, TypeOK
<1>3. path \in Servers \cup {None} /\ None \notin Servers
  BY ServerAssumption DEF ServerInv, TypeOK
<1>4. \A r, t \in Servers : MayFind(r, t) => MayFind(r, t)'
  BY <1>1, <1>2 DEF MayFind
<1>5. \A r, t \in Servers : LostTo(r, t) => LostTo(r, t)'
  BY <1>1 DEF LostTo
<1>6. \A r, t \in Servers :
          r # t /\ server'[r] \in Running /\ server'[t] \in Running => <<r, t>> \in met'
  BY <1>1, <1>2 DEF StartInv
<1>7. path' # None => server'[path'] \in {"bound", "crashed"} \cup Listening
  BY <1>1, <1>2, <1>3 DEF StartInv
<1>8. \A r \in Servers : Finds(r)'
  <2> SUFFICES ASSUME NEW r \in Servers, server'[r] = "starting", path' # None
               PROVE  MayFind(r, path)'
    BY DEF Finds
  <2>1. r # s /\ server[r] = "starting"
    BY <1>2
  <2>2. CASE path = None
    BY <1>1, <1>6, <1>2, <2>1, <2>2 DEF MayFind
  <2>3. CASE path # None
    <3>1. path' = path /\ MayFind(r, path)
      BY <1>1, <2>1, <2>3 DEF StartInv, Finds
    <3> QED
      BY <1>3, <1>4, <2>3, <3>1
  <2> QED
    BY <2>2, <2>3
<1>9. \A r \in Servers : server'[r] \in {"bound"} \cup Listening =>
          path' = r \/ \E t \in Servers : LostTo(r, t)'
  <2> SUFFICES ASSUME NEW r \in Servers, server'[r] \in {"bound"} \cup Listening
               PROVE  path' = r \/ \E t \in Servers : LostTo(r, t)'
    OBVIOUS
  <2>1. CASE r = s
    BY <1>1, <1>2, <2>1
  <2>2. CASE r # s
    BY <1>1, <1>2, <1>3, <1>5, <2>2 DEF StartInv
  <2> QED
    BY <2>1, <2>2
<1>10. \A r \in Servers : server'[r] = "failed" => \E t \in Servers : MayFind(r, t)'
  <2> SUFFICES ASSUME NEW r \in Servers, server'[r] = "failed"
               PROVE  \E t \in Servers : MayFind(r, t)'
    OBVIOUS
  <2>1. CASE r = s
    <3>1. path \in Servers /\ MayFind(s, path)
      BY <1>1, <1>2, <1>3, <2>1 DEF StartInv, Finds
    <3> QED
      BY <1>4, <2>1, <3>1
  <2>2. CASE r # s
    BY <1>2, <1>4, <2>2 DEF StartInv
  <2> QED
    BY <2>1, <2>2
<1> QED
  BY <1>6, <1>7, <1>8, <1>9, <1>10 DEF StartInv

LEMMA NextStartInv ==
    ASSUME ServerInv, StartInv, [Next]_vars
    PROVE  StartInv'
<1> USE DEF Running, Listening, Stages
<1>1. CASE UNCHANGED vars
  BY <1>1 DEF vars, StartInv, Finds, MayFind, LostTo
<1>2. ASSUME NEW s \in Servers, Start(s) PROVE StartInv'
  <2>1. /\ Unlink(s) /\ server[s] = "off" /\ server' = [server EXCEPT ![s] = "starting"]
        /\ met' = met \cup ({s} \X Alive) \cup (Alive \X {s})
    BY <1>2 DEF Start, Starting
  <2>2. /\ met \subseteq met'
        /\ \A t \in Servers \ {s} : server[t] \in Running =>
              <<s, t>> \in met' /\ <<t, s>> \in met'
    BY <2>1 DEF Alive
  <2> QED
    BY <2>1, <2>2, UnlinkStep
<1>3. ASSUME NEW s \in Servers, Bind(s) PROVE StartInv'
  BY <1>3, BindStep
<1>4. ASSUME NEW s \in Servers,
             \/ Listen(s) \/ Accept(s) \/ ReceiveNothing(s) \/ Receive(s)
             \/ Load(s) \/ Build(s) \/ Evaluate(s) \/ Map(s) \/ Save(s) \/ Answer(s)
      PROVE  StartInv'
  <2>1. PICK at \in Listening : server' = [server EXCEPT ![s] = at]
    BY <1>4 DEF Listen, Accept, ReceiveNothing, Receive, Load, Build, Stage, Evaluate,
                Map, Save, Answer, Reply
  <2>2. path' = path /\ met' = met /\ server[s] \in {"bound"} \cup Listening
    BY <1>4 DEF Listen, Accept, ReceiveNothing, Receive, Load, Build, Stage, Evaluate,
                Map, Save, Answer
  <2> QED
    BY <2>1, <2>2, RunningStep
<1>5. ASSUME NEW s \in Servers, EvaluateAborts(s) \/ SaveAborts(s) \/ BrokenPipe(s)
      PROVE  StartInv'
  <2>1. /\ server' = [server EXCEPT ![s] = "crashed"] /\ path' = path /\ met' = met
        /\ server[s] \in Listening
    BY <1>5 DEF EvaluateAborts, SaveAborts, BrokenPipe, Crash, End
  <2> QED
    BY <2>1, RunningStep
<1>6. ASSUME NEW s \in Servers, Shutdown(s) \/ Signal(s) PROVE StartInv'
  <2>1. /\ server' = [server EXCEPT ![s] = "exited"] /\ Unlink(s) /\ met' = met
        /\ server[s] \in Running
    BY <1>6 DEF Shutdown, Signal, CleanExit, End
  <2>2. \A t \in Servers \ {s} : server[t] \in Running => <<s, t>> \in met /\ <<t, s>> \in met
    BY <2>1 DEF StartInv
  <2> QED
    BY <2>1, <2>2, UnlinkStep
<1>7. ASSUME NEW c \in Clients, ClientStep(c) \/ Killed(c) PROVE StartInv'
  <2>1. path' = path /\ server' = server /\ met' = met
    BY <1>7 DEF ClientStep, Killed, Connect, ConnectRefused, Send, SendFails, Recv, serverVars
  <2> QED
    BY <2>1 DEF StartInv, Finds, MayFind, LostTo
<1> QED
  BY <1>1, <1>2, <1>3, <1>4, <1>5, <1>6, <1>7 DEF Next, ServerStep

(***************************************************************************)
(* For any number of servers, run by anybody and ending in any way: a start *)
(* fails only next to a server that ran at the same time, or on the file of *)
(* a crashed one that may not be removed; and only a server that ran at the *)
(* same time takes the file of one that listens away.                       *)
(***************************************************************************)
THEOREM FailedStartsAlwaysHaveACause == Spec => []FailedStartsHaveACause
<1> USE DEF Running, Listening, Stages
<1>1. Init => StartInv
  BY DEF Init, StartInv, Finds
<1>2. ServerInv /\ StartInv /\ [Next]_vars => StartInv'
  BY NextStartInv
<1>3. StartInv => FailedStartsHaveACause
  <2> SUFFICES ASSUME StartInv PROVE FailedStartsHaveACause
    OBVIOUS
  <2>1. \A s \in Servers : server[s] = "exited" => path # s
    BY ServerAssumption DEF StartInv
  <2> QED
    BY <2>1 DEF StartInv, FailedStartsHaveACause, MayFind, LostTo
<1> QED
  BY <1>1, <1>2, <1>3, InitInv, NextInv, PTL DEF Spec
-----------------------------------------------------------------------------
(***************************************************************************)
(* Why a server crashes.  CauseInv says what is known of a client that is   *)
(* held: it is still there, or it was killed and stays on record as that;   *)
(* and a server that is past recv has a request that was sent.              *)
(***************************************************************************)
Past == Stages \cup {"answering"}

CauseInv ==
    /\ \A s \in Servers, c \in Clients : Holds(s, c) =>
          /\ answer[c] \in {"none", "killed"}
          /\ client[c] = "exited" => answer[c] = "killed"
    /\ \A c \in Clients : answer[c] = "killed" => client[c] = "exited"
    /\ \A s \in Servers : server[s] \in Past => sent[serving[s]]
    /\ \A s \in Servers : server[s] \in Stages => request[serving[s]].cmd = "evaluate"
    /\ CrashesHaveACause

Cause(c) ==
    /\ sent[c]
    /\ \/ answer[c] = "killed"
       \/ request[c].cmd = "evaluate" /\ request[c].fails \in {"evaluate", "save"}

\* A step of one server.
LEMMA ServerStepCauses ==
    ASSUME ServerInv, AnswerInv, CauseInv, NEW s \in Servers, NEW at,
           server' = [server EXCEPT ![s] = at],
           UNCHANGED clientVars,
           \A t \in Servers, c \in Clients : Holds(t, c)' => Holds(t, c),
           \A c \in Clients :
               \/ answer'[c] = answer[c]
               \/ /\ answer[c] = "none" /\ answer'[c] # "killed"
                  /\ \A t \in Servers : ~ Holds(t, c)',
           \A t \in Servers \ {s} : serving'[t] = serving[t],
           at \in Past => serving'[s] = serving[s] /\ sent[serving[s]],
           at \in Stages => request[serving[s]].cmd = "evaluate",
           at = "crashed" => \E c \in Clients : Cause(c)
    PROVE  CauseInv'
<1> USE DEF clientVars
<1>1. server'[s] = at /\ \A t \in Servers \ {s} : server'[t] = server[t]
  BY DEF ServerInv, TypeOK
<1>2. \A c \in Clients : answer'[c] = "killed" <=> answer[c] = "killed"
  OBVIOUS
<1>3. \A t \in Servers, c \in Clients : Holds(t, c)' =>
          /\ answer'[c] \in {"none", "killed"}
          /\ client[c] = "exited" => answer'[c] = "killed"
  BY DEF CauseInv
<1>4. \A t \in Servers : server'[t] \in Past => sent[serving'[t]]
  BY <1>1 DEF CauseInv
<1>5. \A t \in Servers : server'[t] \in Stages => request[serving'[t]].cmd = "evaluate"
  BY <1>1 DEF CauseInv, Past
<1>6. CrashesHaveACause'
  <2> SUFFICES ASSUME NEW t \in Servers, server'[t] = "crashed"
               PROVE  \E c \in Clients : Cause(c)'
    BY DEF CrashesHaveACause, Cause
  <2>1. \E c \in Clients : Cause(c)
    <3>1. CASE t = s
      BY <1>1, <3>1
    <3>2. CASE t # s
      BY <1>1, <3>2 DEF CauseInv, CrashesHaveACause, Cause
    <3> QED
      BY <3>1, <3>2
  <2> QED
    BY <1>2, <2>1 DEF Cause
<1>7. \A c \in Clients : answer'[c] = "killed" => client[c] = "exited"
  BY <1>2 DEF CauseInv
<1> QED
  BY <1>3, <1>4, <1>5, <1>6, <1>7 DEF CauseInv

LEMMA ServerCauses ==
    ASSUME ServerInv, AnswerInv, CauseInv, NEW s \in Servers,
           Start(s) \/ ServerStep(s) \/ Signal(s)
    PROVE  CauseInv'
<1>r. server[s] \in Handling => serving[s] \in Clients /\ Holds(s, serving[s])
  BY DEF ServerInv, ServingInv, Holds
<1>p. /\ server[s] \in Past => sent[serving[s]]
      /\ server[s] \in Stages => request[serving[s]].cmd = "evaluate"
  BY DEF CauseInv
\* Steps that leave every connection where it is.
<1>1. ASSUME NEW at, server' = [server EXCEPT ![s] = at], at # "crashed",
             UNCHANGED <<backlog, serving, clientVars, answer>>,
             at \in Past => sent[serving[s]],
             at \in Stages => request[serving[s]].cmd = "evaluate"
      PROVE  CauseInv'
  <2>1. \A t \in Servers, c \in Clients : Holds(t, c)' => Holds(t, c)
    BY <1>1 DEF Holds, Queued
  <2> QED
    BY <1>1, <2>1, ServerStepCauses
<1>2. CASE Start(s) \/ Bind(s) \/ Listen(s)
  <2>1. PICK at \in {"starting", "bound", "failed", "accepting"} :
            server' = [server EXCEPT ![s] = at]
    BY <1>2 DEF Start, Starting, Bind, Listen
  <2>2. UNCHANGED <<backlog, serving, clientVars, answer>>
    BY <1>2 DEF Start, Starting, Bind, Listen
  <2> QED
    BY <2>1, <2>2, <1>1 DEF Past, Stages
<1>3. CASE Accept(s)
  <2>1. server' = [server EXCEPT ![s] = "receiving"] /\ UNCHANGED <<clientVars, answer>>
    BY <1>3 DEF Accept
  <2>2. \A t \in Servers \ {s} : serving'[t] = serving[t]
    BY <1>3 DEF Accept, ServerInv, TypeOK
  <2> QED
    BY <1>3, <2>1, <2>2, AcceptHolds, ServerStepCauses DEF Past, Stages
<1>4. CASE Receive(s)
  <2>1. /\ sent[serving[s]] /\ UNCHANGED <<backlog, serving, clientVars, answer>>
        /\ \/ /\ server' = [server EXCEPT ![s] = "loading"]
              /\ request[serving[s]].cmd = "evaluate"
           \/ server' = [server EXCEPT ![s] = "answering"]
    BY <1>4 DEF Receive, Reply
  <2>2. CASE server' = [server EXCEPT ![s] = "loading"] /\ request[serving[s]].cmd = "evaluate"
    BY <2>1, <2>2, <1>1
  <2>3. CASE server' = [server EXCEPT ![s] = "answering"]
    BY <2>1, <2>3, <1>1 DEF Stages
  <2> QED
    BY <2>1, <2>2, <2>3
<1>5. CASE Load(s) \/ Build(s) \/ Evaluate(s) \/ Map(s) \/ Save(s)
  <2>1. /\ server[s] \in Stages /\ UNCHANGED <<backlog, serving, clientVars, answer>>
    BY <1>5 DEF Load, Build, Stage, Evaluate, Map, Save, Stages
  <2>2. PICK at \in {"building", "evaluating", "mapping", "saving", "answering"} :
            server' = [server EXCEPT ![s] = at]
    BY <1>5 DEF Load, Build, Stage, Evaluate, Map, Save, Reply
  <2> QED
    BY <1>p, <2>1, <2>2, <1>1 DEF Past
\* The end of handle_client.
<1>6. CASE ReceiveNothing(s) \/ Answer(s)
  <2>1. /\ server' = [server EXCEPT ![s] = "accepting"]
        /\ serving' = [serving EXCEPT ![s] = None]
        /\ backlog' = backlog /\ UNCHANGED clientVars
        /\ server[s] \in Handling
        /\ \/ answer' = answer
           \/ /\ answer' = [answer EXCEPT ![serving[s]] = reply[s]]
              /\ client[serving[s]] # "exited"
    BY <1>6 DEF ReceiveNothing, Answer, Handling
  <2>2. \A t \in Servers \ {s} : serving'[t] = serving[t]
    BY <2>1 DEF ServerInv, TypeOK
  <2>3. \A t \in Servers, c \in Clients : Holds(t, c)' => Holds(t, c) /\ c # serving[s]
    BY <1>r, <2>1, BackHolds
  <2>4. ASSUME client[serving[s]] # "exited" PROVE answer[serving[s]] = "none"
    BY <1>r, <2>1, <2>4 DEF CauseInv
  <2>5. reply[s] # "killed"
    BY DEF ServerInv, TypeOK
  <2>6. \A c \in Clients :
            \/ answer'[c] = answer[c]
            \/ /\ answer[c] = "none" /\ answer'[c] # "killed"
               /\ \A t \in Servers : ~ Holds(t, c)'
    BY <2>1, <2>3, <2>4, <2>5 DEF ServerInv, TypeOK
  <2> QED
    BY <2>1, <2>2, <2>3, <2>6, ServerStepCauses DEF Past, Stages
\* The end of the process.
<1>7. ASSUME NEW how \in {"exited", "crashed"}, End(s, how),
             \A c \in Clients :
                 \/ answer'[c] = answer[c]
                 \/ Holds(s, c) /\ answer[c] = "none" /\ answer'[c] # "killed",
             how = "crashed" => \E c \in Clients : Cause(c)
      PROVE  CauseInv'
  <2>1. server' = [server EXCEPT ![s] = how] /\ UNCHANGED clientVars
    BY <1>7 DEF End
  <2>2. \A t \in Servers \ {s} : serving'[t] = serving[t]
    BY <1>7 DEF End, ServerInv, TypeOK
  <2>3. \A t \in Servers, c \in Clients : Holds(t, c)' => Holds(t, c) /\ ~ Holds(s, c)
    BY <1>7, EndHolds
  <2> QED
    BY <1>7, <2>1, <2>2, <2>3, ServerStepCauses DEF Past, Stages
<1>8. ASSUME Hangup(s)
      PROVE  \A c \in Clients :
                 \/ answer'[c] = answer[c]
                 \/ Holds(s, c) /\ answer[c] = "none" /\ answer'[c] # "killed"
  <2> SUFFICES ASSUME NEW c \in Clients, answer'[c] # answer[c]
               PROVE  Holds(s, c) /\ answer[c] = "none" /\ answer'[c] # "killed"
    OBVIOUS
  <2> QED
    BY <1>8 DEF Hangup, Holds
<1>9. CASE EvaluateAborts(s) \/ SaveAborts(s)
  <2>1. /\ Hangup(s) /\ End(s, "crashed") /\ server[s] \in Stages
        /\ request[serving[s]].fails \in {"evaluate", "save"}
    BY <1>9 DEF EvaluateAborts, SaveAborts, Crash, Fails, Stages
  <2>2. serving[s] \in Clients /\ Cause(serving[s])
    BY <1>p, <1>r, <2>1 DEF Past, Handling, Cause
  <2> QED
    BY <2>1, <2>2, <1>7, <1>8
<1>10. CASE BrokenPipe(s)
  <2>1. /\ Hangup(s) /\ End(s, "crashed")
        /\ server[s] = "answering" /\ client[serving[s]] = "exited"
    BY <1>10 DEF BrokenPipe, Crash
  <2>2. serving[s] \in Clients /\ Cause(serving[s])
    BY <1>p, <1>r, <2>1 DEF Past, Handling, Cause, CauseInv
  <2> QED
    BY <2>1, <2>2, <1>7, <1>8
<1>11. CASE Signal(s)
  <2>1. Hangup(s) /\ End(s, "exited")
    BY <1>11 DEF Signal, CleanExit
  <2> QED
    BY <2>1, <1>7, <1>8
<1>12. CASE Shutdown(s)
  <2>1. /\ End(s, "exited") /\ server[s] = "answering" /\ client[serving[s]] # "exited"
        /\ answer' = [c \in Clients |->
                IF c = serving[s] THEN reply[s]
                ELSE IF c \in Queued(s) /\ answer[c] = "none" THEN "reset" ELSE answer[c]]
    BY <1>12 DEF Shutdown, CleanExit
  <2>2. Holds(s, serving[s]) /\ answer[serving[s]] = "none" /\ reply[s] # "killed"
    BY <1>r, <2>1 DEF Handling, CauseInv, ServerInv, TypeOK
  <2>3. \A c \in Clients :
            \/ answer'[c] = answer[c]
            \/ Holds(s, c) /\ answer[c] = "none" /\ answer'[c] # "killed"
    BY <2>1, <2>2 DEF Holds
  <2> QED
    BY <2>1, <2>3, <1>7
<1> QED
  BY <1>2, <1>3, <1>4, <1>5, <1>6, <1>9, <1>10, <1>11, <1>12 DEF ServerStep

LEMMA ClientCauses ==
    ASSUME ServerInv, AnswerInv, CauseInv, NEW c \in Clients, ClientStep(c) \/ Killed(c)
    PROVE  CauseInv'
<1>1. /\ UNCHANGED <<server, serving, request>>
      /\ \A d \in Clients \ {c} : client'[d] = client[d] /\ answer'[d] = answer[d]
      /\ \A d \in Clients : sent[d] => sent'[d]
      /\ \A d \in Clients : answer[d] = "killed" => answer'[d] = "killed"
  <2>1. UNCHANGED <<server, serving, request>>
    BY DEF ClientStep, Killed, Connect, ConnectRefused, Send, SendFails, Recv, serverVars
  <2>2. \/ answer' = answer
        \/ answer' = [answer EXCEPT ![c] = "killed"]
        \/ answer[c] # "killed" /\ \E a : answer' = [answer EXCEPT ![c] = a]
    <3>1. client[c] # "exited" => answer[c] # "killed"
      BY DEF CauseInv
    <3> QED
      BY <3>1 DEF ClientStep, Killed, Connect, ConnectRefused, Send, SendFails, Recv
  <2>3. \E at : client' = [client EXCEPT ![c] = at]
    BY DEF ClientStep, Killed, Connect, ConnectRefused, Send, SendFails, Recv, Exit
  <2>4. sent' = sent \/ sent' = [sent EXCEPT ![c] = TRUE]
    BY DEF ClientStep, Killed, Connect, ConnectRefused, Send, SendFails, Recv
  <2> QED
    BY <2>1, <2>2, <2>3, <2>4 DEF ServerInv, TypeOK
<1>2. /\ answer'[c] = "killed" => client'[c] = "exited"
      /\ \A t \in Servers : Holds(t, c)' =>
            /\ answer'[c] \in {"none", "killed"}
            /\ client'[c] = "exited" => answer'[c] = "killed"
  <2>1. CASE Connect(c)
    BY <2>1 DEF Connect, AnswerInv, PlaceInv, ServerInv, TypeOK
  <2> SUFFICES ASSUME ConnectRefused(c) \/ Send(c) \/ SendFails(c) \/ Recv(c) \/ Killed(c)
               PROVE  /\ answer'[c] = "killed" => client'[c] = "exited"
                      /\ \A t \in Servers : Holds(t, c)' =>
                            /\ answer'[c] \in {"none", "killed"}
                            /\ client'[c] = "exited" => answer'[c] = "killed"
    BY <2>1 DEF ClientStep
  <2>2. \A t \in Servers : Holds(t, c)' = Holds(t, c)
    BY DEF ConnectRefused, Send, SendFails, Recv, Killed, serverVars, Holds, Queued
  <2>3. CASE ConnectRefused(c)
    BY <2>2, <2>3 DEF ConnectRefused, Exit, AnswerInv, PlaceInv, ServerInv, TypeOK
  <2>4. CASE Send(c)
    BY <2>2, <2>4 DEF Send, CauseInv, ServerInv, TypeOK
  <2>5. CASE SendFails(c)
    BY <2>2, <2>5 DEF SendFails, Exit, CauseInv, ServerInv, TypeOK
  <2>6. CASE Recv(c)
    BY <2>2, <2>6 DEF Recv, Exit, CauseInv, ServerInv, TypeOK
  <2>7. CASE Killed(c)
    BY <2>7 DEF Killed, Exit, ServerInv, TypeOK
  <2> QED
    BY <2>3, <2>4, <2>5, <2>6, <2>7
<1>3. ASSUME NEW t \in Servers, NEW d \in Clients \ {c}, Holds(t, d)'
      PROVE  Holds(t, d)
  <2>1. CASE Connect(c)
    <3> DEFINE q == backlog[path]
    <3>1. /\ path \in Servers /\ q \in Seq(Clients) /\ backlog \in [Servers -> Seq(Clients)]
          /\ backlog' = [backlog EXCEPT ![path] = Append(q, c)]
      BY <2>1 DEF Connect, Reachable, ServerInv, TypeOK
    <3>2. /\ Len(q) \in Nat /\ Len(Append(q, c)) = Len(q) + 1
          /\ Append(q, c)[Len(q) + 1] = c
          /\ \A i \in 1..Len(q) : Append(q, c)[i] = q[i]
      BY <3>1
    <3>3. CASE t # path
      BY <1>1, <1>3, <3>1, <3>3 DEF Holds, Queued
    <3>4. CASE t = path
      <4>1. Queued(t)' = {Append(q, c)[i] : i \in 1..Len(q) + 1}
        BY <3>1, <3>2, <3>4 DEF Queued
      <4>2. Queued(t) = {q[i] : i \in 1..Len(q)}
        BY <3>4 DEF Queued
      <4> HIDE DEF q
      <4>3. d \in Queued(t)' => d \in Queued(t)
        BY <3>2, <4>1, <4>2
      <4> QED
        BY <1>1, <1>3, <4>3 DEF Holds
    <3> QED
      BY <3>3, <3>4
  <2>2. CASE ~ Connect(c)
    <3>1. backlog' = backlog
      BY <2>2 DEF ClientStep, ConnectRefused, Send, SendFails, Recv, Killed, serverVars
    <3> QED
      BY <1>1, <1>3, <3>1 DEF Holds, Queued
  <2> QED
    BY <2>1, <2>2
<1>4. \A t \in Servers, d \in Clients : Holds(t, d)' =>
          /\ answer'[d] \in {"none", "killed"}
          /\ client'[d] = "exited" => answer'[d] = "killed"
  BY <1>1, <1>2, <1>3 DEF CauseInv
<1>5. \A d \in Clients : answer'[d] = "killed" => client'[d] = "exited"
  BY <1>1, <1>2 DEF CauseInv
<1>6. \A t \in Servers : server[t] \in Past => sent'[serving[t]]
  <2>1. \A t \in Servers : server[t] \in Past => serving[t] \in Clients
    BY DEF ServerInv, ServingInv, Past, Handling
  <2> QED
    BY <1>1, <2>1 DEF CauseInv
<1>7. CrashesHaveACause'
  <2>1. \A d \in Clients : Cause(d) => Cause(d)'
    BY <1>1 DEF Cause
  <2>2. CrashesHaveACause = \A t \in Servers : server[t] = "crashed" => \E d \in Clients : Cause(d)
    BY DEF CrashesHaveACause, Cause
  <2>3. CrashesHaveACause' =
            \A t \in Servers : server'[t] = "crashed" => \E d \in Clients : Cause(d)'
    BY DEF CrashesHaveACause, Cause
  <2> QED
    BY <1>1, <2>1, <2>2, <2>3 DEF CauseInv
<1> QED
  BY <1>1, <1>4, <1>5, <1>6, <1>7 DEF CauseInv

(***************************************************************************)
(* A server of any number only ever crashes on a request that was sent: an  *)
(* evaluation that aborts, or one whose client was killed.                  *)
(***************************************************************************)
THEOREM CrashesAlwaysHaveACause == Spec => []CrashesHaveACause
<1>1. Init => CauseInv
  <2> SUFFICES ASSUME Init PROVE CauseInv
    OBVIOUS
  <2>1. \A s \in Servers, c \in Clients : ~ Holds(s, c)
    BY ServerAssumption DEF Init, Holds, Queued
  <2> QED
    BY <2>1 DEF Init, CauseInv, CrashesHaveACause, Past, Stages
<1>2. ServerInv /\ AnswerInv /\ CauseInv /\ [Next]_vars => CauseInv'
  <2> SUFFICES ASSUME ServerInv, AnswerInv, CauseInv, [Next]_vars PROVE CauseInv'
    OBVIOUS
  <2>1. CASE UNCHANGED vars
    <3> USE <2>1 DEF vars
    <3>1. \A t \in Servers, c \in Clients : Holds(t, c)' = Holds(t, c)
      BY DEF Holds, Queued
    <3> QED
      BY <3>1 DEF CauseInv, CrashesHaveACause
  <2>2. CASE Next
    BY <2>2, ServerCauses, ClientCauses DEF Next
  <2> QED
    BY <2>1, <2>2
<1>3. CauseInv => CrashesHaveACause
  BY DEF CauseInv
<1> QED
  BY <1>1, <1>2, <1>3, InitInv, NextInv, InitAnswerInv, NextAnswerInv, PTL DEF Spec
=============================================================================
