------------------------------ MODULE McpProbe ------------------------------
(***************************************************************************)
(* mcpcontrol/probe.go: one probe of an MCP server, over stdio or over     *)
(* streamable HTTP, whose responses are one JSON object or a stream of     *)
(* events.  The probe initializes, says so, and asks for the list of every *)
(* capability the server advertised; a deadline limits it, and at the end  *)
(* the process is reaped or the HTTP session deleted.                      *)
(*                                                                         *)
(* The server is external and does what it likes: it answers, repeats      *)
(* itself, sends notifications and nonsense, and exits.  It may have left  *)
(* a child of its own that holds its stderr open (`helper`).               *)
(***************************************************************************)
EXTENDS Naturals, Sequences, FiniteSets

CONSTANTS
    Transports,         \* of "stdio", "json" and "sse"
    MaxNoise            \* bound: messages of the server that answer nothing new

ASSUME ProbeAssumption == Transports \subseteq {"stdio", "json", "sse"} /\ MaxNoise \in Nat

VARIABLES
    transport, advertised,
    ppc, want, id,      \* the probe: where it is, the requests it has left, the id of the last
    known,              \* does the probe know a session id
    failed, accepted,   \* did a step fail; for each request, the request whose answer it took
    expired,            \* has the deadline passed
    server, helper, reaped,   \* the process: "up" or "gone"; has command.Wait returned
    served, wire, ended,      \* requests the server has answered, what it sent, is it all
    session,            \* the HTTP session: "none", "open", "deleted", "lost"
    noise

probevars == <<transport, advertised, ppc, want, id, known, failed, accepted, expired,
               server, helper, reaped, served, wire, ended, session, noise>>
client == <<want, id, known, accepted>>
peer == <<served, wire, ended, session, noise>>
given == <<transport, advertised, helper>>

\* The requests of populateDiscovery, in order; each takes the next id.
ListOf(c) == IF c \in advertised THEN <<c>> ELSE <<>>
Discovery == ListOf("tools") \o ListOf("resources") \o ListOf("prompts")

ProbeInit ==
    /\ transport \in Transports /\ helper \in (IF transport = "stdio" THEN BOOLEAN ELSE {FALSE})
    /\ advertised \in {{}, {"tools"}, {"prompts"}, {"tools", "prompts"}}
    /\ ppc = "start" /\ want = <<"initialize">> /\ id = 0
    /\ known = FALSE /\ failed = FALSE /\ accepted = <<>> /\ expired = FALSE
    /\ server = "up" /\ reaped = FALSE
    /\ served = 0 /\ wire = <<>> /\ ended = FALSE /\ session = "none" /\ noise = 0

Fails == failed' = TRUE /\ ppc' = "close"

-----------------------------------------------------------------------------
(* The probe *)

\* writeRPC, or client.Do up to the response: a server that is gone may break it.
Ask ==
    /\ ppc \in {"start", "asking"} /\ want # <<>>
    /\ id' = id + 1
    /\ IF transport = "stdio" THEN UNCHANGED <<wire, ended>> ELSE wire' = <<>> /\ ended' = FALSE
    /\ \/ ppc' = "waiting" /\ UNCHANGED failed
       \/ server = "gone" /\ Fails
    /\ UNCHANGED <<given, want, known, accepted, expired, server, reaped, served, session, noise>>

\* Mutant: the next response is taken for the answer, whatever its id.
MatchesAny(m) == TRUE

Matches(m) == m.id = id

\* The answer: its session is kept, then it is decoded, which fails for an odd one (no
\* protocolVersion, no list).
Accept(m) ==
    /\ accepted' = Append(accepted, m.for)
    /\ known' = (known \/ m.session)
    /\ want' = Tail(want)
    /\ IF m.kind = "odd" THEN Fails
       ELSE ppc' = (IF id = 1 THEN "notify" ELSE "asking") /\ UNCHANGED failed

\* readLineResponse and readSSEResponse pass over messages with another id, for a plain
\* JSON response that is an error.
Read ==
    /\ ppc = "waiting" /\ wire # <<>> /\ ~(transport = "stdio" /\ reaped)
    /\ wire' = Tail(wire)
    /\ LET m == Head(wire) IN
       IF m.kind = "garbage" THEN Fails /\ UNCHANGED <<want, known, accepted>>
       ELSE IF ~Matches(m)
       THEN /\ IF transport = "json" THEN Fails ELSE UNCHANGED <<failed, ppc>>
            /\ UNCHANGED <<want, known, accepted>>
       ELSE IF m.kind = "error" THEN Fails /\ UNCHANGED <<want, known, accepted>>
       ELSE Accept(m)
    /\ UNCHANGED <<given, id, expired, server, reaped, served, ended, session, noise>>

\* End of file, a stream that ended, a status that is no success, a pipe that Wait has
\* closed under the reader, or the deadline of a request.
ReadFails ==
    /\ ppc = "waiting"
    /\ \/ transport = "stdio" /\ (reaped \/ (server = "gone" /\ wire = <<>> /\ ~helper))
       \/ transport # "stdio" /\ (expired \/ server = "gone" \/ (ended /\ wire = <<>>))
    /\ Fails
    /\ UNCHANGED <<given, client, expired, server, reaped, peer>>

\* notifications/initialized
Notify ==
    /\ ppc = "notify"
    /\ \/ /\ ppc' = "asking"
          /\ want' = Discovery
          /\ UNCHANGED failed
       \/ (server = "gone" \/ expired) /\ Fails /\ UNCHANGED want
    /\ UNCHANGED <<given, id, known, accepted, expired, server, reaped, peer>>

Discovered ==
    /\ ppc = "asking" /\ want = <<>>
    /\ ppc' = "close"
    /\ UNCHANGED <<given, client, failed, expired, server, reaped, peer>>

\* closeProcess closes stdin and waits for the process; after two seconds it kills it.
CloseStdin ==
    /\ ppc = "close" /\ transport = "stdio"
    /\ ppc' = "reap"
    /\ UNCHANGED <<given, client, failed, expired, server, reaped, peer>>

KillProcess ==
    /\ ppc = "reap" /\ ~reaped
    /\ server' = "gone"
    /\ UNCHANGED <<given, client, ppc, failed, expired, reaped, peer>>

Reaped ==
    /\ ppc = "reap" /\ reaped
    /\ ppc' = "done"
    /\ UNCHANGED <<given, client, failed, expired, server, reaped, peer>>

\* closeHTTPSession: DELETE within five seconds, when a session is known.
CloseSession ==
    /\ ppc = "close" /\ transport # "stdio"
    /\ ppc' = "done"
    /\ IF known
       THEN session' = IF server = "up" THEN "deleted" ELSE "lost"
       ELSE UNCHANGED session
    /\ UNCHANGED <<given, client, failed, expired, server, reaped, served, wire, ended, noise>>

\* The deadline kills the process of exec.CommandContext.
Expire ==
    /\ ~expired /\ ppc # "done"
    /\ expired' = TRUE
    /\ server' = IF transport = "stdio" THEN "gone" ELSE server
    /\ UNCHANGED <<given, client, ppc, failed, reaped, peer>>

\* command.Wait, in its goroutine: it returns when the process is gone and nobody holds its
\* stderr, and closes the pipe of its stdout.
WaitReturns ==
    /\ transport = "stdio" /\ server = "gone" /\ ~helper /\ ~reaped
    /\ reaped' = TRUE
    /\ UNCHANGED <<given, client, ppc, failed, expired, server, peer>>

-----------------------------------------------------------------------------
(* The server *)

Request(i) == IF i = 1 THEN "initialize" ELSE Discovery[i - 1]

Send(m) == wire' = Append(wire, m) /\ UNCHANGED <<given, client, ppc, failed, expired, server, reaped>>

\* It answers the request, and with the first answer may open a session.
ServerAnswers ==
    /\ server = "up" /\ ppc = "waiting" /\ served < id /\ ~ended
    /\ \E kind \in {"result", "odd", "error"}, opens \in BOOLEAN :
          /\ opens => id = 1 /\ transport # "stdio"
          /\ session' = IF opens THEN "open" ELSE session
          /\ Send([id |-> id, for |-> Request(id), kind |-> kind, session |-> opens])
    /\ served' = id
    /\ UNCHANGED <<ended, noise>>

\* A notification, an earlier answer once more, or nonsense.
ServerChatters ==
    /\ server = "up" /\ ppc = "waiting" /\ ~ended /\ noise < MaxNoise
    /\ \E i \in 0..id - 1, kind \in {"result", "garbage"} :
          Send([id |-> i, for |-> IF i = 0 THEN "nothing" ELSE Request(i),
                kind |-> kind, session |-> FALSE])
    /\ noise' = noise + 1
    /\ UNCHANGED <<served, ended, session>>

ServerEndsResponse ==
    /\ transport # "stdio" /\ ppc = "waiting" /\ ~ended
    /\ ended' = TRUE
    /\ UNCHANGED <<given, client, ppc, failed, expired, server, reaped, served, wire, session, noise>>

ServerExits ==
    /\ server = "up" /\ ppc # "done"
    /\ server' = "gone"
    /\ UNCHANGED <<given, client, ppc, failed, expired, reaped, peer>>

-----------------------------------------------------------------------------
ProbeStep ==
    \/ Ask \/ Read \/ ReadFails \/ Notify \/ Discovered
    \/ CloseStdin \/ Reaped \/ CloseSession

ProbeNext ==
    \/ ProbeStep \/ KillProcess \/ Expire \/ WaitReturns
    \/ ServerAnswers \/ ServerChatters \/ ServerEndsResponse \/ ServerExits

\* The timers fire, the kernel reaps, and the probe takes the steps it can; the server
\* owes nothing.
ProbeFairness ==
    /\ WF_probevars(ProbeStep)
    /\ WF_probevars(KillProcess) /\ WF_probevars(Expire) /\ WF_probevars(WaitReturns)

ProbeSpec == ProbeInit /\ [][ProbeNext]_probevars /\ ProbeFairness

-----------------------------------------------------------------------------
(* Properties *)

Methods == {"initialize", "tools", "resources", "prompts"}
Messages == [id : 0..4, for : Methods \cup {"nothing"}, kind : {"result", "odd", "error", "garbage"},
             session : BOOLEAN]

ProbeTypeOK ==
    /\ transport \in Transports /\ advertised \subseteq {"tools", "resources", "prompts"}
    /\ ppc \in {"start", "asking", "waiting", "notify", "close", "reap", "done"}
    /\ want \in Seq(Methods) /\ id \in 0..4 /\ wire \in Seq(Messages)
    /\ known \in BOOLEAN /\ failed \in BOOLEAN /\ expired \in BOOLEAN
    /\ helper \in BOOLEAN /\ reaped \in BOOLEAN /\ ended \in BOOLEAN
    /\ server \in {"up", "gone"} /\ session \in {"none", "open", "deleted", "lost"}
    /\ served \in 0..id /\ noise \in 0..MaxNoise

\* Whatever the server sends in between: a probe that is OK took for every capability the
\* server advertised the answer to that request, in order, and nothing else.
OkIsAnswered ==
    (ppc \in {"close", "reap", "done"} /\ ~failed) => accepted = <<"initialize">> \o Discovery

\* However a probe ends, the session the server opened with its answer to initialize is
\* deleted, or the server was gone when it tried; one that came with an error is left.
SessionIsClosed == (ppc = "done" /\ accepted # <<>>) => session # "open"

\* A probe of a server that does what it likes reports what was answered, and leaves no
\* session behind.
ProbeIsOrderly == OkIsAnswered /\ SessionIsClosed

\* A probe ends, in spite of a server that is silent, chatters, hangs or exits.  One whose
\* child holds its stderr is not reaped by killing it, and closeProcess waits for that.
ProbeEnds == <>(ppc = "done" \/ helper)
=============================================================================
