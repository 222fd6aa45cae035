----------------------------- MODULE MCControl -----------------------------
(***************************************************************************)
(* The control surface for TLC: CommandQueue takes the commands in,        *)
(* ApiServer brings their results and EventFeed the event rows out to the  *)
(* clients.  Each model holds its neighbours' part as inputs (a result is  *)
(* there, a line is published), so the three share no state, and a         *)
(* behaviour is one of them while the others rest.                         *)
(***************************************************************************)
EXTENDS ApiServer, CommandQueue, EventFeed

\* requests with results over two sessions; two threads that ask
Requests ==
    [producers |-> {"p1"}, kinds |-> {"key", "export"}, history |-> 2,
     submits |-> 3, sessions |-> 2]
Threads == [Requests EXCEPT !.producers = {"p1", "p2"}, !.submits = 2]
\* setters and a toggle between them: coalescing, order and overflow
Settings ==
    [Requests EXCEPT !.kinds = {"auto", "level", "toggle"}, !.submits = 4, !.sessions = 1]
\* a setter, a key request and a way out
Quitting == [Requests EXCEPT !.kinds = {"gain", "key", "quit"}, !.history = 1]

FourDesks == {Requests, Threads, Settings, Quitting}

\* one client: results faster than the pump, gaps, a full outbox, and a stop
\* at any moment
Hurried ==
    [topics |-> {"result"}, token |-> FALSE, foreign |-> FALSE, clients |-> 1,
     refused |-> 0, outbox |-> 1, history |-> 1, chunk |-> 1,
     conns |-> 1, requests |-> 1, results |-> 2, events |-> 0, starts |-> 1]
\* two clients with a line on its way, one of them slow
Paired == [Hurried EXCEPT !.outbox = 2, !.clients = 2, !.conns = 2, !.results = 0]
\* a token, one client slot for two connections, refused connections and events
Guarded ==
    [Hurried EXCEPT !.topics = {"result", "event"}, !.token = TRUE, !.refused = 1,
                    !.conns = 2, !.requests = 2, !.results = 0, !.events = 1]
\* a server that is started again, results of a frontend, and chunks that are
\* not full
Restarted ==
    [Hurried EXCEPT !.foreign = TRUE, !.outbox = 2, !.history = 2, !.chunk = 2, !.results = 1, !.starts = 2]

FourServers == {Hurried, Paired, Guarded, Restarted}

VARIABLE part    \* which of the three a behaviour is of

ControlInit ==
    /\ part \in {"queue", "server", "feed"} /\ Init /\ QueueInit /\ FeedInit
    /\ part # "server" => server = Hurried /\ pump.at = "none"
    /\ part # "queue" => desk = Requests

ControlNext ==
    /\ \/ part = "queue" /\ QueueNext /\ UNCHANGED <<vars, feedVars>>
       \/ part = "server" /\ Next /\ UNCHANGED <<queueVars, feedVars>>
       \/ part = "feed" /\ FeedNext /\ UNCHANGED <<vars, queueVars>>
    /\ UNCHANGED part

\* the fairness of FairSpec and QueueFairSpec, each for as long as it runs
Serves == part = "server"
Drains == part = "queue"
ControlSpec ==
    /\ ControlInit /\ [][ControlNext]_<<vars, queueVars, feedVars, part>>
    /\ \A s \in Sessions : WF_vars(Serves /\ SessionStep(s))
    /\ WF_vars(Serves /\ AcceptStep) /\ WF_vars(Serves /\ PumpStep) /\ WF_vars(Serves /\ StopStep)
    /\ WF_queueVars(Drains /\ DecoderSteps)

\* A stop of the server and the queue of commands come to an end.
ControlReturns == StopReturns /\ CommandsTaken
=============================================================================
