------------------------------ MODULE Exchange ------------------------------
(***************************************************************************)
(* What an AI asks and what it is told: lines of JSON-RPC to the bridge    *)
(* (mcp-server/src/server.rs), one at a time; for each call a connection   *)
(* (product-api/src/client.rs) to a thread of the service                  *)
(* (product-api/src/http.rs), which waits for the engine (api.rs).         *)
(*                                                                         *)
(* A request and a reply arrive in pieces, and either may end after any of *)
(* them: bridges are killed, the service dies, a thread panics, somebody   *)
(* has waited too long.  How a service is found is in Service.tla; here    *)
(* each bridge has found one or has not.  What is asked is abstracted to   *)
(* its kind, and a message is known by its position.                       *)
(***************************************************************************)
EXTENDS Integers, Sequences, FiniteSets, Functions

CONSTANTS
    Asker,        \* AIs, each with a bridge
    MaxMessages   \* bound, of all together

ASSUME ExchangeAssumption == IsFiniteSet(Asker) /\ MaxMessages \in Nat

VARIABLES
    asked,        \* of each AI: what it has written
    heard,        \* of each AI: what it was told, in order
    bridge,       \* where each is: at, the line it handles, the call of that line
    calls,        \* a function on the calls that either end is at, each <<asker, line, step>>
    holder,       \* the call whose thread has the engine
    alive,        \* the service
    performed     \* ghost: how often each call was performed

exchangeVars == <<asked, heard, bridge, calls, holder, alive, performed>>

Nobody == <<"nobody">>

\* What a line may be.  Quiet: blank, a notification, or an array, which has no
\* "id" and is taken for one.  List: ping and the lists, which the bridge answers
\* alone; wrong: a tool or a method there is not, or what is not JSON, which it
\* refuses alone; bytes: what is not even text.
Kind == {"quiet", "list", "wrong", "bytes", "initialize", "tool"}

ExchangeInit ==
    /\ asked = [a \in Asker |-> << >>] /\ heard = [a \in Asker |-> << >>]
    /\ bridge \in [Asker -> [at : {"reading"}, line : {1}, step : {0}, client : BOOLEAN]]
    /\ calls = << >> /\ holder = Nobody /\ alive = TRUE /\ performed = << >>

-----------------------------------------------------------------------------
(* The AI.                                                                 *)

Writes(a) ==
    /\ SumFunction([b \in Asker |-> Len(asked[b])]) < MaxMessages
    /\ \E kind \in Kind : asked' = [asked EXCEPT ![a] = Append(@, kind)]
    /\ UNCHANGED <<heard, bridge, calls, holder, alive, performed>>

-----------------------------------------------------------------------------
(* The bridge.                                                             *)

Line(a) == asked[a][bridge[a].line]
Call(a) == <<a, bridge[a].line, bridge[a].step>>
Hears(a, what) == heard' = [heard EXCEPT ![a] = Append(@, [line |-> bridge[a].line, what |-> what])]
NextLine(a) == bridge' = [bridge EXCEPT ![a].at = "reading", ![a].line = @ + 1]
Calling(a, step) == bridge' = [bridge EXCEPT ![a].at = "connecting", ![a].step = step]

\* Server::handle_line.  A handshake says who is there, if the client told, and
\* asks for the briefing; what becomes of the first of the two is not looked at.
HandleLine(a) ==
    /\ bridge[a].at = "reading" /\ bridge[a].line <= Len(asked[a])
    /\ \/ Line(a) = "quiet" /\ NextLine(a) /\ UNCHANGED heard
       \/ Line(a) = "list" /\ NextLine(a) /\ Hears(a, "value")
       \/ Line(a) = "wrong" /\ NextLine(a) /\ Hears(a, "refused")
       \* A line that is no text ends the loop.
       \/ Line(a) = "bytes" /\ bridge' = [bridge EXCEPT ![a].at = "ended"] /\ UNCHANGED heard
       \/ /\ Line(a) \in {"initialize", "tool"} /\ ~bridge[a].client
          /\ NextLine(a) /\ Hears(a, "not running")
       \/ Line(a) = "tool" /\ bridge[a].client /\ Calling(a, 1) /\ UNCHANGED heard
       \/ /\ Line(a) = "initialize" /\ bridge[a].client
          /\ \E step \in {1, 2} : Calling(a, step)
          /\ UNCHANGED heard
    /\ UNCHANGED <<asked, calls, holder, alive, performed>>

LastStep(kind) == IF kind = "initialize" THEN 2 ELSE 1

ConcludesMutant(a, outcome) == \* what failed is tried again
    IF bridge[a].step = 1 /\ (Line(a) = "initialize" \/ outcome = "error")
    THEN Calling(a, 2) /\ UNCHANGED heard
    ELSE NextLine(a) /\ Hears(a, outcome)

\* Bridge::call and Bridge::instructions: what a call came to is what the AI is
\* told.  A briefing that is not there is told as a service that is not running.
Concludes(a, outcome) ==
    IF bridge[a].step < LastStep(Line(a))
    THEN Calling(a, bridge[a].step + 1) /\ UNCHANGED heard
    ELSE /\ NextLine(a)
         /\ Hears(a, IF Line(a) = "initialize" /\ outcome # "value" THEN "not running" ELSE outcome)

-----------------------------------------------------------------------------
(* Client::request.                                                        *)

\* What goes before the token, the token and the length, the body.
WholeRequest == 3
\* The status, the body.
WholeReply == 2

\* A call becomes `call`, and is over when both ends have let go of it.
Becomes(c, call) ==
    calls' = IF call.closed /\ call.thread = "gone"
             THEN [d \in DOMAIN calls \ {c} |-> calls[d]]
             ELSE [calls EXCEPT ![c] = call]

\* A connection is refused when the service has died.
Connects(a) ==
    /\ bridge[a].at = "connecting"
    /\ IF alive
       THEN /\ bridge' = [bridge EXCEPT ![a].at = "calling"]
            /\ calls' = [c \in DOMAIN calls \cup {Call(a)} |->
                  IF c \in DOMAIN calls THEN calls[c]
                  ELSE [sent |-> 0, closed |-> FALSE, thread |-> "reading",
                        status |-> 0, shown |-> 0]]
            /\ performed' = [c \in DOMAIN performed \cup {Call(a)} |->
                  IF c \in DOMAIN performed THEN performed[c] ELSE 0]
            /\ UNCHANGED heard
       ELSE Concludes(a, "error") /\ UNCHANGED <<calls, performed>>
    /\ UNCHANGED <<asked, holder, alive>>

\* write_all, unless the bridge ends in the middle of it.
Sends(a) ==
    /\ bridge[a].at = "calling" /\ calls[Call(a)].sent = 0
    /\ calls' = [calls EXCEPT ![Call(a)].sent = WholeRequest]
    /\ UNCHANGED <<asked, heard, bridge, holder, alive, performed>>

\* parse, and the rest of Client::call.  The length of the reply is not looked
\* at: one that ends early has a status, and no body is null.
Parsed(call) ==
    IF call.shown = 0 \/ call.status # 200 THEN "error"
    ELSE IF call.shown = WholeReply THEN "value" ELSE "nothing"

Receives(a) ==
    /\ bridge[a].at = "calling"
    /\ calls[Call(a)].sent = WholeRequest /\ calls[Call(a)].thread = "gone"
    /\ Concludes(a, Parsed(calls[Call(a)]))
    /\ Becomes(Call(a), [calls[Call(a)] EXCEPT !.closed = TRUE])
    /\ UNCHANGED <<asked, holder, alive, performed>>

\* The connection is let go, perhaps with a part of the request in it.
LetsGo(a) ==
    \E n \in IF calls[Call(a)].sent = 0 THEN 0 .. WholeRequest ELSE {WholeRequest} :
        Becomes(Call(a), [calls[Call(a)] EXCEPT !.closed = TRUE, !.sent = n])

\* Nothing has come or gone for TIMEOUT, or the connection was reset.
GivesUp(a) ==
    /\ bridge[a].at = "calling"
    /\ Concludes(a, "error") /\ LetsGo(a)
    /\ UNCHANGED <<asked, holder, alive, performed>>

\* Its client kills it, or closes its input, whatever it is at.
BridgeEnds(a) ==
    /\ bridge[a].at # "ended"
    /\ bridge' = [bridge EXCEPT ![a].at = "ended"]
    /\ IF bridge[a].at = "calling" THEN LetsGo(a) ELSE UNCHANGED calls
    /\ UNCHANGED <<asked, heard, holder, alive, performed>>

-----------------------------------------------------------------------------
(* The thread of a connection.                                             *)

At(c, where) == c \in DOMAIN calls /\ calls[c].thread = where
Goes(c, where) == Becomes(c, [calls[c] EXCEPT !.thread = where])
Replies(c, status) == Becomes(c, [calls[c] EXCEPT !.thread = "replying", !.status = status])

\* read_request and the checks of handle, on the pieces that have arrived: the
\* first a reader misses decides.  Without the rest of the headers there is no
\* token, and the body is shorter than it said.
Missed(sent) == IF sent = 1 THEN 401 ELSE 400

\* All is there, or there will be no more.
Reads(c) ==
    /\ At(c, "reading")
    /\ IF calls[c].sent = WholeRequest THEN Goes(c, "waiting")
       ELSE calls[c].closed /\ Replies(c, Missed(calls[c].sent))
    /\ UNCHANGED <<asked, heard, bridge, holder, alive, performed>>

\* TIMEOUT in the middle of a request.
ReadTimesOut(c) ==
    /\ At(c, "reading") /\ calls[c].sent < WholeRequest
    /\ Replies(c, 400)
    /\ UNCHANGED <<asked, heard, bridge, holder, alive, performed>>

\* Api::lock, for which a thread waits whoever has gone meanwhile.
Takes(c) ==
    /\ holder = Nobody /\ At(c, "waiting")
    /\ Goes(c, "performing") /\ holder' = c
    /\ UNCHANGED <<asked, heard, bridge, alive, performed>>

\* Api::call, which the engine may refuse before or after it did something.
Performs(c) ==
    /\ holder = c /\ holder' = Nobody
    /\ \/ Replies(c, 200) /\ performed' = [performed EXCEPT ![c] = @ + 1]
       \/ \E n \in {0, 1} : Replies(c, 400) /\ performed' = [performed EXCEPT ![c] = @ + n]
    /\ UNCHANGED <<asked, heard, bridge, alive>>

\* The mutex is poisoned, and is taken all the same by those that come after.
Panics(c) ==
    /\ holder = c /\ holder' = Nobody /\ Goes(c, "gone")
    /\ \E n \in {0, 1} : performed' = [performed EXCEPT ![c] = @ + n]
    /\ UNCHANGED <<asked, heard, bridge, alive>>

\* respond, to whoever still listens.
Responds(c) ==
    /\ At(c, "replying")
    /\ Becomes(c, [calls[c] EXCEPT !.shown = WholeReply, !.thread = "gone"])
    /\ UNCHANGED <<asked, heard, bridge, holder, alive, performed>>

\* In the middle of a reply, of a run of the engine, or of anything else.
ServiceDies ==
    /\ alive /\ alive' = FALSE /\ holder' = Nobody
    /\ \E n \in 0 .. WholeReply :
        calls' = [c \in {d \in DOMAIN calls : ~calls[d].closed} |->
            [calls[c] EXCEPT !.thread = "gone", !.shown = IF At(c, "replying") THEN n ELSE @]]
    /\ IF holder = Nobody THEN UNCHANGED performed
       ELSE \E n \in {0, 1} : performed' = [performed EXCEPT ![holder] = @ + n]
    /\ UNCHANGED <<asked, heard, bridge>>

ExchangeNext ==
    \/ \E a \in Asker :
        \/ Writes(a) \/ HandleLine(a) \/ Connects(a) \/ Sends(a) \/ Receives(a) \/ GivesUp(a)
        \/ BridgeEnds(a)
    \/ \E c \in DOMAIN calls :
        \/ Reads(c) \/ ReadTimesOut(c) \/ Takes(c) \/ Performs(c) \/ Panics(c) \/ Responds(c)
    \/ ServiceDies

ExchangeSpec == ExchangeInit /\ [][ExchangeNext]_exchangeVars

-----------------------------------------------------------------------------
(* Properties.                                                             *)

Wants(kind) == kind \notin {"quiet", "bytes"}

\* How often the tool of a line was run, whatever it was called by.
Runs(a, line) ==
    SumFunctionOnSet(performed, {c \in DOMAIN performed : c[1] = a /\ c[2] = line})

\* Each line that wants an answer has one, in their order, and no other line
\* (server.rs:102-106).  A tool that answered was run once, one that did not at
\* most once, however long it waited for the engine and whoever had gone; and
\* nothing is run that was not asked for to the last byte.
AnswersAreTrue ==
    /\ \A a \in Asker :
        /\ \A m, n \in DOMAIN heard[a] : m < n => heard[a][m].line < heard[a][n].line
        /\ {heard[a][n].line : n \in DOMAIN heard[a]} =
              {l \in 1 .. bridge[a].line - 1 : Wants(asked[a][l])}
        /\ \A n \in DOMAIN heard[a] :
              asked[a][heard[a][n].line] = "tool" =>
                /\ Runs(a, heard[a][n].line) <= 1
                /\ heard[a][n].what \in {"value", "nothing"} => Runs(a, heard[a][n].line) = 1
    /\ \A c \in DOMAIN calls :
        performed[c] > 0 => performed[c] = 1 /\ calls[c].sent = WholeRequest

\* server.rs:13-14: when a tool fails, the reply "says what went wrong and carries
\* `isError`".  One that is told as a success brings what the engine answered.
SuccessCarriesItsAnswer ==
    \A a \in Asker : \A n \in DOMAIN heard[a] : heard[a][n].what # "nothing"
=============================================================================
