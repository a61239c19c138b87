------------------------------ MODULE Startup ------------------------------
(***************************************************************************)
(* run_exchange() and StartupGuard (src/main.cpp), MonitoringService       *)
(* (src/monitoring.cpp) and HttpServer (src/http_server.cpp): the order in *)
(* which the process starts and stops its parts, and what the monitoring   *)
(* server may be doing meanwhile.                                          *)
(*                                                                         *)
(* The gateway throws when it cannot listen; the publisher and the HTTP    *)
(* server return without a word when their socket cannot be set up; any    *)
(* start() throws when a thread cannot be created.  Objects are destroyed  *)
(* in reverse order of declaration, the guard after everything declared    *)
(* after it.                                                               *)
(***************************************************************************)
EXTENDS Integers, Sequences, SequencesExt, FiniteSets

CONSTANT MaxHttpClients     \* bound on the HTTP connections made

VARIABLES mainPc,           \* what run_exchange() does next
          threads,          \* parts whose threads run
          constructed,      \* objects alive, in order of declaration
          guard,            \* rollbacks_
          deadStops,        \* parts whose rollback ran after their destruction
          signalled,        \* g_shutdown_requested
          httpPc,           \* server_loop(): "accept" or "recv"
          browser,          \* the HTTP client: "none", "connected", "closed", or the request it sent
          answer,           \* status of the last response, 0 if there was none
          browsers          \* connections made so far

startupVars == <<mainPc, threads, constructed, guard, deadStops, signalled, httpPc, browser, answer, browsers>>
httpVars == <<httpPc, browser, answer, browsers>>

(* The threads a part may have after a start() that returns, and after one that throws. *)
Parts == <<"exchange", "gateway", "publisher", "monitoring">>
Returned(part) ==
  CASE part = "publisher" -> {{"publisher"}, {}}
    [] part = "monitoring" -> {{"http", "metrics"}, {"metrics"}}
    [] OTHER -> {{part}}
Thrown(part) ==
  CASE part = "publisher" -> {{}}
    [] part = "monitoring" -> {{"http"}, {}}
    [] OTHER -> {{part}, {}}
ThreadsOf(part) == UNION (Returned(part) \cup Thrown(part))

StartupInit ==
  /\ mainPc = "exchange" /\ threads = {} /\ constructed = <<>> /\ guard = <<>> /\ deadStops = {}
  /\ signalled = FALSE
  /\ httpPc = "accept" /\ browser = "none" /\ answer = 0 /\ browsers = 0

NextPart(part) ==
  IF part = "monitoring" THEN "running" ELSE Parts[1 + CHOOSE i \in DOMAIN Parts : Parts[i] = part]

(* A part is constructed and started; its rollback is registered; the last one commits the guard. *)
StartPart(part) ==
  /\ mainPc = part
  /\ constructed' = Append(constructed, part)
  /\ \E started \in Returned(part) : threads' = threads \cup started
  /\ guard' = IF part = "monitoring" THEN <<>> ELSE Append(guard, part)
  /\ mainPc' = NextPart(part)
  /\ UNCHANGED <<deadStops, signalled, httpVars>>

(* start() throws: run_exchange() unwinds. *)
StartThrows(part) ==
  /\ mainPc = part
  /\ constructed' = Append(constructed, part)
  /\ \E started \in Thrown(part) : threads' = threads \cup started
  /\ mainPc' = "unwind"
  /\ UNCHANGED <<guard, deadStops, signalled, httpVars>>

Signal == signalled' = TRUE /\ UNCHANGED <<mainPc, threads, constructed, guard, deadStops, httpVars>>

WaitForShutdown ==
  /\ mainPc = "running" /\ signalled
  /\ mainPc' = "stop"
  /\ UNCHANGED <<threads, constructed, guard, deadStops, signalled, httpVars>>


(* The server thread sees the flag only between two clients: accept() does not block, recv() does. *)
Polls == httpPc = "accept"

(* Joining a part's threads. *)
Joinable(part) == part = "monitoring" /\ "http" \in threads => Polls

(* Mutant of StopOrder: the exchange is stopped before the gateway that uses it. *)
StopOrderSwapped == <<"monitoring", "publisher", "exchange", "gateway">>

StopOrder == Reverse(Parts)

(* Stopping again, and stopping what never ran, does nothing. *)
NextStop == SelectSeq(StopOrder, LAMBDA p : ThreadsOf(p) \cap threads # {})

StopPart ==
  /\ mainPc = "stop"
  /\ IF NextStop = <<>>
     THEN mainPc' = "unwind" /\ UNCHANGED threads
     ELSE Joinable(Head(NextStop)) /\ threads' = threads \ ThreadsOf(Head(NextStop)) /\ UNCHANGED mainPc
  /\ UNCHANGED <<constructed, guard, deadStops, signalled, httpVars>>

(* A destructor, which stops its part. *)
Destroy ==
  /\ mainPc = "unwind" /\ constructed # <<>>
  /\ Last(constructed) = "exchange" => guard = <<>>
  /\ Joinable(Last(constructed))
  /\ threads' = threads \ ThreadsOf(Last(constructed))
  /\ constructed' = Front(constructed)
  /\ mainPc' = IF Len(constructed) = 1 THEN "exited" ELSE "unwind"
  /\ UNCHANGED <<guard, deadStops, signalled, httpVars>>

(* ~StartupGuard(): the newest rollback first, on an object that may be gone. *)
Rollback ==
  /\ mainPc = "unwind" /\ guard # <<>> /\ constructed = <<"exchange">>
  /\ IF Last(guard) = "exchange"
     THEN threads' = threads \ {"exchange"} /\ UNCHANGED deadStops
     ELSE deadStops' = deadStops \cup {Last(guard)} /\ UNCHANGED threads
  /\ guard' = Front(guard)
  /\ UNCHANGED <<mainPc, constructed, signalled, httpVars>>

MainStep == WaitForShutdown \/ StopPart \/ Destroy \/ Rollback \/ \E i \in DOMAIN Parts : StartPart(Parts[i]) \/ StartThrows(Parts[i])

-----------------------------------------------------------------------------
Requests == {"known", "unknown", "throwing", "dotted", "truncated"}

Connects ==
  /\ "http" \in threads /\ browser = "none" /\ browsers < MaxHttpClients
  /\ browser' = "connected" /\ browsers' = browsers + 1
  /\ UNCHANGED <<mainPc, threads, constructed, guard, deadStops, signalled, httpPc, answer>>

Sends(request) ==
  /\ browser = "connected" /\ browser' = request
  /\ UNCHANGED <<mainPc, threads, constructed, guard, deadStops, signalled, httpPc, answer, browsers>>

Closes ==
  /\ browser = "connected" /\ browser' = "closed"
  /\ UNCHANGED <<mainPc, threads, constructed, guard, deadStops, signalled, httpPc, answer, browsers>>

AcceptClient ==
  /\ "http" \in threads /\ httpPc = "accept" /\ browser # "none"
  /\ httpPc' = "recv"
  /\ UNCHANGED <<mainPc, threads, constructed, guard, deadStops, signalled, browser, answer, browsers>>

(* handle_client(): no request or no end of line is not answered. *)
Response(request) ==
  CASE request = "known" -> 200
    [] request = "unknown" -> 404
    [] request = "throwing" -> 500
    [] request = "dotted" -> 400
    [] OTHER -> 0

(* recv() returns once the client has sent or closed; then the connection is closed. *)
HandleClient ==
  /\ httpPc = "recv" /\ browser # "connected"
  /\ answer' = Response(browser)
  /\ httpPc' = "accept" /\ browser' = "none"
  /\ UNCHANGED <<mainPc, threads, constructed, guard, deadStops, signalled, browsers>>

BrowserStep == Closes \/ \E r \in Requests : Sends(r)
ServerStep == AcceptClient \/ HandleClient

StartupNext == MainStep \/ Signal \/ ServerStep \/ Connects \/ BrowserStep

-----------------------------------------------------------------------------
Users == {"gateway", "publisher", "http", "metrics"}

(***************************************************************************)
(* run_exchange(): the gateway, the publisher and the monitoring service   *)
(* hold raw pointers into the exchange.  Whether startup fails half-way or *)
(* the process is told to stop, none of their threads runs when the        *)
(* exchange's own threads do not, and none is left when it returns.        *)
(***************************************************************************)
ExchangeOutlivesUsers ==
  /\ threads \cap Users # {} => "exchange" \in threads /\ Contains(constructed, "exchange")
  /\ mainPc = "exited" => threads = {}

(***************************************************************************)
(* wait_for_shutdown() and the stops after it: a process that is running   *)
(* and gets the signal ends, and one whose startup failed ends too,        *)
(* whatever the monitoring server is doing, provided an HTTP client that   *)
(* has connected does not keep silent for ever.                            *)
(***************************************************************************)
ShutdownCompletes == (mainPc = "unwind" \/ (mainPc = "running" /\ signalled)) ~> (mainPc = "exited")
=============================================================================
