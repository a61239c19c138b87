-------------------------- MODULE NetworkSecurity --------------------------
(***************************************************************************)
(* src/network_security.cpp, src/auth_middleware.cpp and the authorisation *)
(* of src/security_utils.cpp: the rate limiters, the sessions, the secure  *)
(* channel, the authenticated broadcast and the traffic monitor.           *)
(*                                                                         *)
(* The classes share nothing but the clock, so each has its own variables  *)
(* and next-state relation.  Each method runs under its object's mutex;    *)
(* AuthMiddleware has none and is modelled as called by one thread.        *)
(* Tokens are named by the number of the call that drew them.              *)
(***************************************************************************)
EXTENDS Integers, Sequences, SequencesExt, FiniteSets, FiniteSetsExt

CONSTANTS NetClients,        \* client ids, user ids and addresses
          MaxTokens,         \* max_tokens_
          RefillInterval,    \* refill_interval_
          RateWindow,        \* rate_limit_window_
          SessionTimeout,    \* config_.session_timeout
          MaxSessions,       \* bound on the sessions created
          MaxConnectionsPerIp, MaxAuthFailures,        \* MAX_CONNECTIONS_PER_IP, MAX_AUTH_FAILURES
          MaxMessagesPerMinute, MaxBytesPerMinute,     \* MAX_MESSAGES_PER_MINUTE, MAX_BYTES_PER_MINUTE
          Sizes,             \* message sizes
          MaxNetSize,        \* the largest size recorded (1 MB)
          CounterMax,        \* UINT64_MAX
          BroadcastCapacity, \* capacity of message_buffer
          MaxNetCalls,       \* bound on the calls of each group
          MaxNetTime         \* bound on the clock

VARIABLES netNow,            \* steady_clock::now()
          buckets,           \* RateLimiter::buckets_: client -> tokens and last_refill
          granted,           \* client -> calls granted since its bucket was made (history)
          made,              \* client -> when its bucket was made (history)
          lastAdmitted,      \* AuthMiddleware::rate_limits_: user -> when it was last admitted
          answered,          \* the last request and the middleware's answer (history)
          sessions,          \* active_sessions_: token -> client and time of creation
          sessionCalls,      \* tokens drawn so far
          channel,           \* accept_secure_connection() in progress: where, with which descriptor
          openSockets,       \* descriptors open
          held,              \* descriptors whose SSL object the caller holds
          accepted,          \* descriptors accepted so far
          sequenceNumber,    \* sequence_number_
          datagrams,         \* broadcasts sent
          connections,       \* ip_metrics_: address -> connections recorded
          authFailures,      \* ip_metrics_: address -> failures recorded
          traffic            \* client_metrics_: client -> messages, bytes and first_seen

limiterVars == <<netNow, buckets, granted, made>>
middlewareVars == <<netNow, lastAdmitted, answered>>
sessionVars == <<netNow, sessions, sessionCalls>>
channelVars == <<channel, openSockets, held, accepted, sequenceNumber, datagrams>>
trafficVars == <<netNow, connections, authFailures, traffic>>

Fn0(S) == [x \in S |-> 0]
NetTick(kept) == netNow < MaxNetTime /\ netNow' = netNow + 1 /\ UNCHANGED kept
Put(f, x, v) == [y \in DOMAIN f \cup {x} |-> IF y = x THEN v ELSE f[y]]
Drop(f, x) == [y \in DOMAIN f \ {x} |-> f[y]]
NoEntry == [x \in {} |-> 0]

-----------------------------------------------------------------------------
(* RateLimiter *)
LimiterInit == netNow = 1 /\ buckets = NoEntry /\ granted = Fn0(NetClients) /\ made = Fn0(NetClients)


(* refill_bucket() on a bucket that exists: a fraction of an interval is given up at each refill. *)
Refilled(bucket) ==
  IF netNow - bucket.refilled < RefillInterval THEN bucket
  ELSE [tokens |-> Min({MaxTokens, bucket.tokens + (netNow - bucket.refilled) \div RefillInterval}), refilled |-> netNow]

BucketOf(client) ==
  IF client \in DOMAIN buckets THEN Refilled(buckets[client]) ELSE [tokens |-> MaxTokens, refilled |-> netNow]

TryConsume(client) ==
  /\ granted[client] < MaxNetCalls
  /\ LET bucket == BucketOf(client)
         enough == bucket.tokens >= 1
     IN /\ buckets' = Put(buckets, client, [bucket EXCEPT !.tokens = IF enough THEN @ - 1 ELSE @])
        /\ granted' = [granted EXCEPT ![client] = IF enough THEN @ + 1 ELSE @]
  /\ made' = [made EXCEPT ![client] = IF client \in DOMAIN buckets THEN @ ELSE netNow]
  /\ UNCHANGED netNow

ResetClient(client) ==
  /\ client \in DOMAIN buckets
  /\ buckets' = Drop(buckets, client)
  /\ granted' = [granted EXCEPT ![client] = 0] /\ made' = [made EXCEPT ![client] = 0]
  /\ UNCHANGED netNow

LimiterNext ==
  \/ NetTick(<<buckets, granted, made>>)
  \/ \E c \in NetClients : TryConsume(c) \/ ResetClient(c)

(***************************************************************************)
(* RateLimiter::try_consume(): since its bucket was made a client has been *)
(* granted at most a full bucket and one call per interval passed, however *)
(* its calls fall on the intervals.                                        *)
(***************************************************************************)
GrantsBounded ==
  \A c \in DOMAIN buckets : granted[c] <= MaxTokens + (netNow - made[c]) \div RefillInterval

-----------------------------------------------------------------------------
(* AuthMiddleware and the roles of SecurityUtils *)
Roles == {"ADMIN", "TRADER", "NONE"}           \* NONE: authenticate_user() fails
Operations == {"shutdown", "place_order", "other"}

MiddlewareInit == netNow = 1 /\ lastAdmitted = NoEntry /\ answered = NoEntry

IsAuthorizedForOperation(role, operation) ==
  CASE role = "NONE" -> FALSE
    [] operation = "shutdown" -> role = "ADMIN"
    [] OTHER -> TRUE

CheckRateLimit(user) == user \in DOMAIN lastAdmitted => netNow - lastAdmitted[user] >= RateWindow

(* The window is taken before the authorisation is checked. *)
AuthenticateAndAuthorize(user, role, operation, handlerThrows) ==
  LET admitted == role # "NONE" /\ CheckRateLimit(user)
      allowed == admitted /\ IsAuthorizedForOperation(role, operation)
  IN /\ lastAdmitted' = IF admitted THEN Put(lastAdmitted, user, netNow) ELSE lastAdmitted
     /\ answered' = [user |-> user, ran |-> allowed, result |-> allowed /\ ~handlerThrows]
     /\ UNCHANGED netNow

(* AuthGuard: the same checks without the rate limit. *)
ConstructAuthGuard(user, role, operation) ==
  /\ answered' = [user |-> user, ran |-> FALSE, result |-> IsAuthorizedForOperation(role, operation)]
  /\ UNCHANGED <<netNow, lastAdmitted>>

MiddlewareNext ==
  \/ NetTick(<<lastAdmitted, answered>>)
  \/ \E u \in NetClients, r \in Roles, o \in Operations :
       ConstructAuthGuard(u, r, o) \/ \E t \in BOOLEAN : AuthenticateAndAuthorize(u, r, o, t)

-----------------------------------------------------------------------------
(* ClientAuthenticator *)
SessionInit == netNow = 1 /\ sessions = NoEntry /\ sessionCalls = 0

Expired(session) == netNow - session.created > SessionTimeout

CreateSession(client) ==
  /\ sessionCalls < MaxSessions
  /\ sessionCalls' = sessionCalls + 1
  /\ sessions' = Put(sessions, sessionCalls + 1, [client |-> client, created |-> netNow, accessed |-> netNow])
  /\ UNCHANGED netNow

(* An access never prolongs a session. *)
ValidateSession(token) ==
  /\ sessions' = CASE token \notin DOMAIN sessions -> sessions
                   [] Expired(sessions[token]) -> Drop(sessions, token)
                   [] OTHER -> [sessions EXCEPT ![token].accessed = netNow]
  /\ UNCHANGED <<netNow, sessionCalls>>

InvalidateSession(token) == sessions' = Drop(sessions, token) /\ UNCHANGED <<netNow, sessionCalls>>

CleanupExpiredSessions ==
  /\ sessions' = [t \in {u \in DOMAIN sessions : ~Expired(sessions[u])} |-> sessions[t]]
  /\ UNCHANGED <<netNow, sessionCalls>>

SessionNext ==
  \/ NetTick(<<sessions, sessionCalls>>)
  \/ \E c \in NetClients : CreateSession(c)
  \/ \E t \in 1..sessionCalls : ValidateSession(t) \/ InvalidateSession(t)
  \/ CleanupExpiredSessions

(***************************************************************************)
(* validate_session() and cleanup_expired_sessions(): no access, however   *)
(* often repeated, is granted to a session older than its timeout.         *)
(***************************************************************************)
SessionsExpire ==
  \A t \in DOMAIN sessions : sessions[t].accessed - sessions[t].created <= SessionTimeout


-----------------------------------------------------------------------------
(* SecureTcpChannel, SecureNetworkLayer and AuthenticatedUdpBroadcast *)
ChannelInit ==
  /\ channel = "idle" /\ openSockets = {} /\ held = {} /\ accepted = 0
  /\ sequenceNumber = 0 /\ datagrams = <<>>

AcceptSocket ==
  /\ channel = "idle" /\ accepted < MaxNetCalls
  /\ accepted' = accepted + 1 /\ openSockets' = openSockets \cup {accepted + 1}
  /\ channel' = "ssl"
  /\ UNCHANGED <<held, sequenceNumber, datagrams>>

(* The error paths: the SSL object is freed and the descriptor closed. *)
Refuse ==
  /\ channel' = "idle"
  /\ openSockets' = openSockets \ {accepted}
  /\ UNCHANGED <<held, accepted, sequenceNumber, datagrams>>

Proceed(at) == channel' = at /\ UNCHANGED <<openSockets, held, accepted, sequenceNumber, datagrams>>

SslNew == channel = "ssl" /\ (Proceed("handshake") \/ Refuse)
SslAccept == channel = "handshake" /\ (Proceed("verify") \/ Refuse)
VerifyClientCertificate == channel = "verify" /\ (Proceed("identity") \/ Refuse)

(* authenticate_certificate(): a certificate with a common name identifies the client. *)
AuthenticateCertificate ==
  /\ channel = "identity"
  /\ \/ Refuse
     \/ channel' = "idle" /\ held' = held \cup {accepted} /\ UNCHANGED <<openSockets, accepted, sequenceNumber, datagrams>>

(* A read or a write leaves an object to its holder, who closes it. *)
CloseConnection(fd) ==
  /\ fd \in held
  /\ held' = held \ {fd} /\ openSockets' = openSockets \ {fd}
  /\ UNCHANGED <<channel, accepted, sequenceNumber, datagrams>>

HmacLen == 2
AuthHeaderSize == 1

(* The HMAC covers the payload alone; nothing else has the same one. *)
ComputeHmac(payload) == [i \in 1..HmacLen |-> [of |-> payload, byte |-> i]]

(* A number is used up although the datagram may not leave; the buffer must hold it all. *)
SendAuthenticatedMessage(size, sent) ==
  LET payload == [i \in 1..size |-> i]
      fits == AuthHeaderSize + size + HmacLen <= BroadcastCapacity
      datagram == [sequence |-> sequenceNumber, hmacSize |-> HmacLen, bytes |-> payload \o ComputeHmac(payload)]
  IN /\ sequenceNumber < MaxNetCalls
     /\ sequenceNumber' = IF fits THEN sequenceNumber + 1 ELSE sequenceNumber
     /\ datagrams' = IF fits /\ sent THEN Append(datagrams, datagram) ELSE datagrams
     /\ UNCHANGED <<channel, openSockets, held, accepted>>

VerifyMessageAuthenticity(datagram) ==
  /\ Len(datagram.bytes) >= datagram.hmacSize
  /\ LET payloadSize == Len(datagram.bytes) - datagram.hmacSize
         computed == ComputeHmac(SubSeq(datagram.bytes, 1, payloadSize))
     IN Len(computed) = datagram.hmacSize /\ computed = SubSeq(datagram.bytes, payloadSize + 1, Len(datagram.bytes))

ChannelNext ==
  \/ AcceptSocket \/ SslNew \/ SslAccept \/ VerifyClientCertificate \/ AuthenticateCertificate
  \/ \E fd \in held : CloseConnection(fd)
  \/ \E size \in Sizes, sent \in BOOLEAN : SendAuthenticatedMessage(size, sent)

(***************************************************************************)
(* accept_secure_tcp_connection(): whichever of the checks refuses it, an  *)
(* accepted socket is open exactly while the accept is still running or    *)
(* the caller holds it; and send_authenticated_message() sends only what   *)
(* verify_message_authenticity() accepts, under numbers never used twice.  *)
(***************************************************************************)
ChannelSettles ==
  /\ openSockets = held \cup (IF channel = "idle" THEN {} ELSE {accepted})
  /\ \A i \in DOMAIN datagrams :
       /\ VerifyMessageAuthenticity(datagrams[i])
       /\ \A j \in DOMAIN datagrams : i < j => datagrams[i].sequence < datagrams[j].sequence

-----------------------------------------------------------------------------
(* NetworkSecurityMonitor *)
TrafficInit ==
  /\ netNow = 1 /\ connections = Fn0(NetClients) /\ authFailures = Fn0(NetClients)
  /\ traffic = [c \in NetClients |-> [messages |-> 0, bytes |-> 0, first |-> 0]]

RecordConnection(ip) ==
  /\ connections[ip] < MaxNetCalls
  /\ connections' = [connections EXCEPT ![ip] = @ + 1]
  /\ UNCHANGED <<netNow, authFailures, traffic>>

RecordAuthenticationFailure(ip) ==
  /\ authFailures[ip] < MaxNetCalls
  /\ authFailures' = [authFailures EXCEPT ![ip] = @ + 1]
  /\ UNCHANGED <<netNow, connections, traffic>>

ShouldBlockConnection(ip) == connections[ip] > MaxConnectionsPerIp \/ authFailures[ip] > MaxAuthFailures

(* Mutant of WouldOverflow: the sum is compared after it has wrapped. *)
WrapsUnseen(seen, size) == (seen.bytes + size) % (CounterMax + 1) > CounterMax

WouldOverflow(seen, size) == seen.messages = CounterMax \/ seen.bytes > CounterMax - size

RecordMessage(client, size) ==
  LET seen == traffic[client]
  IN /\ size <= MaxNetSize /\ ~WouldOverflow(seen, size)
     /\ traffic' = [traffic EXCEPT ![client] =
          [messages |-> (seen.messages + 1) % (CounterMax + 1), bytes |-> (seen.bytes + size) % (CounterMax + 1),
           first |-> IF seen.first = 0 THEN netNow ELSE seen.first]]
     /\ UNCHANGED <<netNow, connections, authFailures>>

DetectAnomalousTrafficPatterns(client) ==
  LET seen == traffic[client]
      minutes == netNow - seen.first
  IN /\ seen.first # 0 /\ minutes > 0
     /\ seen.messages \div minutes > MaxMessagesPerMinute \/ seen.bytes \div minutes > MaxBytesPerMinute

TrafficNext ==
  \/ NetTick(<<connections, authFailures, traffic>>)
  \/ \E c \in NetClients : RecordConnection(c) \/ RecordAuthenticationFailure(c) \/ \E s \in Sizes : RecordMessage(c, s)

(***************************************************************************)
(* NetworkSecurityMonitor: what a client or an address has done is never   *)
(* forgotten: a count never wraps to a smaller one, so a client that is    *)
(* over a limit stays over it until time has passed, and an address once   *)
(* blocked stays blocked.                                                  *)
(***************************************************************************)
NothingForgotten ==
  [][\A c \in NetClients :
       /\ traffic'[c].bytes >= traffic[c].bytes /\ traffic'[c].messages >= traffic[c].messages
       /\ netNow' = netNow /\ DetectAnomalousTrafficPatterns(c) => DetectAnomalousTrafficPatterns(c)'
       /\ ShouldBlockConnection(c) => ShouldBlockConnection(c)']_trafficVars

=============================================================================
