----------------------------- MODULE SafeFetch -----------------------------
(***************************************************************************)
(* src/review/target-policy.js: one call of safeFetchWithTrace and, if a   *)
(* response comes, readResponseText on it.  Every hop of a redirect chain  *)
(* is checked, looked up and requested in turn while one deadline runs.    *)
(*                                                                         *)
(* A URL is its origin: paths matter to nothing here.  An origin is Secure *)
(* (https), Barred (assertUrlNotObviouslyPrivate refuses it: scheme,       *)
(* credentials, port, a private literal or a blocked name), or neither.    *)
(* Answers of the name server and of the target are arbitrary.             *)
(***************************************************************************)
EXTENDS Integers, Sequences

CONSTANTS
    Origins,
    Secure,         \* origins whose scheme is https
    Barred,         \* origins validateUrlShape or the host lists refuse
    MaxRedirects,   \* options.maxRedirects
    Timeout,        \* options.timeoutMs in ticks of the clock
    MaxBytes,       \* maxBytes of readResponseText
    MaxClock        \* bound on the clock

ASSUME OriginAssumption == Secure \subseteq Origins /\ Barred \subseteq Origins
ASSUME LimitAssumption ==
    /\ {MaxRedirects, Timeout, MaxBytes, MaxClock} \subseteq Nat
    /\ Timeout < MaxClock

VARIABLES
    call,       \* the arguments: url, caller, url, method, secrets, body
    at,         \* where the call is
    url, init,  \* current and currentInit
    hop,        \* redirect
    clock,      \* ticks since startedAt
    total,      \* bytes read
    code,       \* the error it ended in
    sent        \* history: the requests made, with the ticks of each

fvars == <<call, at, url, init, hop, clock, total, code, sent>>

Methods == {"GET", "HEAD", "OPTIONS", "POST"}
Inits == [method : Methods, secret : BOOLEAN, body : BOOLEAN]
Callers == {"preflight", "github", "endpoint", "webhook"}
Calls == [caller : Callers, url : Origins, init : Inits]

\* What each caller asks for: the preflight inspector probes with https only
\* and passes deadlineAt on; githubJson sends its token; the endpoint inspector
\* probes with nothing; sendWebhook posts a signed event.
Asked(c) ==
    CASE c.caller = "preflight" -> c.init.method # "OPTIONS" /\ ~c.init.secret
                                   /\ c.init.body = (c.init.method = "POST")
      [] c.caller = "github" -> c.init.method = "GET" /\ ~c.init.body
      [] c.caller = "endpoint" -> c.init.method # "POST" /\ ~c.init.body
                                  /\ ~c.init.secret
      [] c.caller = "webhook" -> c.init.method = "POST" /\ c.init.body
                                 /\ c.init.secret
HttpsOnly == call.caller = "preflight"
Deadline == call.caller = "preflight"
Requests == [to : Origins, init : Inits, tick : Nat]
Codes == {"none", "TARGET_ACCESS", "TARGET_PROTOCOL_BLOCKED",
          "TARGET_DNS_FAILED", "TARGET_TIMEOUT", "TARGET_UNREACHABLE",
          "TARGET_REDIRECT_BLOCKED", "TARGET_RESPONSE_TOO_LARGE", "STREAM"}
RedirectStatuses == {301, 302, 303, 307, 308}

\* "check", "lookup" and "fetch" are inside safeFetchWithTrace, "body" is the
\* response in the caller's hands or in readResponseText.
Running == {"check", "lookup", "fetch"}
Ended == {"done", "failed"}

FetchTypeOK ==
    /\ call \in Calls
    /\ at \in Running \cup {"body"} \cup Ended
    /\ url \in Origins /\ init \in Inits
    /\ hop \in 0..MaxRedirects
    /\ clock \in 0..MaxClock
    /\ total \in 0..MaxBytes
    /\ code \in Codes
    /\ sent \in Seq(Requests)

FetchInit ==
    /\ call \in Calls /\ Asked(call)
    /\ at = "check" /\ url = call.url /\ init = call.init
    /\ hop = 0 /\ clock = 0 /\ total = 0
    /\ code = "none" /\ sent = <<>>

Fail(error) == at' = "failed" /\ code' = error
Wire(i) == [to |-> url, init |-> i, tick |-> clock]
-----------------------------------------------------------------------------
\* Mutant of Check: only the first hop is looked at.
CheckFirstHop ==
    /\ at = "check"
    /\ \/ hop = 0 /\ HttpsOnly /\ url \notin Secure /\ Fail("TARGET_PROTOCOL_BLOCKED")
       \/ /\ hop = 0 /\ HttpsOnly => url \in Secure
          /\ IF url \in Barred THEN Fail("TARGET_ACCESS")
                               ELSE at' = "lookup" /\ code' = code
    /\ UNCHANGED <<call, url, init, hop, clock, total, sent>>

\* The scheme and the shape of the URL, at the head of every hop.
Check ==
    /\ at = "check"
    /\ \/ HttpsOnly /\ url \notin Secure /\ Fail("TARGET_PROTOCOL_BLOCKED")
       \/ /\ HttpsOnly => url \in Secure
          /\ IF url \in Barred THEN Fail("TARGET_ACCESS")
                               ELSE at' = "lookup" /\ code' = code
    /\ UNCHANGED <<call, url, init, hop, clock, total, sent>>

\* The name server's answer; the time left is looked at after it.
Lookup ==
    /\ at = "lookup"
    /\ \/ Fail("TARGET_DNS_FAILED") /\ UNCHANGED sent
       \/ Fail("TARGET_ACCESS") /\ UNCHANGED sent
       \/ clock >= Timeout /\ Fail("TARGET_TIMEOUT") /\ UNCHANGED sent
       \/ clock < Timeout /\ sent' = Append(sent, Wire(init))
                          /\ at' = "fetch" /\ code' = code
    /\ UNCHANGED <<call, url, init, hop, clock, total>>

\* Who reads the body: the preflight inspector unless it sent HEAD, the endpoint
\* inspector after GET, sendWebhook when the status is not 2xx.
Reads ==
    CASE call.caller = "preflight" -> {call.init.method # "HEAD"}
      [] call.caller = "github" -> {TRUE}
      [] call.caller = "endpoint" -> {call.init.method = "GET"}
      [] call.caller = "webhook" -> BOOLEAN

Respond ==
    /\ at = "fetch"
    /\ \E read \in Reads : at' = IF read THEN "body" ELSE "done"
    /\ UNCHANGED <<call, url, init, hop, clock, total, code, sent>>

\* redirectChangesToGet.
ChangesToGet(status, method) ==
    \/ status = 303 /\ method # "HEAD"
    \/ status \in {301, 302} /\ method = "POST"

\* Mutant of NextInit: the secrets are decided by the first origin alone.
NextInitByStart(status, next) ==
    [method |-> IF ChangesToGet(status, init.method) THEN "GET" ELSE init.method,
     secret |-> call.init.secret /\ next = call.url,
     body |-> init.body /\ ~ChangesToGet(status, init.method)]

\* Mutant of NextInit: the method changes and the body stays.
NextInitKeepsBody(status, next) ==
    [method |-> IF ChangesToGet(status, init.method) THEN "GET" ELSE init.method,
     secret |-> init.secret /\ next = url,
     body |-> init.body]

\* Another origin never gets the credentials and payment headers, nor does any
\* hop after it; the body goes with the method.
NextInit(status, next) ==
    [method |-> IF ChangesToGet(status, init.method) THEN "GET" ELSE init.method,
     secret |-> init.secret /\ next = url,
     body |-> init.body /\ ~ChangesToGet(status, init.method)]

Redirect ==
    /\ at = "fetch"
    /\ IF hop = MaxRedirects
       THEN Fail("TARGET_REDIRECT_BLOCKED") /\ UNCHANGED <<url, init, hop>>
       ELSE \/ Fail("TARGET_REDIRECT_BLOCKED") /\ UNCHANGED <<url, init, hop>>
            \/ \E status \in RedirectStatuses, next \in Origins :
                /\ init' = NextInit(status, next)
                /\ url' = next /\ hop' = hop + 1
                /\ at' = "check" /\ code' = code
    /\ UNCHANGED <<call, clock, total, sent>>

Unreachable ==
    /\ at = "fetch" /\ Fail("TARGET_UNREACHABLE")
    /\ UNCHANGED <<call, url, init, hop, clock, total, sent>>

\* The timer aborts the request; it is cleared once the headers are there.
Abort ==
    /\ at = "fetch" /\ clock >= Timeout /\ Fail("TARGET_TIMEOUT")
    /\ UNCHANGED <<call, url, init, hop, clock, total, sent>>

\* readResponseText: the content length, then chunk after chunk.
TooLarge ==
    /\ at = "body" /\ total = 0 /\ Fail("TARGET_RESPONSE_TOO_LARGE")
    /\ UNCHANGED <<call, url, init, hop, clock, total, sent>>

Chunk ==
    /\ at = "body"
    /\ Deadline => clock < Timeout
    /\ IF total = MaxBytes
       THEN Fail("TARGET_RESPONSE_TOO_LARGE") /\ UNCHANGED total
       ELSE total' = total + 1 /\ UNCHANGED <<at, code>>
    /\ UNCHANGED <<call, url, init, hop, clock, sent>>

LastChunk ==
    /\ at = "body" /\ at' = "done"
    /\ Deadline => clock < Timeout
    /\ UNCHANGED <<call, url, init, hop, clock, total, code, sent>>

\* A broken stream is not a TargetAccessError.
Break ==
    /\ at = "body" /\ Fail("STREAM")
    /\ UNCHANGED <<call, url, init, hop, clock, total, sent>>

\* readChunk with a deadline.
ChunkTimeout ==
    /\ at = "body" /\ Deadline /\ clock >= Timeout /\ Fail("TARGET_TIMEOUT")
    /\ UNCHANGED <<call, url, init, hop, clock, total, sent>>

\* Time passes while something is awaited.  A timer that is due fires before
\* the clock goes on; nothing limits a lookup or a read without deadline.
Tick ==
    /\ clock < MaxClock
    /\ \/ at = "lookup"
       \/ at = "fetch" /\ clock < Timeout
       \/ at = "body" /\ (Deadline => clock < Timeout)
    /\ clock' = clock + 1
    /\ UNCHANGED <<call, at, url, init, hop, total, code, sent>>

Hop == Check \/ Lookup \/ Respond \/ Redirect \/ Unreachable \/ Abort
Read == TooLarge \/ Chunk \/ LastChunk \/ Break \/ ChunkTimeout
FetchNext == Hop \/ Read \/ Tick

\* The event loop runs, the resolver answers at last, timers fire.  Nothing is
\* assumed of the target.
FetchFairness ==
    WF_fvars(Check) /\ WF_fvars(Lookup) /\ WF_fvars(Abort)
    /\ WF_fvars(ChunkTimeout) /\ WF_fvars(Tick)

FetchSpec == FetchInit /\ [][FetchNext]_fvars /\ FetchFairness
-----------------------------------------------------------------------------
\* Credentials and payment headers reach no origin but the first, and once the
\* chain has left it they do not come back, not even on a return to it.
SecretsStayHome ==
    \A i \in 1..Len(sent) :
        sent[i].init.secret => \A j \in 1..i : sent[j].to = call.url

\* Every request of the chain went to an origin that the policy allows, with
\* the scheme the caller asked for, while time was left, and there are never
\* more than the redirects allow.
EveryHopAllowed ==
    /\ Len(sent) <= MaxRedirects + 1
    /\ \A i \in 1..Len(sent) :
        /\ sent[i].to \notin Barred
        /\ HttpsOnly => sent[i].to \in Secure
        /\ sent[i].tick < Timeout

\* A payload is sent along unchanged until the chain turns it into a plain GET,
\* and never without its POST: no hop submits an empty POST in its place.
PayloadFollowsMethod ==
    \A i \in 1..Len(sent) :
        /\ sent[i].init.body = (call.init.body /\ sent[i].init.method = "POST")
        /\ sent[i].init.method \in {call.init.method, "GET"}

\* A call comes to an end whatever the target does.  Without a deadline for the
\* body (inspectors, webhooks) only the headers are certain to come or fail.
CallEnds == <>(at \in Ended \/ (at = "body" /\ ~Deadline))
=============================================================================
