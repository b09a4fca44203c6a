------------------------------- MODULE Client -------------------------------
(***************************************************************************)
(* BasketballReferenceClient (scraping/client.py): one client, used by one *)
(* acquisition for a number of pages, with its clock.  The client is       *)
(* synchronous, so time passes only while it sleeps, while a request is in *)
(* flight, and while the caller works between two pages.  Times are        *)
(* seconds.  An attempt is one call of httpx.Client.get; a client that     *)
(* follows redirects may send further requests inside it, at once, which   *)
(* this client neither paces nor counts.                                   *)
(***************************************************************************)
EXTENDS Integers, FiniteSetsExt

CONSTANTS
    Rpms, MinDelays,    \* scraper_max_requests_per_minute, scraper_min_delay_seconds
    max_429_retries, max_5xx_retries,
    MaxRedirects,       \* max_redirects of httpx.Client: 20 unless it is told otherwise
    MaxPages,           \* bound: how many pages the caller fetches
    Latencies,          \* how long a response, or a transport error, may take
    RetryAfters,        \* the Retry-After values a 429 may carry
    Pauses              \* how long the caller may work between two pages

Floor == 6              \* MINIMUM_SCRAPER_DELAY_SECONDS
HardCap == 20           \* requests per minute

ASSUME ClientAssumption ==
    /\ Rpms \subseteq Nat \ {0} /\ MinDelays \subseteq Nat
    /\ max_429_retries \in Nat /\ max_5xx_retries \in Nat
    /\ MaxRedirects \in Nat /\ MaxPages \in Nat
    /\ Latencies \subseteq Nat /\ RetryAfters \subseteq Nat /\ Pauses \subseteq Nat

VARIABLES
    rpm, minDelay,      \* the settings of this client
    follows,            \* whether it follows redirects: all but acquire-game-season's do
    step,               \* what the client does next
    now,                \* the monotonic clock
    lastResponse,       \* _last_request_at, -1 for None
    tooMany, errors,    \* 429 and 5xx replies to the page being fetched
    fetched,            \* pages the caller has started
    hops,               \* redirects followed within this attempt
    lastSent,           \* history: when the last HTTP request was sent, -1 for never
    waitUntil,          \* history: the time a 429 asked to wait for
    attempts,           \* history: attempts made at the page being fetched
    requests            \* history: HTTP requests sent for it, redirects included

settings == <<rpm, minDelay, follows>>
clientVars == <<settings, step, now, lastResponse, tooMany, errors, fetched, hops,
                lastSent, waitUntil, attempts, requests>>

ClientTypeOK ==
    /\ rpm \in Rpms /\ minDelay \in MinDelays /\ follows \in BOOLEAN
    /\ step \in {"new", "idle", "attempt", "in_flight", "closed"}
    /\ now \in Nat /\ lastResponse \in Nat \cup {-1} /\ lastSent \in Nat \cup {-1}
    /\ tooMany \in 0..max_429_retries + 1 /\ errors \in 0..max_5xx_retries
    /\ fetched \in 0..MaxPages /\ hops \in 0..MaxRedirects
    /\ waitUntil \in Nat
    /\ attempts \in 0..(1 + max_429_retries + max_5xx_retries)    \* whatever replies alternate
    /\ requests \in Nat

ClientInit ==
    /\ rpm \in Rpms /\ minDelay \in MinDelays /\ follows \in BOOLEAN
    /\ step = "new"
    /\ now = 0 /\ lastResponse = -1 /\ lastSent = -1 /\ waitUntil = 0
    /\ tooMany = 0 /\ errors = 0 /\ fetched = 0
    /\ hops = 0 /\ attempts = 0 /\ requests = 0

(* The gap _wait_for_rate_limit asks for after a response.  The settings a  *)
(* caller builds by hand may be below the floor.  Rates divide a minute.    *)
RequiredDelay == Max({minDelay, 60 \div Min({rpm, HardCap}), Floor})

(* The constructor refuses a rate above the hard cap. *)
Construct ==
    /\ step = "new"
    /\ step' = IF rpm > HardCap THEN "closed" ELSE "idle"
    /\ UNCHANGED <<settings, now, lastResponse, tooMany, errors, fetched, hops,
                   lastSent, waitUntil, attempts, requests>>

StartFetch ==
    /\ step = "idle" /\ fetched < MaxPages
    /\ \E pause \in Pauses : now' = now + pause
    /\ fetched' = fetched + 1
    /\ tooMany' = 0 /\ errors' = 0 /\ attempts' = 0 /\ requests' = 0
    /\ step' = "attempt"
    /\ UNCHANGED <<settings, lastResponse, hops, lastSent, waitUntil>>

(* Variant: the gap is kept between pages only, not before a retry. *)
Send_RetriesAtOnce ==
    LET gap == RequiredDelay - (now - lastResponse) IN
    /\ step = "attempt"
    /\ now' = IF lastResponse = -1 \/ gap <= 0 \/ attempts > 0 THEN now ELSE now + gap
    /\ lastSent' = now'
    /\ hops' = 0 /\ attempts' = attempts + 1 /\ requests' = requests + 1
    /\ step' = "in_flight"
    /\ UNCHANGED <<settings, lastResponse, tooMany, errors, fetched, waitUntil>>

(* _wait_for_rate_limit, then the attempt's first request.  The first       *)
(* attempt of a client does not wait.                                       *)
Send ==
    LET gap == RequiredDelay - (now - lastResponse) IN
    /\ step = "attempt"
    /\ now' = IF lastResponse = -1 \/ gap <= 0 THEN now ELSE now + gap
    /\ lastSent' = now'
    /\ hops' = 0 /\ attempts' = attempts + 1 /\ requests' = requests + 1
    /\ step' = "in_flight"
    /\ UNCHANGED <<settings, lastResponse, tooMany, errors, fetched, waitUntil>>

(* httpx follows a redirect inside _client.get: the next request goes out   *)
(* at once.  One redirect too many raises, like a transport error, and a    *)
(* client that follows none gets the redirect as a bad status.              *)
Redirect(latency) ==
    /\ step = "in_flight" /\ follows /\ hops < MaxRedirects
    /\ now' = now + latency
    /\ lastSent' = now'
    /\ hops' = hops + 1 /\ requests' = requests + 1
    /\ UNCHANGED <<settings, step, lastResponse, tooMany, errors, fetched, waitUntil, attempts>>

(* The last response of the attempt arrives: its time is what the next gap  *)
(* is measured from.                                                        *)
Arrives(latency) ==
    /\ step = "in_flight"
    /\ lastResponse' = now + latency

Succeed(latency) ==
    /\ Arrives(latency)
    /\ now' = now + latency
    /\ step' = "idle"
    /\ UNCHANGED <<settings, tooMany, errors, fetched, hops, lastSent, waitUntil,
                   attempts, requests>>

(* 429: raise once the retries are spent, else sleep at least a minute.  A  *)
(* raised exception ends the acquisition, which closes the client.          *)
TooManyRequests(latency, retryAfter) ==
    /\ Arrives(latency)
    /\ tooMany' = tooMany + 1
    /\ IF tooMany' > max_429_retries
       THEN step' = "closed" /\ now' = now + latency
       ELSE step' = "attempt" /\ now' = now + latency + Max({retryAfter, 60})
    /\ waitUntil' = now + latency + retryAfter
    /\ UNCHANGED <<settings, errors, fetched, hops, lastSent, attempts, requests>>

(* 5xx: sleep a little longer each time, then give up. *)
ServerError(latency) ==
    /\ Arrives(latency)
    /\ IF errors < max_5xx_retries
       THEN errors' = errors + 1 /\ step' = "attempt" /\ now' = now + latency + 2 * errors'
       ELSE step' = "closed" /\ now' = now + latency /\ UNCHANGED errors
    /\ UNCHANGED <<settings, tooMany, fetched, hops, lastSent, waitUntil,
                   attempts, requests>>

(* Any other bad status: raise_for_status. *)
BadStatus(latency) ==
    /\ Arrives(latency)
    /\ now' = now + latency
    /\ step' = "closed"
    /\ UNCHANGED <<settings, tooMany, errors, fetched, hops, lastSent, waitUntil,
                   attempts, requests>>

(* A timeout or a connection error leaves _last_request_at as it was, so a  *)
(* client that went on would not wait.  Every acquisition stops instead.    *)
TransportError(latency) ==
    /\ step = "in_flight"
    /\ now' = now + latency
    /\ step' = "closed"
    /\ UNCHANGED <<settings, lastResponse, tooMany, errors, fetched, hops,
                   lastSent, waitUntil, attempts, requests>>

Reply ==
    \E latency \in Latencies :
        \/ Succeed(latency) \/ ServerError(latency) \/ BadStatus(latency)
        \/ TransportError(latency) \/ Redirect(latency)
        \/ \E retryAfter \in RetryAfters : TooManyRequests(latency, retryAfter)

ClientNext == Construct \/ StartFetch \/ Send \/ Reply

ClientSpec == ClientInit /\ [][ClientNext]_clientVars

-----------------------------------------------------------------------------
(* Two attempts of one client are never closer than the policy floor, the   *)
(* configured delay and the configured rate allow: not across pages, not    *)
(* across retries, not after a slow answer, whatever the settings say, and  *)
(* an attempt counts its gap from the last HTTP request of the attempt      *)
(* before, redirected ones included.  A client that follows no redirects    *)
(* paces every HTTP request so; one that does sends at most MaxRedirects    *)
(* more in an attempt, unpaced.  No HTTP request at all is sent before a    *)
(* 429's Retry-After has passed, and a page costs no more attempts than     *)
(* both kinds of retry together allow (ClientTypeOK).                       *)
RequestsArePaced ==
    /\ [](ClientTypeOK)
    /\ [][requests' > requests /\ lastSent # -1 /\ (attempts' > attempts \/ ~follows)
             => lastSent' - lastSent >= Max({Floor, minDelay, 60 \div Min({rpm, HardCap})})
         ]_requests
    /\ [][requests' > requests => lastSent' >= waitUntil]_requests
    /\ [](/\ attempts <= requests /\ requests <= attempts * (1 + MaxRedirects)
          /\ ~follows => requests = attempts)
=============================================================================
