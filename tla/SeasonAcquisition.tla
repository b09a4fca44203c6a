------------------------- MODULE SeasonAcquisition -------------------------
(***************************************************************************)
(* acquire_game_season_manifest (scraping/game_season_acquisition.py) with *)
(* the retry loop of the client (scraping/client.py) and the cache.  The   *)
(* manifest's pages are 1..Pages in manifest order.  Operators start runs  *)
(* of the same approved manifest, again after a run stopped, and possibly  *)
(* at the same time.  The client has max_429_retries=0 and                 *)
(* follow_redirects=False; its clock is left to the module Client.         *)
(*                                                                         *)
(* The cache is the page store that CacheWriter implements: the body is    *)
(* visible before its sidecar, and its writer takes it back when the       *)
(* sidecar cannot be published.                                            *)
(***************************************************************************)
EXTENDS Naturals

CONSTANTS
    Operators,      \* processes that run the manifest
    Pages,          \* the number of pages in the manifest
    Budgets,        \* values of --max-fetches, NoBudget for none
    NoBudget,
    Max5xx          \* the client's max_5xx_retries

ASSUME AcquisitionAssumption ==
    /\ Pages \in Nat /\ Max5xx \in Nat
    /\ Budgets \ {NoBudget} \subseteq Nat \ {0} /\ NoBudget \notin Nat

VARIABLES
    cached,         \* the pages whose body is in the archive cache
    run             \* each operator's current or last run

vars == <<cached, run>>

Entries == 1..Pages

Live == {"entry", "attempt", "reply", "body", "sidecar"}

Reasons == {"completed", "max_fetches", "rate_limited", "failed"}

(* A run.  Of the results, the totals _build_report takes from them. *)
Run == [step : Live \cup Reasons \cup {"crashed"},
        budget : Budgets \cup {NoBudget},
        index : 1..Pages + 1,   \* the entry the loop is at
        hits : Nat,             \* results with status cache_hit
        fetched : Nat,          \* results with status fetched
        stopped : 0..1,         \* the result of the entry the run stopped at
        requests : Nat,         \* the sum of the results' requests
        live : Nat,             \* live_requests
        count : Nat,            \* client.request_count
        before : Nat,           \* requests_before
        errors : 0..Max5xx,     \* 5xx replies to this page
        start : SUBSET Entries, \* history: the cache when the run began
        lost : SUBSET Entries]  \* history: pages another run has taken back since

Running(p) == run[p].step \in Live

TypeOK == cached \subseteq Entries /\ run \in [Operators -> Run]

NewRun == [step |-> "entry", budget |-> NoBudget, index |-> 1, hits |-> 0, fetched |-> 0,
           stopped |-> 0, requests |-> 0, live |-> 0, count |-> 0, before |-> 0,
           errors |-> 0, start |-> {}, lost |-> {}]

Init ==
    /\ cached \in SUBSET Entries
    /\ run = [p \in Operators |-> [NewRun EXCEPT !.step = "crashed"]]

Spent(budget, n) == budget # NoBudget /\ n >= budget

-----------------------------------------------------------------------------
(* acquire-game-season: a new client and new results over the same cache. *)
StartRun(p) ==
    /\ ~Running(p)
    /\ \E budget \in Budgets :
        run' = [run EXCEPT ![p] = [NewRun EXCEPT !.budget = budget, !.start = cached]]
    /\ UNCHANGED cached

Finish(p) ==
    /\ run[p].step = "entry" /\ run[p].index > Pages
    /\ run' = [run EXCEPT ![p].step = "completed"]
    /\ UNCHANGED cached

(* Variant: a hit counts as one request toward the batch. *)
CacheHit_Counts(p) ==
    /\ run[p].step = "entry" /\ run[p].index \in cached
    /\ run' = [run EXCEPT ![p].hits = @ + 1, ![p].index = @ + 1, ![p].live = @ + 1]
    /\ UNCHANGED cached

CacheHit(p) ==
    /\ run[p].step = "entry" /\ run[p].index \in cached
    /\ run' = [run EXCEPT ![p].hits = @ + 1, ![p].index = @ + 1]
    /\ UNCHANGED cached

(* The loop's own limit: a missing page after the last request of the batch. *)
StopAtMaxFetches(p) ==
    /\ run[p].step = "entry" /\ run[p].index \in Entries \ cached
    /\ Spent(run[p].budget, run[p].live)
    /\ run' = [run EXCEPT ![p].step = "max_fetches"]
    /\ UNCHANGED cached

(* Variant: asks for a page whether it is cached or not. *)
BeginFetch_Refetches(p) ==
    /\ run[p].step = "entry" /\ run[p].index \in Entries
    /\ ~Spent(run[p].budget, run[p].live)
    /\ run' = [run EXCEPT ![p].step = "attempt", ![p].before = run[p].count, ![p].errors = 0]
    /\ UNCHANGED cached

BeginFetch(p) ==
    /\ run[p].step = "entry" /\ run[p].index \in Entries \ cached
    /\ ~Spent(run[p].budget, run[p].live)
    /\ run' = [run EXCEPT ![p].step = "attempt", ![p].before = run[p].count, ![p].errors = 0]
    /\ UNCHANGED cached

(* The requests of the entry: request_count less requests_before. *)
Cost(p) == run[p].count - run[p].before

(* Variant: one request per entry, as the other acquisitions report. *)
Stop_OneRequest(p, status) ==
    run' = [run EXCEPT ![p].step = status, ![p].stopped = 1, ![p].requests = @ + 1]

(* _stopped_result: the run ends at this entry, as `status`. *)
Stop(p, status) ==
    run' = [run EXCEPT ![p].step = status, ![p].stopped = 1, ![p].requests = @ + Cost(p)]

-----------------------------------------------------------------------------
(* Variant: the client checks its budget only before a page's first attempt. *)
Attempt_UncheckedRetry(p) ==
    /\ run[p].step = "attempt"
    /\ run' = [run EXCEPT ![p].step = "reply", ![p].count = @ + 1]
    /\ UNCHANGED cached

(* _get_from_network: the budget is checked before every attempt. *)
Attempt(p) ==
    /\ run[p].step = "attempt"
    /\ ~Spent(run[p].budget, run[p].count)
    /\ run' = [run EXCEPT ![p].step = "reply", ![p].count = @ + 1]
    /\ UNCHANGED cached

(* RequestBudgetExhaustedError: the page is left for the next run. *)
BudgetExhausted(p) ==
    /\ run[p].step = "attempt"
    /\ Spent(run[p].budget, run[p].count)
    /\ Stop(p, "max_fetches")
    /\ UNCHANGED cached

ReplyPage(p) ==
    /\ run[p].step = "reply"
    /\ run' = [run EXCEPT ![p].step = "body"]
    /\ UNCHANGED cached

ReplyTooManyRequests(p) ==
    /\ run[p].step = "reply"
    /\ Stop(p, "rate_limited")
    /\ UNCHANGED cached

(* A 5xx is retried while the page has retries left. *)
ReplyServerError(p) ==
    /\ run[p].step = "reply" /\ run[p].errors < Max5xx
    /\ run' = [run EXCEPT ![p].step = "attempt", ![p].errors = @ + 1]
    /\ UNCHANGED cached

(* Variant: the error is reported and the loop goes on. *)
FetchFails_GoesOn(p) ==
    /\ run[p].step = "reply"
    /\ run' = [run EXCEPT ![p].step = "entry", ![p].index = @ + 1,
                          ![p].live = @ + Cost(p), ![p].requests = @ + Cost(p)]
    /\ UNCHANGED cached

(* The last 5xx, a redirect, any other bad status, a transport error, or    *)
(* content that validate_html_for_cache refuses.                            *)
FetchFails(p) ==
    /\ run[p].step = "reply"
    /\ Stop(p, "failed")
    /\ UNCHANGED cached

(* write_html_to_cache_safely makes the body visible ... *)
PublishBody(p) ==
    /\ run[p].step = "body" /\ run[p].index \notin cached
    /\ cached' = cached \cup {run[p].index}
    /\ run' = [run EXCEPT ![p].step = "sidecar"]

(* ... or raises: another run published the page first, or an I/O error; or  *)
(* its cleanup raises, and the page stays, with or without its sidecar.     *)
WriteFails(p) ==
    /\ run[p].step \in {"body", "sidecar"}
    /\ Stop(p, "failed")
    /\ UNCHANGED cached

(* The sidecar is there: the entry is fetched. *)
PublishSidecar(p) ==
    /\ run[p].step = "sidecar"
    /\ run' = [run EXCEPT ![p].step = "entry", ![p].index = @ + 1, ![p].fetched = @ + 1,
                          ![p].live = @ + Cost(p), ![p].requests = @ + Cost(p)]
    /\ UNCHANGED cached

Lose(r, page) == [r EXCEPT !.lost = @ \cup {page}]

(* The sidecar cannot be published: the body is removed again. *)
TakeBack(p) ==
    /\ run[p].step = "sidecar"
    /\ cached' = cached \ {run[p].index}
    /\ run' = [q \in Operators |->
                 IF q # p THEN Lose(run[q], run[p].index)
                 ELSE [run[p] EXCEPT !.step = "failed", !.stopped = 1,
                                     !.requests = @ + Cost(p)]]

(* The process is killed or interrupted: no report, and no rollback. *)
Crash(p) ==
    /\ Running(p)
    /\ run' = [run EXCEPT ![p].step = "crashed"]
    /\ UNCHANGED cached

-----------------------------------------------------------------------------
Step(p) ==
    \/ Finish(p) \/ CacheHit(p) \/ StopAtMaxFetches(p) \/ BeginFetch(p)
    \/ Attempt(p) \/ BudgetExhausted(p)
    \/ ReplyPage(p) \/ ReplyTooManyRequests(p) \/ ReplyServerError(p) \/ FetchFails(p)
    \/ PublishBody(p) \/ WriteFails(p) \/ PublishSidecar(p) \/ TakeBack(p)

Next == \E p \in Operators : StartRun(p) \/ Step(p) \/ Crash(p)

(* Somebody goes on rerunning the manifest, a running process goes on, the   *)
(* runs are not killed for ever, and neither the site nor the file system    *)
(* fails the same step for ever.                                             *)
Fairness ==
    /\ \A p \in Operators :
        /\ WF_vars(StartRun(p)) /\ WF_vars(Step(p))
        /\ SF_vars(ReplyPage(p)) /\ SF_vars(PublishBody(p)) /\ SF_vars(PublishSidecar(p))
    /\ <>[][\A p \in Operators : ~Crash(p)]_vars

Spec == Init /\ [][Next]_vars /\ Fairness

-----------------------------------------------------------------------------
(* remaining_entries and live_request_count of _build_report. *)
Remaining(r) == r.stopped + Pages - (r.hits + r.fetched + r.stopped)

(* No run sends more requests than --max-fetches, retries of a page at the  *)
(* end of the batch included, although the loop and the client count apart. *)
BudgetIsKept ==
    \A p \in Operators : run[p].budget # NoBudget => run[p].count <= run[p].budget

(* A run that reports completed leaves no page out, whoever cached it; what *)
(* may be missing is only a page that another run published, this run took  *)
(* for cached, and the other run then took back.                            *)
CompletedMeansCached ==
    \A p \in Operators : run[p].step = "completed" =>
        Entries \subseteq cached \cup run[p].lost /\ Remaining(run[p]) = 0

(* The report of a run that stopped accounts for every request it sent, the *)
(* retries and the page it stopped at included.                             *)
ReportCountsRequests ==
    \A p \in Operators : run[p].step \in Reasons => run[p].requests = run[p].count

(* A rerun resumes: it asks for a page that was cached when it began only   *)
(* after another run took it back, and leaves no page behind it missing.    *)
RunsResume ==
    \A p \in Operators :
        /\ run[p].step \in {"attempt", "reply", "body"} =>
              run[p].index \notin run[p].start \ run[p].lost
        /\ 1..run[p].index - 1 \subseteq cached \cup run[p].lost

(* Batch after batch, the season gets done, however small the batches are.  *)
SeasonGetsDone == <>(cached = Entries)
=============================================================================
