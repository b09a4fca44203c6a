---------------------------- MODULE Acquisitions ----------------------------
(***************************************************************************)
(* The four older acquisition commands over one archive: backfill acquire  *)
(* (scraping/backfill_manifest.py), acquire-nba-team-seasons               *)
(* (nba_team_season_acquisition.py), acquire-player-pages                  *)
(* (player_page_acquisition.py) and acquire-game-pilot                     *)
(* (game_pilot_acquisition.py).  They run one at a time, as the docs ask   *)
(* ("Sequential only"), and stop, are killed and are rerun in any order.   *)
(* The first two share the team-season pages.                              *)
(*                                                                         *)
(* The commands differ in what the model keeps: where the manifest comes   *)
(* from, how the page is written, whether its content is checked, how many *)
(* 429 replies are waited out, what is counted, and what a failure leaves. *)
(* Not covered: the wording of reports, and the clock (module Client).     *)
(***************************************************************************)
EXTENDS Integers, SequencesExt

CONSTANTS
    TeamPages, PlayerPages, PilotPages, \* numbers, in manifest order
    Years,              \* season years
    Files,              \* manifest files, [approved, policy, maxUrls, entries]
    Options,            \* the [limit, player, start, end] filters in use
    All,                \* a filter that is not given
    NotThere,           \* a player without a row in core.players
    Max5xx,             \* the client's max_5xx_retries
    Max429,             \* its max_429_retries where the command does not set it to 0
    MaxRedirects        \* max_redirects of its httpx.Client, which follows them

Pages == TeamPages \cup PlayerPages \cup PilotPages

Commands == {"backfill", "team", "player", "pilot"}

ASSUME AcquisitionsAssumption ==
    /\ Pages \subseteq Nat /\ IsFiniteSet(Pages) /\ Years \subseteq Nat
    /\ Max5xx \in Nat /\ Max429 \in Nat /\ MaxRedirects \in Nat
    /\ \A f \in Files : f.entries \in Seq(Nat)
    /\ \A o \in Options :
        /\ o.limit \in (Nat \ {0}) \cup {All} /\ o.player \in PlayerPages \cup {All}
        /\ o.start \in Years \cup {All} /\ o.end \in Years \cup {All}
    /\ PlayerPages \cap (TeamPages \cup PilotPages) = {} /\ TeamPages \cap PilotPages = {}

VARIABLES
    body,               \* what is under the page's final name
    sidecar,            \* the pages that have a sidecar
    catalog,            \* the season years core.player_seasons has of each player
    run,                \* the current or last run
    cut                 \* history: pages a set began to write and did not finish

vars == <<body, sidecar, catalog, run, cut>>

Checked == {"attempt", "reply", "write", "publish", "open", "text", "meta"}

Live == {"entry"} \cup Checked

(* A run ended with a report, with a bare exception, or was killed. *)
Reported == {"completed", "rate_limited", "failed"}

TypeOK ==
    /\ body \in [Pages -> {"none", "partial", "junk", "whole"}]
    /\ sidecar \subseteq Pages
    /\ catalog \in [PlayerPages -> {NotThere} \cup SUBSET Years]
    /\ cut \subseteq Pages
    /\ run \in [step : Live \cup Reported \cup {"raised", "killed"}, command : Commands,
                manifest : Seq(Pages), index : Nat,
                planned : Nat,                  \* estimated_fetch_count of a dry run before
                hits : SUBSET Pages, fetched : SUBSET Pages, stopped : SUBSET Pages,
                html : {"junk", "whole"},       \* what the client returned
                live : Nat,                     \* live_request_count
                count : Nat, before : Nat,      \* client.request_count, and at the entry
                sent : Nat,                     \* history: HTTP requests sent
                refusals : 0..Max429, errors : 0..Max5xx]

NoRun == [step |-> "killed", command |-> "team", manifest |-> <<>>, index |-> 1, planned |-> 0,
          hits |-> {}, fetched |-> {}, stopped |-> {}, html |-> "whole",
          live |-> 0, count |-> 0, before |-> 0, sent |-> 0, refusals |-> 0, errors |-> 0]

(* A run without a report: nothing of it is left. *)
Lost(how) == [NoRun EXCEPT !.step = how]

Init ==
    /\ body = [p \in Pages |-> "none"] /\ sidecar = {}
    /\ catalog = [p \in PlayerPages |-> NotThere]
    /\ run = NoRun
    /\ cut = {}

Running == run.step \in Live

-----------------------------------------------------------------------------
(* The loaders add players and their seasons between the runs. *)
LoadPlayer(p, years) ==
    /\ ~Running
    /\ catalog[p] # NotThere => catalog[p] \subseteq years /\ catalog[p] # years
    /\ catalog' = [catalog EXCEPT ![p] = years]
    /\ UNCHANGED <<body, sidecar, run, cut>>

InRange(year, o) ==
    (o.start # All => o.start <= year) /\ (o.end # All => year <= o.end)

(* The listings of the pages in their order: ORDER BY makes it just one.    *)
InOrder(pages) == {s \in SetToSeqs(pages) : \A i, j \in DOMAIN s : i < j => s[i] < s[j]}

Limited(o, seq) == IF o.limit = All \/ Len(seq) <= o.limit THEN seq ELSE SubSeq(seq, 1, o.limit)

(* _build_unfiltered_entries, and _build_season_filtered_entries. *)
Unfiltered(o) == {p \in PlayerPages : catalog[p] # NotThere /\ o.player \in {All, p}}

SeasonFiltered(o) == {p \in Unfiltered(o) : \E year \in catalog[p] : InRange(year, o)}

PlayerManifests(o) ==
    {Limited(o, s) :
        s \in InOrder(IF o.start = All /\ o.end = All THEN Unfiltered(o) ELSE SeasonFiltered(o))}

(* _validate_manifest_inputs. *)
Accepted(o) == o.start # All /\ o.end # All => o.start <= o.end

(* A range of seasons with at least one page, a season after the other. *)
Seasons(first, last) == TeamPages \cap (first..last)

TeamManifests == (UNION {InOrder(Seasons(m, n)) : m, n \in TeamPages}) \ {<<>>}

(* _validate_entries: URLs of the command's pages, each once. *)
ValidEntries(entries, pages) == IsInjective(entries) /\ Range(entries) \subseteq pages

(* The gate of a manifest file: approved, within the policy and the cap. *)
Gate(file, pages, cap) ==
    /\ file.approved /\ file.policy
    /\ file.maxUrls \in 1..cap
    /\ Len(file.entries) \in 1..file.maxUrls
    /\ ValidEntries(file.entries, pages)

BackfillManifests == {f.entries : f \in {f \in Files : Gate(f, TeamPages, 5)}}

PilotManifests == {f.entries : f \in {f \in Files : Gate(f, PilotPages, 100)}}

Manifests(command) ==
    CASE command = "player" -> UNION {PlayerManifests(o) : o \in {o \in Options : Accepted(o)}}
      [] command = "team" -> TeamManifests
      [] command = "backfill" -> BackfillManifests
      [] command = "pilot" -> PilotManifests

(* The dry run of a manifest: one fetch for every page that is not there. *)
Estimate(manifest) == Quantify(Range(manifest), LAMBDA p : body[p] = "none")

StartRun(command, manifest) ==
    /\ ~Running
    /\ manifest \in Manifests(command)
    /\ run' = [NoRun EXCEPT !.step = "entry", !.command = command, !.manifest = manifest,
                            !.planned = Estimate(manifest)]
    /\ UNCHANGED <<body, sidecar, catalog, cut>>

-----------------------------------------------------------------------------
AtEntry == run.step = "entry" /\ run.index <= Len(run.manifest)

page0 == run.manifest[run.index]

(* Variant: every page is asked for again. *)
CacheHit_Refetches ==
    /\ AtEntry /\ body[page0] # "none"
    /\ run' = [run EXCEPT !.step = "attempt", !.before = run.count]
    /\ UNCHANGED <<body, sidecar, catalog, cut>>

(* Variant: the first page that is there ends the loop. *)
CacheHit_Returns ==
    /\ AtEntry /\ body[page0] # "none"
    /\ run' = [run EXCEPT !.hits = @ \cup {page0}, !.step = "completed"]
    /\ UNCHANGED <<body, sidecar, catalog, cut>>

(* path.exists(): whatever is there counts, a truncated body too. *)
CacheHit ==
    /\ AtEntry /\ body[page0] # "none"
    /\ run' = [run EXCEPT !.hits = @ \cup {page0}, !.index = @ + 1]
    /\ UNCHANGED <<body, sidecar, catalog, cut>>

BeginFetch ==
    /\ AtEntry /\ body[page0] = "none"
    /\ run' = [run EXCEPT !.step = "attempt", !.before = run.count]
    /\ UNCHANGED <<body, sidecar, catalog, cut>>

Finish ==
    /\ run.step = "entry" /\ run.index > Len(run.manifest)
    /\ run' = [run EXCEPT !.step = "completed"]
    /\ UNCHANGED <<body, sidecar, catalog, cut>>

(* Variant: the pilot, too, counts one request per entry. *)
Requests_OnePerEntry == 1

(* The requests an entry reports: the pilot asks the client, the others      *)
(* count one per page.                                                      *)
Requests == IF run.command = "pilot" THEN run.count - run.before ELSE 1

(* The entry's result; nothing of its fetch is kept. *)
Counted(r) ==
    [r EXCEPT !.live = @ + Requests, !.before = 0, !.refusals = 0, !.errors = 0,
              !.html = "whole"]

(* The result ends the run, and the report is printed. *)
Stopped(status) == Counted([run EXCEPT !.step = status, !.stopped = {page0}])

Stop(status) == run' = Stopped(status) /\ UNCHANGED <<body, sidecar, catalog, cut>>

(* The result is recorded, and the loop goes on. *)
Fetched == Counted([run EXCEPT !.step = "entry", !.fetched = @ \cup {page0},
                               !.index = @ + 1])

-----------------------------------------------------------------------------
(* client._get_from_network counts an attempt before it knows how many HTTP  *)
(* requests it takes: none of these commands turns redirects off.           *)
Attempt ==
    /\ run.step = "attempt"
    /\ \E redirects \in 0..MaxRedirects :
          run' = [run EXCEPT !.step = "reply", !.count = @ + 1, !.sent = @ + 1 + redirects]
    /\ UNCHANGED <<body, sidecar, catalog, cut>>

(* Variant: no command looks at the content. *)
Validates_Never == FALSE

Validates == run.command # "backfill"

(* A page, or a reply of status 200 that is no HTML document, which only     *)
(* validate_html_for_cache and its copies look at.                          *)
ReplyPage(html) ==
    /\ run.step = "reply"
    /\ html = "whole" \/ ~Validates
    /\ run' = [run EXCEPT !.step = IF run.command = "backfill" THEN "open" ELSE "write",
                          !.html = html]
    /\ UNCHANGED <<body, sidecar, catalog, cut>>

Allowed429 == IF run.command = "backfill" THEN Max429 ELSE 0

ReplyTooManyRequests ==
    /\ run.step = "reply"
    /\ IF run.refusals < Allowed429
       THEN /\ run' = [run EXCEPT !.step = "attempt", !.refusals = @ + 1]
            /\ UNCHANGED <<body, sidecar, catalog, cut>>
       ELSE Stop(IF run.command = "backfill" THEN "failed" ELSE "rate_limited")

ReplyServerError ==
    /\ run.step = "reply" /\ run.errors < Max5xx
    /\ run' = [run EXCEPT !.step = "attempt", !.errors = @ + 1]
    /\ UNCHANGED <<body, sidecar, catalog, cut>>

(* The last 5xx, any other bad status, a transport error, a redirect too    *)
(* many, refused content.                                                   *)
FetchFails == run.step = "reply" /\ Stop("failed")

-----------------------------------------------------------------------------
(* _write_html_to_cache_safely, or write_html_to_cache_safely: temp files,   *)
(* checks, the body, then the sidecar.                                      *)
Free(p) == body[p] = "none" /\ p \notin sidecar

PublishBody ==
    /\ run.step = "write" /\ Free(page0)
    /\ body' = [body EXCEPT ![page0] = run.html]
    /\ run' = [run EXCEPT !.step = "publish"]
    /\ UNCHANGED <<sidecar, catalog, cut>>

(* "Refusing to overwrite existing cache file", or its metadata file, or an  *)
(* I/O error before anything has its final name.                            *)
WriteFails == run.step = "write" /\ Stop("failed")

PublishSidecar ==
    /\ run.step = "publish"
    /\ sidecar' = sidecar \cup {page0}
    /\ run' = Fetched
    /\ UNCHANGED <<body, catalog, cut>>

(* The sidecar cannot be published: the body is removed again. *)
TakeBack ==
    /\ run.step = "publish"
    /\ body' = [body EXCEPT ![page0] = "none"]
    /\ run' = Stopped("failed")
    /\ UNCHANGED <<sidecar, catalog, cut>>

(* Removing the temp names, or the body, raises as well, and the page stays; *)
(* the pilot's writer removes temp names after a success, too.              *)
CleanupFails ==
    /\ run.step = "publish"
    /\ \/ UNCHANGED sidecar
       \/ run.command = "pilot" /\ sidecar' = sidecar \cup {page0}
    /\ run' = Stopped("failed")
    /\ UNCHANGED <<body, catalog, cut>>

-----------------------------------------------------------------------------
(* HtmlCache.set: the sidecar goes, and open truncates what has the name. *)
SetOpens ==
    /\ run.step = "open"
    /\ sidecar' = sidecar \ {page0}
    /\ body' = [body EXCEPT ![page0] = "partial"]
    /\ cut' = cut \cup {page0}
    /\ run' = [run EXCEPT !.step = "text"]
    /\ UNCHANGED catalog

SetWrites ==
    /\ run.step = "text"
    /\ body' = [body EXCEPT ![page0] = run.html]
    /\ cut' = cut \ {page0}
    /\ run' = [run EXCEPT !.step = "meta"]
    /\ UNCHANGED <<sidecar, catalog>>

SetSidecar ==
    /\ run.step = "meta"
    /\ sidecar' = sidecar \cup {page0}
    /\ run' = Fetched
    /\ UNCHANGED <<body, catalog, cut>>

(* An I/O error in set is outside the try block: no report, no rollback. *)
SetFails ==
    /\ run.step \in {"open", "text", "meta"}
    /\ run' = Lost("raised")
    /\ UNCHANGED <<body, sidecar, catalog, cut>>

(* Killed or interrupted, at any step. *)
Kill ==
    /\ Running
    /\ run' = Lost("killed")
    /\ UNCHANGED <<body, sidecar, catalog, cut>>

-----------------------------------------------------------------------------
Step ==
    \/ CacheHit \/ BeginFetch \/ Finish \/ Attempt
    \/ ReplyPage("whole") \/ ReplyPage("junk")
    \/ ReplyTooManyRequests \/ ReplyServerError \/ FetchFails
    \/ PublishBody \/ WriteFails \/ PublishSidecar \/ TakeBack \/ CleanupFails
    \/ SetOpens \/ SetWrites \/ SetSidecar \/ SetFails

Next ==
    \/ \E p \in PlayerPages, years \in SUBSET Years : LoadPlayer(p, years)
    \/ \E command \in Commands : \E manifest \in Manifests(command) : StartRun(command, manifest)
    \/ Step
    \/ Kill

(* The pages of a command, and a run over all of them. *)
PagesOf(command) ==
    CASE command = "player" -> {p \in PlayerPages : catalog[p] # NotThere}
      [] command = "pilot" -> PilotPages
      [] OTHER -> TeamPages

StartFullRun(command) ==
    \E manifest \in Manifests(command) :
        Range(manifest) = PagesOf(command) /\ StartRun(command, manifest)

(* A failure that is nobody's decision. *)
Outage ==
    \/ Kill \/ FetchFails \/ ReplyTooManyRequests \/ TakeBack \/ CleanupFails \/ SetFails
    \/ WriteFails /\ Free(page0)

(* Each command is rerun without a filter again and again, a running one     *)
(* goes on, and the outages of the site, the file system and the process    *)
(* come to an end.  A refusal to overwrite is no outage.                    *)
Fairness ==
    /\ WF_vars(Step)
    /\ \A command \in Commands : SF_vars(StartFullRun(command))
    /\ <>[][~Outage]_vars

Spec == Init /\ [][Next]_vars /\ Fairness

-----------------------------------------------------------------------------
(* A page is being written by the run. *)
Writing(p) == run.step \in {"publish", "text", "meta"} /\ p = page0

(* Nothing is overwritten and nothing is lost: from the moment its writer    *)
(* has moved on, failed or died, a body and its sidecar stay as they are,   *)
(* whichever command and writer comes later.                                *)
ArchiveIsKept ==
    [][\A p \in Pages : body[p] # "none" /\ ~Writing(p) =>
          body'[p] = body[p] /\ (p \in sidecar' <=> p \in sidecar)]_vars

(* What is in the archive can be told: a sidecar belongs to the body beside  *)
(* it, a truncated body was left by a set that did not finish, and content  *)
(* nobody checked is only ever a team-season page of the first backfill.    *)
DamageIsBounded ==
    /\ TypeOK
    /\ \A p \in Pages :
        /\ p \in sidecar => body[p] \in {"junk", "whole"}
        /\ body[p] = "partial" <=> p \in cut
        /\ body[p] \in {"partial", "junk"} => p \in TeamPages

(* A report accounts for every page up to the one it stopped at, fetches no  *)
(* more than the dry run said, and tells the attempts: the pilot exactly,   *)
(* the others understate them by no more than the retries of each page.  It *)
(* is no count of the HTTP requests, which redirects add to; but it never   *)
(* reports more than were sent, nor leaves out more than the retries and    *)
(* the redirects of its attempts.                                           *)
ReportIsHonest ==
    run.step \in Reported =>
        /\ run.hits \cup run.fetched \cup run.stopped =
              {run.manifest[i] : i \in 1..Len(run.manifest) \cap 1..run.index}
        /\ \A p \in run.hits \cup run.fetched : body[p] # "none"
        /\ Cardinality(run.fetched \cup run.stopped) <= run.planned
        /\ run.step = "completed" => Cardinality(run.fetched) = run.planned
        /\ IF run.command = "pilot" THEN run.live = run.count
           ELSE run.live <= run.count /\ run.count <= run.live * (1 + Max5xx + Allowed429)
        /\ run.live <= run.sent /\ run.sent <= run.count * (1 + MaxRedirects)

(* Rerunning each command fills the archive, whatever the runs before left. *)
ArchiveGetsFilled ==
    <>[](\A command \in Commands : \A p \in PagesOf(command) : body[p] # "none")
=============================================================================
