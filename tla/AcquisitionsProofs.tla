------------------------- MODULE AcquisitionsProofs -------------------------
(***************************************************************************)
(* Proofs about Acquisitions, for any pages, manifests and retry limits,   *)
(* and any sequence of runs that stop, are killed and are rerun.           *)
(***************************************************************************)
EXTENDS Acquisitions, FiniteSetTheorems, TLAPS

(* What the archive holds of each page.                                     *)
Archive ==
    \A p \in Pages :
        /\ p \in sidecar => body[p] \in {"junk", "whole"}
        /\ body[p] = "partial" <=> p \in cut
        /\ body[p] \in {"partial", "junk"} => p \in TeamPages

(* Where the run stands in its manifest.                                    *)
Position ==
    /\ run.index \in 1..Len(run.manifest) + 1
    /\ run.step \in Checked \cup {"rate_limited", "failed"} => run.index <= Len(run.manifest)
    /\ run.step = "completed" => run.index = Len(run.manifest) + 1

(* What the archive holds of the page in hand.                              *)
InHand ==
    /\ run.step \in {"attempt", "reply", "write", "open"} => body[page0] = "none"
    /\ run.step = "publish" => body[page0] = run.html /\ page0 \notin sidecar
    /\ run.step = "text" => body[page0] = "partial" /\ page0 \notin sidecar
    /\ run.step = "meta" => body[page0] = run.html /\ page0 \notin sidecar
    /\ run.step \in {"open", "text", "meta"} => run.command = "backfill"
    /\ run.step \in {"write", "publish"} \/ run.command # "backfill" => run.html = "whole"
    /\ run.command = "backfill" => \A i \in DOMAIN run.manifest : run.manifest[i] \in TeamPages

Past == {run.manifest[i] : i \in 1..(run.index - 1)}
Ahead == {run.manifest[i] : i \in run.index..Len(run.manifest)}

(* The pages the run has fetched, would go on to fetch, or failed to: what  *)
(* the dry run counted, at every moment of the run.                         *)
Awaited(p) == body[p] = "none" \/ Writing(p) \/ p \in run.stopped

ToFetch == run.fetched \cup {p \in Ahead : Awaited(p)}

Ledger ==
    /\ run.hits \cup run.fetched = Past
    /\ run.stopped = IF run.step \in {"rate_limited", "failed"} THEN {page0} ELSE {}
    /\ \A p \in Past : body[p] # "none"
    /\ run.step \in Checked => page0 \notin Past
    /\ run.planned = Cardinality(ToFetch)

(* The requests of a page are at most its first one and the retries.        *)
PerPage == 1 + Max5xx + Allowed429

Sent == IF run.step = "attempt" THEN 0 ELSE 1

Tally ==
    /\ run.refusals <= Allowed429
    /\ run.step \notin Checked => run.before = 0 /\ run.refusals = 0 /\ run.errors = 0
    /\ run.step \in Checked => run.count = run.before + run.refusals + run.errors + Sent
    /\ run.command = "pilot" =>
         run.live = IF run.step \in Checked THEN run.before ELSE run.count
    /\ run.command # "pilot" =>
         LET counted == IF run.step \in Checked THEN run.before ELSE run.count
         IN  run.live <= counted /\ counted <= run.live * PerPage

(* The inductive invariant.                                                 *)
IInv == TypeOK /\ Archive /\ Position /\ InHand /\ Ledger /\ Tally

-----------------------------------------------------------------------------
(* The manifests.                                                           *)

(* A listing of pages in order is a sequence of pages.                      *)
LEMMA InOrderIsListing ==
    ASSUME NEW S \in SUBSET Pages, NEW s \in InOrder(S)
    PROVE  s \in Seq(Pages)
<1>1. IsFiniteSet(S)
  BY FS_Subset, AcquisitionsAssumption
<1>2. Cardinality(S) \in Nat
  BY <1>1, FS_CardinalityType
<1>3. s \in [1..Cardinality(S) -> S]
  BY DEF InOrder, SetToSeqs
<1> QED BY <1>2, <1>3

(* Whatever command makes it, a manifest lists pages; that of the backfill, *)
(* which alone does not look at the content, lists team-season pages.       *)
LEMMA ManifestIsListing ==
    ASSUME NEW command \in Commands, NEW m \in Manifests(command)
    PROVE  /\ m \in Seq(Pages)
           /\ command = "backfill" => \A i \in DOMAIN m : m[i] \in TeamPages
<1>1. CASE command = "player"
  <2>1. PICK o \in Options : m \in PlayerManifests(o)
    BY <1>1 DEF Manifests
  <2>2. PICK S : /\ S = IF o.start = All /\ o.end = All THEN Unfiltered(o) ELSE SeasonFiltered(o)
                 /\ \E s \in InOrder(S) : m = Limited(o, s)
    BY <2>1 DEF PlayerManifests
  <2>3. S \in SUBSET Pages
    BY <2>2 DEF Unfiltered, SeasonFiltered, Pages
  <2>4. PICK s \in Seq(Pages) : m = Limited(o, s)
    BY <2>2, <2>3, InOrderIsListing
  <2>5. CASE o.limit = All \/ Len(s) <= o.limit
    BY <1>1, <2>4, <2>5 DEF Limited
  <2>6. CASE ~(o.limit = All \/ Len(s) <= o.limit)
    <3>1. o.limit \in Nat /\ o.limit < Len(s) /\ Len(s) \in Nat
      BY <2>6, AcquisitionsAssumption
    <3>2. SubSeq(s, 1, o.limit) \in Seq(Pages)
      BY <3>1
    <3> QED BY <1>1, <2>4, <2>6, <3>2 DEF Limited
  <2> QED BY <2>5, <2>6
<1>2. CASE command = "team"
  <2>1. PICK i, j \in TeamPages : m \in InOrder(Seasons(i, j))
    BY <1>2 DEF Manifests, TeamManifests
  <2>2. Seasons(i, j) \in SUBSET Pages
    BY DEF Seasons, Pages
  <2> QED BY <1>2, <2>1, <2>2, InOrderIsListing
<1>3. ASSUME NEW f \in Files, NEW pages \in SUBSET Pages, m = f.entries,
             ValidEntries(f.entries, pages)
      PROVE  m \in Seq(Pages) /\ \A i \in DOMAIN m : m[i] \in pages
  <2>1. m \in Seq(Nat) /\ \A i \in DOMAIN m : m[i] \in pages
    BY <1>3, AcquisitionsAssumption DEF ValidEntries, Range
  <2> QED BY <2>1
<1>4. CASE command = "backfill"
  <2>1. PICK f \in Files : Gate(f, TeamPages, 5) /\ m = f.entries
    BY <1>4 DEF Manifests, BackfillManifests
  <2> QED BY <1>3, <2>1 DEF Gate, Pages
<1>5. CASE command = "pilot"
  <2>1. PICK f \in Files : Gate(f, PilotPages, 100) /\ m = f.entries
    BY <1>5 DEF Manifests, PilotManifests
  <2> QED BY <1>3, <1>5, <2>1 DEF Gate, Pages
<1> QED BY <1>1, <1>2, <1>4, <1>5 DEF Commands

-----------------------------------------------------------------------------
(* Typing of a run.                                                         *)

RunRecords ==
    [step : Live \cup Reported \cup {"raised", "killed"}, command : Commands,
     manifest : Seq(Pages), index : Nat, planned : Nat,
     hits : SUBSET Pages, fetched : SUBSET Pages, stopped : SUBSET Pages,
     html : {"junk", "whole"}, live : Nat, count : Nat, before : Nat,
     sent : Nat, refusals : 0..Max429, errors : 0..Max5xx]

Typed ==
    /\ body \in [Pages -> {"none", "partial", "junk", "whole"}]
    /\ sidecar \subseteq Pages
    /\ catalog \in [PlayerPages -> {NotThere} \cup SUBSET Years]
    /\ cut \subseteq Pages

(* TypeOK in two parts: what lasts, and the run.                            *)
LEMMA TypeOKIsTyped == TypeOK <=> Typed /\ run \in RunRecords
BY DEF TypeOK, Typed, RunRecords

(* Every step keeps the types.                                              *)
LEMMA TypeOKNext ==
    ASSUME Typed', run' \in RunRecords
    PROVE  TypeOK'
BY DEF TypeOK, Typed, RunRecords

(* No run at all is a run, as far as its type goes.                         *)
LEMMA NoRunIsTyped ==
    /\ NoRun \in RunRecords
    /\ \A how \in {"raised", "killed"} : Lost(how) \in RunRecords
<1>1. NoRun \in RunRecords
  <2>1. <<>> \in Seq(Pages) /\ 0 \in 0..Max429 /\ 0 \in 0..Max5xx /\ "team" \in Commands
    BY AcquisitionsAssumption DEF Commands
  <2> QED BY <2>1 DEF NoRun, RunRecords
<1>2. ASSUME NEW how \in {"raised", "killed"}
      PROVE  Lost(how) \in RunRecords
  BY <1>1 DEF Lost, RunRecords
<1> QED BY <1>1, <1>2

(* The page in hand is one of the pages.                                    *)
LEMMA Page0IsPage ==
    ASSUME TypeOK, Position, run.index <= Len(run.manifest)
    PROVE  /\ run.index \in 1..Len(run.manifest) /\ run.index \in DOMAIN run.manifest
           /\ page0 \in Pages
BY TypeOKIsTyped DEF RunRecords, Position, page0

(* What the result of an entry changes in the record of the run.            *)
LEMMA CountedFacts ==
    ASSUME NEW r \in RunRecords, Requests \in Nat
    PROVE  /\ Counted(r) \in RunRecords
           /\ Counted(r).live = r.live + Requests
           /\ Counted(r).before = 0 /\ Counted(r).refusals = 0 /\ Counted(r).errors = 0
           /\ Counted(r).html = "whole"
           /\ Counted(r).step = r.step /\ Counted(r).command = r.command
           /\ Counted(r).manifest = r.manifest /\ Counted(r).index = r.index
           /\ Counted(r).planned = r.planned /\ Counted(r).hits = r.hits
           /\ Counted(r).fetched = r.fetched /\ Counted(r).stopped = r.stopped
           /\ Counted(r).count = r.count
<1> DEFINE n == Requests
<1>1. n \in Nat
  OBVIOUS
<1> HIDE DEF n
<1>2. Counted(r) = [r EXCEPT !.live = @ + n, !.before = 0, !.refusals = 0, !.errors = 0,
                             !.html = "whole"]
  BY DEF Counted, n
<1>3. n = Requests
  BY DEF n
<1>4. r.live + n \in Nat /\ 0 \in 0..Max429 /\ 0 \in 0..Max5xx
  BY <1>1, AcquisitionsAssumption DEF RunRecords
<1>5. Counted(r) \in RunRecords
  <2>1. [r EXCEPT !.live = @ + n] \in RunRecords
    BY <1>1, <1>4 DEF RunRecords
  <2>2. ASSUME NEW q \in RunRecords
        PROVE  [q EXCEPT !.before = 0, !.refusals = 0, !.errors = 0, !.html = "whole"]
                  \in RunRecords
    BY <1>4 DEF RunRecords
  <2> QED BY <1>2, <2>1, <2>2 DEF RunRecords
<1> QED BY <1>2, <1>3, <1>5 DEF RunRecords

(* The requests of the page in hand are a number, one or more.              *)
LEMMA RequestsIsNat ==
    ASSUME IInv, run.step \in Checked \ {"attempt"}
    PROVE  Requests \in Nat
<1>1. run.count = run.before + run.refusals + run.errors + 1
  BY DEF IInv, Tally, Sent
<1> QED BY <1>1, TypeOKIsTyped DEF IInv, Requests, RunRecords

-----------------------------------------------------------------------------
(* The account of a run over its manifest.                                  *)

(* A step within an entry leaves the account as it is.                      *)
LEMMA LedgerWithinEntry ==
    ASSUME IInv, TypeOK',
           run'.manifest = run.manifest, run'.index = run.index,
           run'.planned = run.planned, run'.hits = run.hits, run'.fetched = run.fetched,
           run'.stopped = IF run'.step \in {"rate_limited", "failed"} THEN {page0} ELSE {},
           \A p \in Past : body'[p] # "none",
           run'.step \in Checked => page0 \notin Past,
           \A p \in Ahead : Awaited(p)' <=> Awaited(p)
    PROVE  Ledger'
<1>1. Past' = Past /\ Ahead' = Ahead /\ page0' = page0
  BY DEF Past, Ahead, page0
<1>2. ToFetch' = ToFetch
  BY <1>1 DEF ToFetch
<1> QED BY <1>1, <1>2 DEF IInv, Ledger

(* At the end of an entry its page moves from the ones ahead to the past.   *)
LEMMA LedgerAtNextEntry ==
    ASSUME IInv, TypeOK', run.index <= Len(run.manifest),
           run'.manifest = run.manifest, run'.index = run.index + 1,
           run'.planned = run.planned, run'.stopped = {}, run'.step = "entry",
           run'.hits \cup run'.fetched = run.hits \cup run.fetched \cup {page0},
           run.stopped = {}, body' = body, body[page0] # "none",
           run'.fetched = IF Writing(page0) THEN run.fetched \cup {page0} ELSE run.fetched
    PROVE  Ledger'
<1>1. /\ run.index \in 1..Len(run.manifest) /\ Len(run.manifest) \in Nat
      /\ run.manifest \in Seq(Pages)
  BY Page0IsPage, TypeOKIsTyped DEF IInv, RunRecords
<1>2. Past' = Past \cup {page0}
  BY <1>1 DEF Past, page0
<1>3. Ahead = Ahead' \cup {page0}
  BY <1>1 DEF Ahead, page0
<1>4. \A p : ~Writing(p)'
  BY DEF Writing
<1>5. ToFetch' = ToFetch
  <2>1. \A p : Writing(p) => p = page0
    BY DEF Writing
  <2> QED BY <1>3, <1>4, <2>1 DEF ToFetch, Awaited
<1> QED BY <1>2, <1>5 DEF IInv, Ledger, Checked

(* The requests of an entry are added to those of the run.                  *)
LEMMA TallyOfResult ==
    ASSUME IInv, run.step \in Checked \ {"attempt"}, run'.step \notin Checked,
           run'.command = run.command, run'.count = run.count,
           run'.live = run.live + Requests,
           run'.before = 0, run'.refusals = 0, run'.errors = 0
    PROVE  Tally'
<1> DEFINE K == PerPage
<1>1. /\ run.count \in Nat /\ run.live \in Nat /\ run.before \in Nat
      /\ run.refusals \in Nat /\ run.errors \in Nat /\ run.errors <= Max5xx
      /\ Max5xx \in Nat /\ Max429 \in Nat
  BY TypeOKIsTyped, AcquisitionsAssumption DEF IInv, RunRecords
<1>2. Allowed429 \in Nat /\ run.refusals <= Allowed429
  BY <1>1 DEF IInv, Tally, Allowed429
<1>3. run.count = run.before + run.refusals + run.errors + 1
  BY DEF IInv, Tally, Sent
<1>4. K \in Nat /\ run.count <= run.before + K /\ run.before + 1 <= run.count
  BY <1>1, <1>2, <1>3 DEF PerPage
<1>5. PerPage' = K /\ Allowed429' = Allowed429
  BY DEF PerPage, Allowed429
<1>6. run.command # "pilot" =>
        run'.live <= run'.count /\ run'.count <= run'.live * K
  <2> SUFFICES ASSUME run.command # "pilot"
               PROVE  run'.live <= run'.count /\ run'.count <= run'.live * K
    OBVIOUS
  <2>1. run.live <= run.before /\ run.before <= run.live * K
    BY DEF IInv, Tally
  <2>2. run'.live = run.live + 1
    BY DEF Requests
  <2> HIDE DEF K
  <2>3. (run.live + 1) * K = run.live * K + K
    BY <1>1, <1>4
  <2> QED BY <1>1, <1>4, <2>1, <2>2, <2>3
<1>7. run.command = "pilot" => run'.live = run'.count
  BY <1>1, <1>3 DEF IInv, Tally, Requests
<1> HIDE DEF K
<1> QED BY <1>1, <1>2, <1>5, <1>6, <1>7 DEF Tally

-----------------------------------------------------------------------------
(* What no step may do to a page, in terms of one step.                     *)
Kept ==
    \A p \in Pages : body[p] # "none" /\ ~Writing(p) =>
        body'[p] = body[p] /\ (p \in sidecar' <=> p \in sidecar)

(* A run that has asked for nothing has nothing to tally.                   *)
LEMMA NothingTallied ==
    ASSUME run'.step \notin Checked, run'.command \in Commands, run'.live = 0,
           run'.count = 0, run'.before = 0, run'.refusals = 0, run'.errors = 0
    PROVE  Tally'
<1>1. Allowed429' \in Nat /\ PerPage' \in Nat
  BY AcquisitionsAssumption DEF Allowed429, PerPage
<1>2. \A k \in Nat : 0 * k = 0
  OBVIOUS
<1> DEFINE none == 0 * PerPage'
<1>3. none = 0
  BY <1>1, <1>2, Zenon
<1> HIDE DEF none
<1>4. 0 <= Allowed429' /\ 0 <= none
  BY <1>1, <1>3
<1>5. 0 <= 0 * PerPage'
  BY <1>4 DEF none
<1> QED BY <1>4, <1>5 DEF Tally

(* A run without a report has an empty account.                             *)
LEMMA LostHasNothing ==
    ASSUME TypeOK, Archive, UNCHANGED <<body, sidecar, catalog, cut>>,
           NEW how \in {"raised", "killed"}, run' = Lost(how)
    PROVE  IInv' /\ Kept
<1>1. /\ run'.step = how /\ run'.command = "team" /\ run'.manifest = <<>>
      /\ run'.index = 1 /\ run'.planned = 0 /\ run'.hits = {} /\ run'.fetched = {}
      /\ run'.stopped = {} /\ run'.html = "whole" /\ run'.live = 0 /\ run'.count = 0
      /\ run'.before = 0 /\ run'.refusals = 0 /\ run'.errors = 0
  BY DEF Lost, NoRun
<1>2. TypeOK'
  <2>1. run' \in RunRecords /\ Typed'
    BY NoRunIsTyped, TypeOKIsTyped DEF Typed
  <2> QED BY <2>1, TypeOKNext
<1>3. Archive'
  BY DEF Archive
<1>4. Len(run'.manifest) = 0 /\ DOMAIN run'.manifest = {}
  BY <1>1
<1>5. Position'
  BY <1>1, <1>4 DEF Position, Checked
<1>6. InHand'
  BY <1>1 DEF InHand
<1>7. Ledger'
  <2>1. Past' = {} /\ Ahead' = {}
    BY <1>1, <1>4 DEF Past, Ahead
  <2>2. ToFetch' = {}
    BY <1>1, <2>1 DEF ToFetch
  <2> QED BY <1>1, <2>1, <2>2, FS_EmptySet DEF Ledger, Checked
<1>8. Tally'
  BY <1>1, NothingTallied DEF Checked, Commands
<1>9. Kept
  BY DEF Kept
<1> QED BY <1>2, <1>3, <1>5, <1>6, <1>7, <1>8, <1>9 DEF IInv

(* Every archive that a run may start from satisfies the invariant.         *)
LEMMA InitIInv ==
    ASSUME Init
    PROVE  IInv
<1>1. /\ run.step = "killed" /\ run.command = "team" /\ run.manifest = <<>>
      /\ run.index = 1 /\ run.planned = 0 /\ run.hits = {} /\ run.fetched = {}
      /\ run.stopped = {} /\ run.html = "whole" /\ run.live = 0 /\ run.count = 0
      /\ run.before = 0 /\ run.refusals = 0 /\ run.errors = 0
  BY DEF Init, NoRun
<1>2. TypeOK
  BY NoRunIsTyped, TypeOKIsTyped DEF Init, Typed
<1>3. Archive
  BY DEF Init, Archive
<1>4. Len(run.manifest) = 0 /\ DOMAIN run.manifest = {}
  BY <1>1
<1>5. Position
  BY <1>1, <1>4 DEF Position, Checked
<1>6. InHand
  BY <1>1 DEF InHand
<1>7. Ledger
  <2>1. Past = {} /\ Ahead = {}
    BY <1>1, <1>4 DEF Past, Ahead
  <2>2. ToFetch = {}
    BY <1>1, <2>1 DEF ToFetch
  <2> QED BY <1>1, <2>1, <2>2, FS_EmptySet DEF Ledger, Checked
<1>8. Tally
  <2>1. Allowed429 \in Nat /\ PerPage \in Nat
    BY <1>1, AcquisitionsAssumption DEF Allowed429, PerPage
  <2> QED BY <1>1, <2>1 DEF Tally, Checked
<1> QED BY <1>2, <1>3, <1>5, <1>6, <1>7, <1>8 DEF IInv

-----------------------------------------------------------------------------
(* One lemma for each kind of step.                                         *)

(* The loaders add to the catalog between the runs.                         *)
LEMMA LoadPlayerStep ==
    ASSUME IInv, NEW p \in PlayerPages, NEW years \in SUBSET Years, LoadPlayer(p, years)
    PROVE  IInv' /\ Kept
<1> USE DEF LoadPlayer
<1>1. TypeOK'
  <2>1. run' \in RunRecords /\ Typed'
    BY TypeOKIsTyped DEF IInv, Typed
  <2> QED BY <2>1, TypeOKNext
<1>2. Archive' /\ Position' /\ InHand'
  BY DEF IInv, Archive, Position, InHand, page0
<1>3. Ledger'
  <2>1. Past' = Past /\ page0' = page0 /\ ToFetch' = ToFetch
    BY DEF Past, Ahead, page0, ToFetch, Awaited, Writing
  <2> QED BY <2>1 DEF IInv, Ledger
<1>4. Tally'
  BY DEF IInv, Tally, Sent, PerPage, Allowed429
<1> QED BY <1>1, <1>2, <1>3, <1>4 DEF IInv, Kept

(* A run begins: what the dry run counts is what it has yet to fetch.       *)
LEMMA StartRunStep ==
    ASSUME IInv, NEW command \in Commands, NEW manifest, StartRun(command, manifest)
    PROVE  IInv' /\ Kept
<1> USE DEF StartRun
<1> DEFINE n == Estimate(manifest)
<1>1. /\ run'.step = "entry" /\ run'.command = command /\ run'.manifest = manifest
      /\ run'.index = 1 /\ run'.planned = n /\ run'.hits = {} /\ run'.fetched = {}
      /\ run'.stopped = {} /\ run'.html = "whole" /\ run'.live = 0 /\ run'.count = 0
      /\ run'.before = 0 /\ run'.refusals = 0 /\ run'.errors = 0
  BY DEF NoRun
<1>2. manifest \in Seq(Pages)
      /\ (command = "backfill" => \A i \in DOMAIN manifest : manifest[i] \in TeamPages)
  BY ManifestIsListing
<1>3. Range(manifest) = {manifest[i] : i \in 1..Len(manifest)}
  BY <1>2 DEF Range
<1>4. n = Cardinality({p \in Range(manifest) : body[p] = "none"})
  BY DEF Estimate, Quantify
<1>5. n \in Nat
  <2>1. {p \in Range(manifest) : body[p] = "none"} \in SUBSET Pages
    BY <1>2 DEF Range
  <2> QED BY <1>4, <2>1, AcquisitionsAssumption, FS_Subset, FS_CardinalityType
<1>6. TypeOK'
  <2>1. run' = [NoRun EXCEPT !.step = "entry", !.command = command, !.manifest = manifest,
                             !.planned = n]
    OBVIOUS
  <2> HIDE DEF n
  <2>2. run' \in RunRecords
    BY <1>2, <1>5, <2>1, NoRunIsTyped DEF RunRecords, Live
  <2>3. Typed'
    BY TypeOKIsTyped DEF IInv, Typed
  <2> QED BY <2>2, <2>3, TypeOKNext
<1>7. Archive'
  BY DEF IInv, Archive
<1> HIDE DEF n
<1>8. Position'
  BY <1>1, <1>2 DEF Position, Checked
<1>9. InHand'
  BY <1>1, <1>2 DEF InHand
<1>10. Ledger'
  <2>1. Past' = {} /\ Ahead' = Range(manifest)
    BY <1>1, <1>2, <1>3 DEF Past, Ahead
  <2>2. ToFetch' = {p \in Range(manifest) : body[p] = "none"}
    BY <1>1, <2>1 DEF ToFetch, Awaited, Writing
  <2> QED BY <1>1, <1>4, <2>1, <2>2 DEF Ledger, Checked
<1>11. Tally'
  BY <1>1, NothingTallied DEF Checked
<1>12. Kept
  BY DEF Kept
<1> QED BY <1>6, <1>7, <1>8, <1>9, <1>10, <1>11, <1>12 DEF IInv

(* A page that is there: the next entry.                                    *)
LEMMA CacheHitStep ==
    ASSUME IInv, CacheHit
    PROVE  IInv' /\ Kept
<1> USE DEF CacheHit, AtEntry
<1>1. /\ run.index \in 1..Len(run.manifest) /\ page0 \in Pages
      /\ run \in RunRecords /\ Typed
  BY Page0IsPage, TypeOKIsTyped DEF IInv
<1> DEFINE hits == run.hits \cup {page0}
           index == run.index + 1
<1>2. hits \in SUBSET Pages /\ index \in Nat
  BY <1>1 DEF RunRecords
<1>3. run' = [run EXCEPT !.hits = hits, !.index = index]
  OBVIOUS
<1>4. /\ run'.hits = hits /\ run'.index = index
      /\ run'.step = "entry" /\ run'.command = run.command /\ run'.manifest = run.manifest
      /\ run'.planned = run.planned /\ run'.fetched = run.fetched
      /\ run'.stopped = run.stopped /\ run'.html = run.html /\ run'.live = run.live
      /\ run'.count = run.count /\ run'.before = run.before
      /\ run'.refusals = run.refusals /\ run'.errors = run.errors
  BY <1>1, <1>3 DEF RunRecords
<1>5. TypeOK'
  <2> HIDE DEF hits, index
  <2>1. run' \in RunRecords
    BY <1>1, <1>2, <1>3 DEF RunRecords
  <2>2. Typed'
    BY <1>1 DEF Typed
  <2> QED BY <2>1, <2>2, TypeOKNext
<1>6. Archive'
  BY DEF IInv, Archive
<1>7. Position'
  BY <1>1, <1>4 DEF Position, Checked
<1>8. InHand'
  BY <1>4 DEF IInv, InHand
<1>9. Ledger'
  <2>1. ~Writing(page0)
    BY DEF Writing
  <2>2. run.stopped = {}
    BY DEF IInv, Ledger
  <2> QED BY <1>1, <1>4, <1>5, <2>1, <2>2, LedgerAtNextEntry
<1>10. Tally'
  BY <1>4 DEF IInv, Tally, Sent, PerPage, Allowed429, Checked
<1>11. Kept
  BY DEF Kept
<1> QED BY <1>5, <1>6, <1>7, <1>8, <1>9, <1>10, <1>11 DEF IInv

(* The steps that ask for a page and wait: the archive is as it was.        *)
Asking ==
    /\ UNCHANGED <<body, sidecar, catalog, cut>>
    /\ run'.command = run.command /\ run'.manifest = run.manifest
    /\ run'.index = run.index /\ run'.planned = run.planned
    /\ run'.hits = run.hits /\ run'.fetched = run.fetched
    /\ run'.stopped = run.stopped /\ run'.live = run.live
    /\ run.step \in {"entry", "attempt", "reply"}
    /\ run'.step \in {"attempt", "reply", "write", "open"}
    /\ run.index <= Len(run.manifest)

(* The account does not change while a page is asked for.                   *)
LEMMA LedgerOfAsking ==
    ASSUME IInv, Asking, run' \in RunRecords, page0 \notin Past
    PROVE  Ledger'
<1> USE DEF Asking
<1>1. TypeOK'
  <2>1. Typed'
    BY TypeOKIsTyped DEF IInv, Typed
  <2> QED BY <2>1, TypeOKNext
<1>2. \A p : ~Writing(p) /\ ~Writing(p)'
  BY DEF Writing
<1>3. run.stopped = {} /\ \A p \in Past : body[p] # "none"
  BY DEF IInv, Ledger
<1>4. run'.stopped = IF run'.step \in {"rate_limited", "failed"} THEN {page0} ELSE {}
  BY <1>3
<1>5. \A p \in Ahead : Awaited(p)' <=> Awaited(p)
  BY <1>2 DEF Awaited
<1> QED BY <1>1, <1>3, <1>4, <1>5, LedgerWithinEntry

(* The rest of the invariant then follows.                                  *)
LEMMA AskingStep ==
    ASSUME IInv, Asking, run' \in RunRecords, InHand', Ledger', Tally'
    PROVE  IInv' /\ Kept
<1> USE DEF Asking
<1>1. TypeOK'
  <2>1. Typed'
    BY TypeOKIsTyped DEF IInv, Typed
  <2> QED BY <2>1, TypeOKNext
<1>2. Archive'
  BY DEF IInv, Archive
<1>3. Position'
  BY DEF IInv, Position, Checked
<1>4. Kept
  BY DEF Kept
<1> QED BY <1>1, <1>2, <1>3, <1>4 DEF IInv

(* The run asks for the page: it is not there.                              *)
LEMMA BeginFetchStep ==
    ASSUME IInv, BeginFetch
    PROVE  IInv' /\ Kept
<1> USE DEF BeginFetch, AtEntry
<1>1. run \in RunRecords
  BY TypeOKIsTyped DEF IInv
<1>2. /\ run' \in RunRecords
      /\ run'.step = "attempt" /\ run'.before = run.count
      /\ run'.html = run.html /\ run'.count = run.count
      /\ run'.refusals = run.refusals /\ run'.errors = run.errors
  BY <1>1 DEF RunRecords, Live, Checked
<1>3. Asking
  BY <1>1, <1>2 DEF RunRecords, Asking
<1>4. InHand'
  BY <1>2, <1>3 DEF IInv, InHand, Asking, page0
<1>5. Ledger'
  <2>1. page0 \notin Past
    BY DEF IInv, Ledger
  <2> QED BY <1>2, <1>3, <2>1, LedgerOfAsking
<1>6. Tally'
  BY <1>1, <1>2, <1>3 DEF IInv, Tally, Sent, PerPage, Allowed429, Checked, Asking, RunRecords
<1> QED BY <1>2, <1>3, <1>4, <1>5, <1>6, AskingStep

(* An attempt is made, with its redirects.                                  *)
LEMMA AttemptStep ==
    ASSUME IInv, Attempt
    PROVE  IInv' /\ Kept
<1> USE DEF Attempt
<1>1. run \in RunRecords /\ run.index <= Len(run.manifest)
  BY TypeOKIsTyped DEF IInv, Position, Checked
<1>2. /\ run' \in RunRecords
      /\ run'.step = "reply" /\ run'.before = run.before
      /\ run'.html = run.html /\ run'.count = run.count + 1
      /\ run'.refusals = run.refusals /\ run'.errors = run.errors
  <2> DEFINE n == run.count + 1
  <2>0. PICK redirects \in 0..MaxRedirects :
          run' = [run EXCEPT !.step = "reply", !.count = @ + 1, !.sent = @ + 1 + redirects]
    OBVIOUS
  <2> DEFINE m == run.sent + 1 + redirects
  <2>1. n \in Nat /\ m \in Nat
    BY <1>1, AcquisitionsAssumption DEF RunRecords
  <2>2. run' = [run EXCEPT !.step = "reply", !.count = n, !.sent = m]
    BY <2>0
  <2> HIDE DEF n, m
  <2>3. /\ run' \in RunRecords
        /\ run'.step = "reply" /\ run'.before = run.before
        /\ run'.html = run.html /\ run'.count = n
        /\ run'.refusals = run.refusals /\ run'.errors = run.errors
    BY <1>1, <2>1, <2>2 DEF RunRecords, Live, Checked
  <2> QED BY <2>3 DEF n
<1>3. Asking
  BY <1>1, <1>2 DEF RunRecords, Asking
<1>4. InHand'
  BY <1>2, <1>3 DEF IInv, InHand, Asking, page0
<1>5. Ledger'
  <2>1. page0 \notin Past
    BY DEF IInv, Ledger, Checked
  <2> QED BY <1>2, <1>3, <2>1, LedgerOfAsking
<1>6. Tally'
  <2>1. Allowed429' = Allowed429 /\ PerPage' = PerPage
    BY <1>3 DEF Asking, Allowed429, PerPage
  <2>2. run.count = run.before + run.refusals + run.errors /\ Sent' = 1
    <3>1. run.step = "attempt" /\ run'.step = "reply"
      BY <1>2
    <3>2. {run.count, run.before, run.refusals, run.errors} \subseteq Nat
      BY <1>1 DEF RunRecords
    <3>3. Sent = 0 /\ run.step \in Checked
      BY <3>1 DEF Sent, Checked
    <3>4. run.count = run.before + run.refusals + run.errors + 0
      BY <3>3 DEF IInv, Tally
    <3> QED BY <3>1, <3>2, <3>4 DEF Sent
  <2>3. run'.count = run'.before + run'.refusals + run'.errors + Sent'
    BY <1>2, <2>2
  <2>4. run.step \in Checked /\ run'.step \in Checked
    BY <1>2 DEF Checked
  <2> QED BY <1>2, <1>3, <2>1, <2>3, <2>4 DEF IInv, Tally, Asking
<1> QED BY <1>2, <1>3, <1>4, <1>5, <1>6, AskingStep

(* A reply of status 200, looked at or not.                                 *)
LEMMA ReplyPageStep ==
    ASSUME IInv, NEW html \in {"junk", "whole"}, ReplyPage(html)
    PROVE  IInv' /\ Kept
<1> USE DEF ReplyPage
<1>1. run \in RunRecords /\ run.index <= Len(run.manifest)
  BY TypeOKIsTyped DEF IInv, Position, Checked
<1>2. /\ run' \in RunRecords
      /\ run'.step = IF run.command = "backfill" THEN "open" ELSE "write"
      /\ run'.before = run.before
      /\ run'.html = html /\ run'.count = run.count
      /\ run'.refusals = run.refusals /\ run'.errors = run.errors
  BY <1>1 DEF RunRecords, Live, Checked
<1>3. Asking
  BY <1>1, <1>2 DEF RunRecords, Asking
<1>4. InHand'
  BY <1>2, <1>3 DEF IInv, InHand, Asking, page0, Validates
<1>5. Ledger'
  <2>1. page0 \notin Past
    BY DEF IInv, Ledger, Checked
  <2> QED BY <1>2, <1>3, <2>1, LedgerOfAsking
<1>6. Tally'
  BY <1>1, <1>2, <1>3 DEF IInv, Tally, Sent, PerPage, Allowed429, Checked, Asking, RunRecords
<1> QED BY <1>2, <1>3, <1>4, <1>5, <1>6, AskingStep

(* The request is repeated: a 429 that is waited out, or a server error.    *)
LEMMA RetryStep ==
    ASSUME IInv, run.step = "reply",
           \/ run.refusals < Allowed429
              /\ run' = [run EXCEPT !.step = "attempt", !.refusals = @ + 1]
           \/ run.errors < Max5xx
              /\ run' = [run EXCEPT !.step = "attempt", !.errors = @ + 1],
           UNCHANGED <<body, sidecar, catalog, cut>>
    PROVE  IInv' /\ Kept
<1>1. run \in RunRecords /\ run.index <= Len(run.manifest)
  BY TypeOKIsTyped DEF IInv, Position, Checked
<1>2. /\ run' \in RunRecords
      /\ run'.step = "attempt" /\ run'.before = run.before
      /\ run'.html = run.html /\ run'.count = run.count
      /\ run'.refusals + run'.errors = run.refusals + run.errors + 1
      /\ run'.refusals <= Allowed429
  <2>1. run.refusals <= Allowed429 /\ Allowed429 \in 0..Max429
    BY AcquisitionsAssumption DEF IInv, Tally, Allowed429
  <2>2. CASE run.refusals < Allowed429
             /\ run' = [run EXCEPT !.step = "attempt", !.refusals = @ + 1]
    <3> DEFINE n == run.refusals + 1
    <3>1. n \in 0..Max429 /\ n <= Allowed429
      BY <1>1, <2>1, <2>2, AcquisitionsAssumption DEF RunRecords
    <3>2. run' = [run EXCEPT !.step = "attempt", !.refusals = n]
      BY <2>2
    <3> HIDE DEF n
    <3>3. /\ run' \in RunRecords
          /\ run'.step = "attempt" /\ run'.before = run.before
          /\ run'.html = run.html /\ run'.count = run.count
          /\ run'.refusals = n /\ run'.errors = run.errors
      BY <1>1, <3>1, <3>2 DEF RunRecords, Live, Checked
    <3>4. run.refusals \in Nat /\ run.errors \in Nat
      BY <1>1 DEF RunRecords
    <3> QED BY <2>1, <3>1, <3>3, <3>4 DEF n
  <2>3. CASE run.errors < Max5xx
             /\ run' = [run EXCEPT !.step = "attempt", !.errors = @ + 1]
    <3> DEFINE n == run.errors + 1
    <3>1. n \in 0..Max5xx
      BY <1>1, <2>1, <2>3, AcquisitionsAssumption DEF RunRecords
    <3>2. run' = [run EXCEPT !.step = "attempt", !.errors = n]
      BY <2>3
    <3> HIDE DEF n
    <3>3. /\ run' \in RunRecords
          /\ run'.step = "attempt" /\ run'.before = run.before
          /\ run'.html = run.html /\ run'.count = run.count
          /\ run'.errors = n /\ run'.refusals = run.refusals
      BY <1>1, <3>1, <3>2 DEF RunRecords, Live, Checked
    <3>4. run.refusals \in Nat /\ run.errors \in Nat
      BY <1>1 DEF RunRecords
    <3> QED BY <2>1, <3>1, <3>3, <3>4 DEF n
  <2> QED BY <2>2, <2>3
<1>3. Asking
  BY <1>1, <1>2 DEF RunRecords, Asking
<1>4. InHand'
  BY <1>2, <1>3 DEF IInv, InHand, Asking, page0
<1>5. Ledger'
  <2>1. page0 \notin Past
    BY DEF IInv, Ledger, Checked
  <2> QED BY <1>2, <1>3, <2>1, LedgerOfAsking
<1>6. Tally'
  <2>1. Allowed429' = Allowed429 /\ PerPage' = PerPage
    BY <1>3 DEF Asking, Allowed429, PerPage
  <2>2. run'.count = run'.before + run'.refusals + run'.errors + Sent'
    <3>1. run.count = run.before + run.refusals + run.errors + 1 /\ Sent' = 0
      BY <1>2 DEF IInv, Tally, Sent, Checked
    <3>2. /\ run.refusals \in Nat /\ run.errors \in Nat /\ run'.refusals \in Nat
          /\ run'.errors \in Nat /\ run.before \in Nat
      BY <1>1, <1>2 DEF RunRecords
    <3> QED BY <1>2, <3>1, <3>2
  <2> QED BY <1>2, <1>3, <2>1, <2>2 DEF IInv, Tally, Checked, Asking
<1> QED BY <1>2, <1>3, <1>4, <1>5, <1>6, AskingStep

(* The manifest is done.                                                    *)
LEMMA FinishStep ==
    ASSUME IInv, Finish
    PROVE  IInv' /\ Kept
<1> USE DEF Finish
<1>1. run \in RunRecords
  BY TypeOKIsTyped DEF IInv
<1>2. /\ run' \in RunRecords
      /\ run'.step = "completed" /\ run'.command = run.command
      /\ run'.manifest = run.manifest /\ run'.index = run.index
      /\ run'.planned = run.planned /\ run'.hits = run.hits /\ run'.fetched = run.fetched
      /\ run'.stopped = run.stopped /\ run'.html = run.html /\ run'.live = run.live
      /\ run'.count = run.count /\ run'.before = run.before
      /\ run'.refusals = run.refusals /\ run'.errors = run.errors
  BY <1>1 DEF RunRecords, Reported
<1>3. TypeOK'
  <2>1. Typed'
    BY TypeOKIsTyped DEF IInv, Typed
  <2> QED BY <1>2, <2>1, TypeOKNext
<1>4. Archive'
  BY DEF IInv, Archive
<1>5. Position'
  <2>1. Len(run.manifest) \in Nat
    BY <1>1 DEF RunRecords
  <2>2. run.index = Len(run.manifest) + 1
    BY <2>1 DEF IInv, Position
  <2> QED BY <1>2, <2>1, <2>2 DEF Position, Checked
<1>6. InHand'
  BY <1>2 DEF IInv, InHand
<1>7. Ledger'
  <2>1. \A p : ~Writing(p) /\ ~Writing(p)'
    BY <1>2 DEF Writing
  <2>2. run.stopped = {} /\ \A p \in Past : body[p] # "none"
    BY DEF IInv, Ledger
  <2>3. \A p \in Ahead : Awaited(p)' <=> Awaited(p)
    BY <1>2, <2>1 DEF Awaited
  <2> QED BY <1>2, <1>3, <2>2, <2>3, LedgerWithinEntry DEF Checked
<1>8. Tally'
  BY <1>2 DEF IInv, Tally, Sent, PerPage, Allowed429, Checked
<1>9. Kept
  BY DEF Kept
<1> QED BY <1>3, <1>4, <1>5, <1>6, <1>7, <1>8, <1>9 DEF IInv

(* The run stops at the page in hand, which is not there (any more), or has *)
(* been left there, with or without its sidecar, by a clean-up that raised. *)
Leaves ==
    \/ UNCHANGED <<body, sidecar>>
    \/ /\ run.step = "publish" /\ sidecar' = sidecar
       /\ body' = [body EXCEPT ![page0] = "none"]
    \/ run.step = "publish" /\ body' = body /\ sidecar' = sidecar \cup {page0}

(* Such a stop keeps the invariant.                                         *)
LEMMA StoppedStep ==
    ASSUME IInv, run.step \in {"reply", "write", "publish"},
           NEW status \in {"rate_limited", "failed"}, run' = Stopped(status),
           UNCHANGED <<catalog, cut>>, Leaves
    PROVE  IInv' /\ Kept
<1>1. run \in RunRecords /\ run.index <= Len(run.manifest) /\ page0 \in Pages /\ Typed
  <2>1. run.index <= Len(run.manifest)
    BY DEF IInv, Position, Checked
  <2> QED BY <2>1, Page0IsPage, TypeOKIsTyped DEF IInv
<1> DEFINE r == [run EXCEPT !.step = status, !.stopped = {page0}]
<1>2. /\ r \in RunRecords
      /\ r.step = status /\ r.command = run.command
      /\ r.manifest = run.manifest /\ r.index = run.index
      /\ r.planned = run.planned /\ r.hits = run.hits /\ r.fetched = run.fetched
      /\ r.stopped = {page0} /\ r.live = run.live /\ r.count = run.count
  BY <1>1 DEF RunRecords, Reported
<1>3. run' = Counted(r)
  BY DEF Stopped
<1>4. Requests \in Nat
  BY RequestsIsNat DEF Checked
<1> HIDE DEF r
<1>5. /\ run' \in RunRecords
      /\ run'.step = status /\ run'.command = run.command
      /\ run'.manifest = run.manifest /\ run'.index = run.index
      /\ run'.planned = run.planned /\ run'.hits = run.hits /\ run'.fetched = run.fetched
      /\ run'.stopped = {page0} /\ run'.live = run.live + Requests
      /\ run'.count = run.count
      /\ run'.before = 0 /\ run'.refusals = 0 /\ run'.errors = 0 /\ run'.html = "whole"
  BY <1>2, <1>3, <1>4, CountedFacts
<1>6. /\ page0 \notin sidecar /\ page0 \notin Past /\ page0 \notin cut
      /\ \A p \in Pages \ {page0} :
            body'[p] = body[p] /\ (p \in sidecar' <=> p \in sidecar)
      /\ Typed'
      /\ run.step # "publish" => body[page0] = "none" /\ body' = body /\ sidecar' = sidecar
      /\ run.step = "publish" => body[page0] \in {"junk", "whole"}
      /\ body'[page0] \in {"none", body[page0]}
      /\ page0 \in sidecar' => body'[page0] = body[page0] /\ run.step = "publish"
  <2>1. page0 \notin Past
    BY DEF IInv, Ledger, Checked
  <2>2. /\ run.step # "publish" => body[page0] = "none"
        /\ run.step = "publish" => body[page0] \in {"junk", "whole"}
    BY <1>1 DEF IInv, InHand, RunRecords
  <2>3. page0 \notin sidecar /\ page0 \notin cut
    BY <1>1, <2>2 DEF IInv, InHand, Archive
  <2> QED BY <1>1, <2>1, <2>2, <2>3 DEF Typed, Leaves
<1>7. TypeOK'
  BY <1>5, <1>6, TypeOKNext
<1>8. Archive'
  <2> SUFFICES ASSUME NEW p \in Pages
               PROVE  /\ p \in sidecar' => body'[p] \in {"junk", "whole"}
                      /\ body'[p] = "partial" <=> p \in cut'
                      /\ body'[p] \in {"partial", "junk"} => p \in TeamPages
    BY DEF Archive
  <2>1. CASE p = page0
    BY <1>6, <2>1 DEF IInv, Archive
  <2>2. CASE p # page0
    BY <1>6, <2>2 DEF IInv, Archive
  <2> QED BY <2>1, <2>2
<1>9. Position'
  BY <1>1, <1>5 DEF IInv, Position
<1>10. InHand'
  BY <1>5, <1>6 DEF IInv, InHand, page0
<1>11. Ledger'
  <2>1. \A p : ~Writing(p)'
    BY <1>5 DEF Writing
  <2>2. \A p \in Past : p \in Pages
    BY <1>1 DEF IInv, Ledger, RunRecords
  <2>3. \A p \in Past : body'[p] # "none"
    BY <1>6, <2>2 DEF IInv, Ledger
  <2>4. \A p \in Ahead : Awaited(p)' <=> Awaited(p)
    <3>1. \A p \in Ahead : p \in Pages
      BY <1>1 DEF Ahead, RunRecords, IInv, Position
    <3>2. body[page0] = "none" \/ Writing(page0)
      BY <1>6 DEF Writing
    <3>3. \A p : p # page0 => ~Writing(p)
      BY DEF Writing
    <3>4. run.stopped = {}
      BY DEF IInv, Ledger
    <3>5. \A p : Awaited(p) <=> body[p] = "none" \/ Writing(p)
      BY <3>4 DEF Awaited
    <3>6. \A p : Awaited(p)' <=> body'[p] = "none" \/ p = page0
      BY <1>5, <2>1 DEF Awaited
    <3> QED BY <1>6, <3>1, <3>2, <3>3, <3>5, <3>6
  <2> QED BY <1>5, <1>6, <1>7, <2>3, <2>4, LedgerWithinEntry DEF Checked
<1>12. Tally'
  <2>1. run.step \in Checked \ {"attempt"} /\ run'.step \notin Checked
    BY <1>5 DEF Checked
  <2> QED BY <1>5, <2>1, TallyOfResult
<1>13. Kept
  <2>1. run.step = "publish" => Writing(page0)
    BY DEF Writing
  <2> QED BY <1>1, <1>6, <2>1 DEF Kept
<1> QED BY <1>7, <1>8, <1>9, <1>10, <1>11, <1>12, <1>13 DEF IInv

(* The steps of a writer on the page in hand, up to its sidecar.            *)
Putting ==
    /\ run.step \in {"write", "open", "text"} /\ run'.step \in {"publish", "text", "meta"}
    /\ run' = [run EXCEPT !.step = run'.step]
    /\ catalog' = catalog
    /\ body'[page0] # "none"
    /\ \A p \in Pages \ {page0} :
        body'[p] = body[p] /\ (p \in sidecar' <=> p \in sidecar)

(* A step of a write under way, between the calls of the writers, keeps the *)
(* invariant.                                                               *)
LEMMA PuttingStep ==
    ASSUME IInv, Putting, Typed', Archive', InHand'
    PROVE  IInv' /\ Kept
<1> USE DEF Putting
<1>1. run \in RunRecords /\ run.index <= Len(run.manifest)
  BY TypeOKIsTyped DEF IInv, Position, Checked
<1>2. /\ run' \in RunRecords
      /\ run'.command = run.command
      /\ run'.manifest = run.manifest /\ run'.index = run.index
      /\ run'.planned = run.planned /\ run'.hits = run.hits /\ run'.fetched = run.fetched
      /\ run'.stopped = run.stopped /\ run'.html = run.html /\ run'.live = run.live
      /\ run'.count = run.count /\ run'.before = run.before
      /\ run'.refusals = run.refusals /\ run'.errors = run.errors
  BY <1>1 DEF RunRecords, Live, Checked
<1>3. TypeOK'
  BY <1>2, TypeOKNext
<1>4. Position'
  BY <1>1, <1>2 DEF IInv, Position, Checked
<1>5. page0' = page0 /\ page0 \notin Past /\ run.stopped = {}
  BY <1>2 DEF IInv, Ledger, Checked, page0
<1>6. Ledger'
  <2>1. \A p \in Past : body'[p] # "none"
    <3>1. \A p \in Past : p \in Pages /\ body[p] # "none"
      BY <1>1 DEF IInv, Ledger, RunRecords
    <3> QED BY <1>5, <3>1
  <2>2. \A p \in Ahead : Awaited(p)' <=> Awaited(p)
    <3>1. \A p \in Ahead : p \in Pages
      BY <1>1 DEF Ahead, RunRecords, IInv, Position
    <3>2. body[page0] = "none" \/ Writing(page0)
      BY DEF IInv, InHand, Writing
    <3>3. Writing(page0)' /\ \A p : p # page0 => ~Writing(p) /\ ~Writing(p)'
      BY <1>5 DEF Writing
    <3> QED BY <1>2, <1>5, <3>1, <3>2, <3>3 DEF Awaited
  <2> QED BY <1>2, <1>3, <1>5, <2>1, <2>2, LedgerWithinEntry
<1>7. Tally'
  BY <1>2 DEF IInv, Tally, Sent, PerPage, Allowed429, Checked
<1>8. Kept
  <2>1. body[page0] = "none" \/ Writing(page0)
    BY DEF IInv, InHand, Writing
  <2> QED BY <2>1 DEF Kept
<1> QED BY <1>3, <1>4, <1>6, <1>7, <1>8 DEF IInv

(* The four-step writers and set, one step after the other.                 *)
LEMMA WriterStep ==
    ASSUME IInv, PublishBody \/ SetOpens \/ SetWrites
    PROVE  IInv' /\ Kept
<1>1. run \in RunRecords /\ Typed /\ page0 \in Pages
  <2>1. run.step \in Checked
    BY DEF PublishBody, SetOpens, SetWrites, Checked
  <2> QED BY <2>1, Page0IsPage, TypeOKIsTyped DEF IInv, Position
<1>2. page0 \notin sidecar
  BY <1>1 DEF IInv, InHand, Archive, PublishBody, SetOpens, SetWrites
<1>3. run.command = "backfill" => page0 \in TeamPages
  <2>1. run.step \in Checked
    BY DEF PublishBody, SetOpens, SetWrites, Checked
  <2> QED BY <2>1, Page0IsPage DEF IInv, InHand, Position, page0
<1>4. CASE PublishBody
  <2> USE <1>4 DEF PublishBody
  <2>1. run' = [run EXCEPT !.step = "publish"] /\ run'.step = "publish"
    BY <1>1 DEF RunRecords
  <2>2. run.html = "whole" /\ body'[page0] = "whole"
    BY <1>1 DEF IInv, InHand, Typed
  <2>3. Putting
    BY <1>1, <2>1, <2>2 DEF Putting, Typed
  <2>4. Typed'
    BY <1>1, <2>2 DEF Typed
  <2>5. Archive'
    BY <1>1, <1>2, <2>2 DEF IInv, Archive, Typed, Free
  <2>6. InHand'
    BY <1>1, <1>2, <2>1, <2>2 DEF IInv, InHand, RunRecords, page0
  <2> QED BY <2>3, <2>4, <2>5, <2>6, PuttingStep
<1>5. CASE SetOpens
  <2> USE <1>5 DEF SetOpens
  <2>1. run' = [run EXCEPT !.step = "text"] /\ run'.step = "text"
    BY <1>1 DEF RunRecords
  <2>2. body'[page0] = "partial" /\ sidecar' = sidecar
    BY <1>1, <1>2 DEF Typed
  <2>3. Putting
    BY <1>1, <2>1, <2>2 DEF Putting, Typed
  <2>4. Typed'
    BY <1>1 DEF Typed
  <2>5. Archive'
    BY <1>1, <1>2, <1>3, <2>2 DEF IInv, InHand, Archive, Typed
  <2>6. InHand'
    BY <1>1, <1>2, <2>1, <2>2 DEF IInv, InHand, RunRecords, page0
  <2> QED BY <2>3, <2>4, <2>5, <2>6, PuttingStep
<1>6. CASE SetWrites
  <2> USE <1>6 DEF SetWrites
  <2>1. run' = [run EXCEPT !.step = "meta"] /\ run'.step = "meta"
    BY <1>1 DEF RunRecords
  <2>2. run.html \in {"junk", "whole"} /\ body'[page0] = run.html
    BY <1>1 DEF Typed, RunRecords
  <2>3. Putting
    BY <1>1, <2>1, <2>2 DEF Putting, Typed
  <2>4. Typed'
    BY <1>1, <2>2 DEF Typed
  <2>5. Archive'
    BY <1>1, <1>2, <1>3, <2>2 DEF IInv, InHand, Archive, Typed
  <2>6. InHand'
    BY <1>1, <1>2, <2>1, <2>2 DEF IInv, InHand, RunRecords, page0
  <2> QED BY <2>3, <2>4, <2>5, <2>6, PuttingStep
<1> QED BY <1>4, <1>5, <1>6

(* The sidecar is there: the page is fetched.                               *)
LEMMA SidecarStep ==
    ASSUME IInv, PublishSidecar \/ SetSidecar
    PROVE  IInv' /\ Kept
<1>1. /\ run.step \in {"publish", "meta"} /\ sidecar' = sidecar \cup {page0}
      /\ run' = Fetched /\ UNCHANGED <<body, catalog, cut>>
  BY DEF PublishSidecar, SetSidecar
<1>2. run \in RunRecords /\ Typed /\ page0 \in Pages /\ run.index <= Len(run.manifest)
  <2>1. run.index <= Len(run.manifest)
    BY <1>1 DEF IInv, Position, Checked
  <2> QED BY <2>1, Page0IsPage, TypeOKIsTyped DEF IInv
<1> DEFINE fetched == run.fetched \cup {page0}
           index == run.index + 1
           r == [run EXCEPT !.step = "entry", !.fetched = fetched, !.index = index]
<1>3. fetched \in SUBSET Pages /\ index \in Nat
  BY <1>2 DEF RunRecords
<1>4. run' = Counted(r)
  BY <1>1 DEF Fetched
<1> HIDE DEF fetched, index
<1>5. /\ r \in RunRecords
      /\ r.step = "entry" /\ r.command = run.command
      /\ r.manifest = run.manifest /\ r.index = index
      /\ r.planned = run.planned /\ r.hits = run.hits /\ r.fetched = fetched
      /\ r.stopped = run.stopped /\ r.live = run.live /\ r.count = run.count
  BY <1>2, <1>3 DEF RunRecords, Live
<1>6. Requests \in Nat
  BY <1>1, RequestsIsNat DEF Checked
<1> HIDE DEF r
<1>7. /\ run' \in RunRecords
      /\ run'.step = "entry" /\ run'.command = run.command
      /\ run'.manifest = run.manifest /\ run'.index = run.index + 1
      /\ run'.planned = run.planned /\ run'.hits = run.hits
      /\ run'.fetched = run.fetched \cup {page0}
      /\ run'.stopped = run.stopped /\ run'.live = run.live + Requests
      /\ run'.count = run.count
      /\ run'.before = 0 /\ run'.refusals = 0 /\ run'.errors = 0 /\ run'.html = "whole"
  BY <1>4, <1>5, <1>6, CountedFacts DEF fetched, index
<1>8. TypeOK'
  <2>1. Typed'
    BY <1>1, <1>2 DEF Typed
  <2> QED BY <1>7, <2>1, TypeOKNext
<1>9. body[page0] \in {"junk", "whole"} /\ Writing(page0)
  BY <1>1, <1>2 DEF IInv, InHand, Writing, RunRecords
<1>10. Archive'
  BY <1>1, <1>9 DEF IInv, Archive
<1>11. Position'
  BY <1>2, <1>7 DEF IInv, Position, Checked, RunRecords
<1>12. InHand'
  BY <1>7 DEF IInv, InHand
<1>13. Ledger'
  <2>1. run.stopped = {}
    BY <1>1 DEF IInv, Ledger
  <2> QED BY <1>1, <1>2, <1>7, <1>8, <1>9, <2>1, LedgerAtNextEntry
<1>14. Tally'
  <2>1. run.step \in Checked \ {"attempt"} /\ run'.step \notin Checked
    BY <1>1, <1>7 DEF Checked
  <2> QED BY <1>7, <2>1, TallyOfResult
<1>15. Kept
  BY <1>1, <1>9 DEF Kept
<1> QED BY <1>8, <1>10, <1>11, <1>12, <1>13, <1>14, <1>15 DEF IInv

-----------------------------------------------------------------------------
(* Every step of the specification.                                         *)
LEMMA StepIInv ==
    ASSUME IInv, [Next]_vars
    PROVE  IInv' /\ (Next => Kept)
<1>1. ASSUME NEW p \in PlayerPages, NEW years \in SUBSET Years, LoadPlayer(p, years)
      PROVE  IInv' /\ Kept
  BY <1>1, LoadPlayerStep
<1>2. ASSUME NEW command \in Commands, NEW manifest, StartRun(command, manifest)
      PROVE  IInv' /\ Kept
  BY <1>2, StartRunStep
<1>3. CASE CacheHit \/ BeginFetch \/ Finish \/ Attempt
  BY <1>3, CacheHitStep, BeginFetchStep, FinishStep, AttemptStep
<1>4. CASE ReplyPage("whole") \/ ReplyPage("junk")
  BY <1>4, ReplyPageStep
<1>5. CASE ReplyTooManyRequests
  <2>1. CASE run.refusals < Allowed429
    BY <1>5, <2>1, RetryStep DEF ReplyTooManyRequests
  <2>2. CASE ~(run.refusals < Allowed429)
    BY <1>5, <2>2, StoppedStep DEF ReplyTooManyRequests, Stop, Leaves
  <2> QED BY <2>1, <2>2
<1>6. CASE ReplyServerError
  BY <1>6, RetryStep DEF ReplyServerError
<1>7. CASE FetchFails \/ WriteFails \/ TakeBack
  BY <1>7, StoppedStep DEF FetchFails, WriteFails, TakeBack, Stop, Leaves
<1>8. CASE PublishBody \/ SetOpens \/ SetWrites
  BY <1>8, WriterStep
<1>9. CASE PublishSidecar \/ SetSidecar
  BY <1>9, SidecarStep
<1>10. CASE SetFails \/ Kill
  BY <1>10, LostHasNothing DEF SetFails, Kill, IInv
<1>11. CASE CleanupFails
  BY <1>11, StoppedStep DEF CleanupFails, Leaves
<1>12. CASE UNCHANGED vars
  <2> USE <1>12 DEF vars
  <2>1. TypeOK'
    BY DEF IInv, TypeOK
  <2>2. Archive' /\ Position' /\ InHand' /\ Kept
    BY DEF IInv, Archive, Position, InHand, page0, Kept
  <2>3. Ledger'
    <3>1. Past' = Past /\ page0' = page0 /\ ToFetch' = ToFetch
      BY DEF Past, Ahead, page0, ToFetch, Awaited, Writing
    <3> QED BY <3>1 DEF IInv, Ledger
  <2>4. Tally'
    BY DEF IInv, Tally, Sent, PerPage, Allowed429
  <2> QED BY <2>1, <2>2, <2>3, <2>4 DEF IInv
<1> QED
  BY <1>1, <1>2, <1>3, <1>4, <1>5, <1>6, <1>7, <1>8, <1>9, <1>10, <1>11, <1>12 DEF Next, Step

-----------------------------------------------------------------------------
(* The HTTP requests of n attempts are at most these.                       *)
Most(n) == n * (1 + MaxRedirects)

(* The HTTP requests of a run, behind its attempts.                         *)
Wire == run.count <= run.sent /\ run.sent <= Most(run.count)

(* One attempt more, one request and its redirects more.                    *)
LEMMA MostStep ==
    ASSUME NEW n \in Nat
    PROVE  Most(0) = 0 /\ Most(n) \in Nat /\ Most(n + 1) = Most(n) + 1 + MaxRedirects
BY AcquisitionsAssumption DEF Most

(* No step but an attempt sends or counts; a new run has done neither.      *)
LEMMA OnlyAttemptsSend ==
    ASSUME IInv, [Next]_vars, ~Attempt
    PROVE  \/ run'.count = run.count /\ run'.sent = run.sent
           \/ run'.count = 0 /\ run'.sent = 0
<1>1. run \in RunRecords
  BY TypeOKIsTyped DEF IInv
<1>2. CASE \/ UNCHANGED vars
           \/ \E p \in PlayerPages, years \in SUBSET Years : LoadPlayer(p, years)
  BY <1>2 DEF vars, LoadPlayer
<1>3. CASE \E command \in Commands : \E manifest \in Manifests(command) :
             StartRun(command, manifest)
  BY <1>3 DEF StartRun, NoRun
<1>4. CASE SetFails \/ Kill
  BY <1>4 DEF SetFails, Kill, Lost, NoRun
<1>5. CASE \/ CacheHit \/ BeginFetch \/ Finish \/ ReplyPage("whole") \/ ReplyPage("junk")
           \/ ReplyServerError \/ PublishBody \/ SetOpens \/ SetWrites
  BY <1>1, <1>5 DEF RunRecords, CacheHit, BeginFetch, Finish, ReplyPage, ReplyServerError,
     PublishBody, SetOpens, SetWrites
<1>6. CASE ReplyTooManyRequests \/ FetchFails \/ WriteFails \/ TakeBack \/ CleanupFails
  BY <1>1, <1>6 DEF RunRecords, ReplyTooManyRequests, FetchFails, WriteFails, TakeBack,
     CleanupFails, Stop, Stopped, Counted
<1>7. CASE PublishSidecar \/ SetSidecar
  BY <1>1, <1>7 DEF RunRecords, PublishSidecar, SetSidecar, Fetched, Counted
<1> QED BY <1>2, <1>3, <1>4, <1>5, <1>6, <1>7 DEF Next, Step

(* The HTTP requests stay within what the attempts account for.             *)
LEMMA StepWire ==
    ASSUME IInv, Wire, [Next]_vars
    PROVE  Wire'
<1>1. run.count \in Nat /\ run.sent \in Nat /\ Most(run.count) \in Nat
  BY TypeOKIsTyped, MostStep DEF IInv, RunRecords
<1>2. CASE Attempt
  <2>1. run \in RunRecords
    BY TypeOKIsTyped DEF IInv
  <2>2. PICK redirects \in 0..MaxRedirects :
          run' = [run EXCEPT !.step = "reply", !.count = @ + 1, !.sent = @ + 1 + redirects]
    BY <1>2 DEF Attempt
  <2>3. run'.count = run.count + 1 /\ run'.sent = run.sent + 1 + redirects
    BY <2>1, <2>2 DEF RunRecords
  <2>4. Most(run'.count) = Most(run.count) + 1 + MaxRedirects
    BY <1>1, <2>3, MostStep
  <2>5. run'.count <= run'.sent /\ run'.sent <= Most(run'.count)
    <3> DEFINE budget == Most(run.count)
    <3>1. /\ run.count <= run.sent /\ run.sent <= budget /\ budget \in Nat
          /\ Most(run'.count) = budget + 1 + MaxRedirects
      BY <1>1, <2>4 DEF Wire
    <3> HIDE DEF budget
    <3> QED BY <1>1, <2>3, <3>1, AcquisitionsAssumption
  <2> QED BY <2>5 DEF Wire, Most
<1>3. CASE ~Attempt
  <2>1. 0 <= Most(0)
    BY MostStep
  <2>2. PICK count, sent : count = run'.count /\ sent = run'.sent
    OBVIOUS
  <2>3. count <= sent /\ sent <= Most(count)
    BY <1>1, <1>3, <2>1, <2>2, OnlyAttemptsSend DEF Wire
  <2> QED BY <2>2, <2>3 DEF Wire, Most
<1> QED BY <1>2, <1>3

(* A run that has not begun has sent nothing.                               *)
LEMMA InitWire == Init => Wire
<1>1. Init => run.count = 0 /\ run.sent = 0
  BY DEF Init, NoRun
<1>2. 0 <= Most(0)
  BY MostStep
<1> QED BY <1>1, <1>2 DEF Wire

(* A report accounts for the pages up to the one it stopped at, keeps to    *)
(* the estimate of the dry run and tells the attempts within the retries,   *)
(* and the HTTP requests within the retries and the redirects.              *)
LEMMA LedgerIsReport ==
    ASSUME IInv, Wire
    PROVE  ReportIsHonest
<1> SUFFICES ASSUME run.step \in Reported
             PROVE  ReportIsHonest
  BY DEF ReportIsHonest
<1>1. /\ run \in RunRecords /\ run.manifest \in Seq(Pages) /\ Len(run.manifest) \in Nat
      /\ run.index \in 1..Len(run.manifest) + 1 /\ run.step \notin Checked
  BY TypeOKIsTyped DEF IInv, RunRecords, Position, Reported, Checked
<1>2. run.hits \cup run.fetched \cup run.stopped =
        {run.manifest[i] : i \in 1..Len(run.manifest) \cap 1..run.index}
  <2>1. CASE run.step = "completed"
    <3>1. run.stopped = {} /\ run.index = Len(run.manifest) + 1
      BY <2>1 DEF IInv, Ledger, Position
    <3>2. 1..Len(run.manifest) \cap 1..run.index = 1..(run.index - 1)
      BY <1>1, <3>1
    <3> QED BY <3>1, <3>2 DEF IInv, Ledger, Past
  <2>2. CASE run.step # "completed"
    <3>1. run.stopped = {page0} /\ run.index <= Len(run.manifest)
      BY <2>2 DEF IInv, Ledger, Position, Reported
    <3>2. 1..Len(run.manifest) \cap 1..run.index = 1..(run.index - 1) \cup {run.index}
      BY <1>1, <3>1
    <3> QED BY <3>1, <3>2 DEF IInv, Ledger, Past, page0
  <2> QED BY <2>1, <2>2
<1>3. \A p \in run.hits \cup run.fetched : body[p] # "none"
  BY DEF IInv, Ledger
<1>4. IsFiniteSet(ToFetch) /\ run.planned = Cardinality(ToFetch)
  <2>1. ToFetch \in SUBSET Pages
    BY <1>1 DEF ToFetch, Ahead, RunRecords
  <2> QED BY <2>1, AcquisitionsAssumption, FS_Subset DEF IInv, Ledger
<1>5. run.fetched \cup run.stopped \subseteq ToFetch
  <2>1. CASE run.step = "completed"
    BY <2>1 DEF IInv, Ledger, ToFetch
  <2>2. CASE run.step # "completed"
    <3>1. run.stopped = {page0} /\ page0 \in Ahead
      BY <1>1, <2>2 DEF IInv, Ledger, Position, Reported, Ahead, page0
    <3> QED BY <3>1 DEF ToFetch, Awaited
  <2> QED BY <2>1, <2>2
<1>6. Cardinality(run.fetched \cup run.stopped) <= run.planned
  BY <1>4, <1>5, FS_Subset
<1>7. run.step = "completed" => Cardinality(run.fetched) = run.planned
  <2> SUFFICES ASSUME run.step = "completed"
               PROVE  Cardinality(run.fetched) = run.planned
    OBVIOUS
  <2>1. Ahead = {}
    BY <1>1 DEF IInv, Position, Ahead
  <2>2. ToFetch = run.fetched
    BY <2>1 DEF ToFetch
  <2> QED BY <1>4, <2>2
<1>8. IF run.command = "pilot" THEN run.live = run.count
      ELSE run.live <= run.count /\ run.count <= run.live * (1 + Max5xx + Allowed429)
  BY <1>1 DEF IInv, Tally, PerPage
<1>9. run.live <= run.sent /\ run.sent <= run.count * (1 + MaxRedirects)
  <2>1. run.live <= run.count /\ run.live \in Nat /\ run.count \in Nat /\ run.sent \in Nat
    BY <1>1, <1>8 DEF RunRecords
  <2> QED BY <2>1 DEF Wire, Most
<1> QED BY <1>2, <1>3, <1>6, <1>7, <1>8, <1>9 DEF ReportIsHonest

(* A sidecar belongs to the body beside it, a truncated body was left by a  *)
(* set that did not finish, and unchecked content is only ever a            *)
(* team-season page of the first backfill.                                  *)
THEOREM Bounded == Spec => []DamageIsBounded
<1>1. IInv => DamageIsBounded
  BY DEF IInv, Archive, DamageIsBounded
<1> QED BY <1>1, InitIInv, StepIInv, PTL DEF Spec

(* The report of every run that makes one is honest: its pages, its         *)
(* estimate, its attempts, and what it leaves open about the HTTP requests. *)
THEOREM Honest == Spec => []ReportIsHonest
<1>1. Init => IInv /\ Wire
  BY InitIInv, InitWire
<1>2. IInv /\ Wire /\ [Next]_vars => IInv' /\ Wire'
  BY StepIInv, StepWire
<1>3. IInv /\ Wire => ReportIsHonest
  BY LedgerIsReport
<1> QED BY <1>1, <1>2, <1>3, PTL DEF Spec

(* Nothing is overwritten and nothing is lost, by any command.              *)
THEOREM Preserved == Spec => ArchiveIsKept
<1>1. IInv /\ [Next]_vars =>
        [\A p \in Pages : body[p] # "none" /\ ~Writing(p) =>
            body'[p] = body[p] /\ (p \in sidecar' <=> p \in sidecar)]_vars
  BY StepIInv DEF Kept, vars
<1> QED BY <1>1, InitIInv, StepIInv, PTL DEF Spec, ArchiveIsKept
=============================================================================
