---------------------- MODULE SeasonAcquisitionProofs ----------------------
(***************************************************************************)
(* The safety invariants of SeasonAcquisition, for any number of operators *)
(* and pages, any batch sizes and any number of retries; the pace of the   *)
(* Client they share; and the selection of SeasonPlan, for every calendar  *)
(* its assumptions allow.                                                  *)
(*                                                                         *)
(* A selection is exact because it has the reviewed number of games and is *)
(* either within the games that are due or holds them all.  With a play-in *)
(* row the dates keep later games out.  Without one, the season is over    *)
(* and the pages have every regular game, or it has a Cup final and the    *)
(* selection is too small: no team has more than its 82 games in it, and   *)
(* the final is one game more.                                             *)
(***************************************************************************)
EXTENDS SeasonAcquisition, Client, SeasonPlan,
        FiniteSetTheorems, FunctionTheorems, WellFoundedInduction, TLAPS

(* While a page is asked for, the requests of the entry are those after     *)
(* `before`, which is what the finished entries cost.                        *)
Fetching == {"attempt", "reply", "body", "sidecar"}

Counts(r) ==
    /\ r.step = "entry" => r.requests = r.count /\ r.live = r.count
    /\ r.step \in Fetching =>
          r.requests = r.before /\ r.live = r.before /\ r.before <= r.count
    /\ r.step \in Reasons => r.requests = r.count

InBudget(r) == r.budget # NoBudget => r.count <= r.budget

(* Every entry the loop has passed is a hit or was fetched. *)
Positions(r) ==
    /\ r.step \in Live \cup {"completed"} =>
          r.stopped = 0 /\ r.hits + r.fetched = r.index - 1
    /\ r.step \in Fetching => r.index \in Entries
    /\ r.step = "completed" => r.index = Pages + 1

(* What the run has passed, and what was cached when it began, is in the    *)
(* cache c unless another run took it back; a body that waits for its        *)
(* sidecar is there.                                                         *)
Kept(r, c) ==
    /\ 1..r.index - 1 \subseteq c \cup r.lost
    /\ r.start \subseteq c \cup r.lost
    /\ r.step \in Fetching => r.index \notin r.start \ r.lost
    /\ r.step = "sidecar" => r.index \in c

RunInv(r, c) == r \in Run /\ Counts(r) /\ InBudget(r) /\ Positions(r) /\ Kept(r, c)

(* A body is taken back only by the run that published it. *)
OnePublisher ==
    \A p, q \in Operators :
        p # q /\ run[p].step = "sidecar" /\ run[q].step = "sidecar"
            => run[p].index # run[q].index

(* The inductive invariant. *)
IInv == TypeOK /\ OnePublisher /\ \A p \in Operators : RunInv(run[p], cached)

-----------------------------------------------------------------------------
(* A run that is not moving keeps its invariant when the cache grows.       *)
LEMMA CacheGrows ==
    ASSUME NEW r, NEW c, NEW d, RunInv(r, c), c \subseteq d
    PROVE  RunInv(r, d)
  BY DEF RunInv, Kept

(* A step in which p moves to the run r and the cache grows or stays keeps  *)
(* the invariant if the run r has it, and publishes only a new body.        *)
LEMMA OneMoves ==
    ASSUME IInv, NEW p \in Operators, NEW r, run' = [run EXCEPT ![p] = r],
           cached \subseteq cached', cached' \subseteq Entries, RunInv(r, cached'),
           r.step = "sidecar" => r.index \notin cached
    PROVE  IInv'
<1>1. run' \in [Operators -> Run]
  BY DEF IInv, TypeOK, RunInv
<1>2. ASSUME NEW q \in Operators PROVE RunInv(run'[q], cached')
  <2>1. CASE q = p
    BY <2>1 DEF IInv, TypeOK
  <2>2. CASE q # p
    <3>1. run'[q] = run[q] /\ RunInv(run[q], cached)
      BY <2>2 DEF IInv, TypeOK
    <3>. QED BY <3>1, CacheGrows
  <2>. QED BY <2>1, <2>2
<1>3. OnePublisher'
  <2>. SUFFICES ASSUME NEW q \in Operators \ {p}, run'[q].step = "sidecar", r.step = "sidecar"
                PROVE  run'[q].index # r.index
    BY DEF OnePublisher, IInv, TypeOK
  <2>1. run'[q] = run[q] /\ run[q].index \in cached
    BY DEF IInv, TypeOK, RunInv, Kept
  <2>. QED BY <2>1
<1>. QED BY <1>1, <1>2, <1>3 DEF IInv, TypeOK

(* The run after Stop accounts for all its requests.                        *)
LEMMA StopRunInv ==
    ASSUME IInv, NEW p \in Operators, NEW status \in Reasons \ {"completed"},
           run[p].step \in Fetching, Stop(p, status), UNCHANGED cached
    PROVE  IInv'
<1>. DEFINE r == [run[p] EXCEPT !.step = status, !.stopped = 1, !.requests = @ + Cost(p)]
<1>1. run' = [run EXCEPT ![p] = r]
  BY DEF Stop, IInv, TypeOK
<1>2. run[p] \in Run /\ RunInv(run[p], cached)
  BY DEF IInv, TypeOK
<1>3. r.requests = run[p].count
  BY <1>2 DEF RunInv, Counts, Cost, Run
<1>4. RunInv(r, cached)
  <2>1. r \in Run
    <3>1. ASSUME NEW x \in Reasons, NEW k \in 0..1, NEW n \in Nat
          PROVE  [run[p] EXCEPT !.step = x, !.stopped = k, !.requests = n] \in Run
      BY <1>2 DEF Run
    <3>2. status \in Reasons /\ 1 \in 0..1 /\ run[p].requests + Cost(p) \in Nat
      BY <1>2 DEF RunInv, Counts, Cost, Run
    <3>. QED BY <3>1, <3>2 DEF Cost
  <2>2. Counts(r)
    BY <1>2, <1>3 DEF Counts, Run, Reasons, Fetching
  <2>3. InBudget(r)
    BY <1>2 DEF RunInv, InBudget, Run
  <2>4. Positions(r)
    BY <1>2 DEF Positions, Run, Reasons, Live, Fetching
  <2>5. Kept(r, cached)
    BY <1>2 DEF RunInv, Kept, Run, Reasons, Fetching
  <2>. QED BY <2>1, <2>2, <2>3, <2>4, <2>5 DEF RunInv
<1>5. r.step # "sidecar"
  BY <1>2 DEF Run, Reasons
<1>. HIDE DEF r
<1>. QED BY <1>1, <1>4, <1>5, OneMoves DEF IInv, TypeOK

(* The initial states satisfy the invariant.                                *)
LEMMA InitIInv == Init => IInv
<1>. SUFFICES ASSUME Init PROVE IInv
  OBVIOUS
<1>. DEFINE r == [NewRun EXCEPT !.step = "crashed"]
<1>1. r \in Run
  BY AcquisitionAssumption DEF NewRun, Run
<1>2. RunInv(r, cached)
  BY <1>1, AcquisitionAssumption
  DEF NewRun, RunInv, Counts, InBudget, Positions, Kept, Fetching, Reasons, Live
<1>3. \A p \in Operators : run[p] = r
  BY DEF Init
<1>4. TypeOK
  BY <1>1 DEF Init, TypeOK
<1>5. OnePublisher
  BY <1>3 DEF OnePublisher, NewRun
<1>. HIDE DEF r
<1>. QED BY <1>2, <1>3, <1>4, <1>5 DEF IInv

-----------------------------------------------------------------------------
(* One lemma per group of actions: the actions that keep the run in its      *)
(* loop, those that end it, and the one that shrinks the cache.              *)
LEMMA LoopStepIInv ==
    ASSUME IInv, NEW p \in Operators,
           \/ StartRun(p) \/ Finish(p) \/ CacheHit(p) \/ StopAtMaxFetches(p) \/ BeginFetch(p)
    PROVE  IInv'
<1>. USE AcquisitionAssumption
<1>1. run[p] \in Run /\ RunInv(run[p], cached) /\ cached \subseteq Entries
  BY DEF IInv, TypeOK
<1>2. CASE StartRun(p)
  <2>1. PICK budget \in Budgets :
          run' = [run EXCEPT ![p] = [NewRun EXCEPT !.budget = budget, !.start = cached]]
    BY <1>2 DEF StartRun
  <2>. DEFINE r == [NewRun EXCEPT !.budget = budget, !.start = cached]
  <2>2. r \in Run
    <3>1. NewRun \in Run
      BY DEF NewRun, Run, Live
    <3>. QED BY <1>1, <3>1 DEF Run
  <2>3. RunInv(r, cached)
    BY <2>2 DEF NewRun, RunInv, Counts, InBudget, Positions, Kept, Fetching, Reasons, Live
  <2>4. r.step # "sidecar"
    BY <1>1 DEF NewRun
  <2>. HIDE DEF r
  <2>. QED BY <1>1, <1>2, <2>1, <2>3, <2>4, OneMoves DEF StartRun, r
<1>3. CASE Finish(p)
  <2>. DEFINE r == [run[p] EXCEPT !.step = "completed"]
  <2>1. run' = [run EXCEPT ![p] = r]
    BY <1>3 DEF Finish
  <2>2. r \in Run
    BY <1>1 DEF Run, Reasons
  <2>3. RunInv(r, cached)
    BY <1>1, <1>3, <2>2 DEF Finish, RunInv, Counts, InBudget, Positions, Kept, Run, Fetching,
                        Reasons, Live
  <2>4. r.step # "sidecar"
    BY <1>1 DEF Run
  <2>. HIDE DEF r
  <2>. QED BY <1>1, <1>3, <2>1, <2>3, <2>4, OneMoves DEF Finish
<1>4. CASE CacheHit(p)
  <2>. DEFINE r == [run[p] EXCEPT !.hits = @ + 1, !.index = @ + 1]
  <2>1. run' = [run EXCEPT ![p] = r] /\ run[p].index \in Entries
    BY <1>1, <1>4 DEF CacheHit
  <2>2. r \in Run
    <3>1. ASSUME NEW n \in Nat, NEW i \in 1..Pages + 1
          PROVE  [run[p] EXCEPT !.hits = n, !.index = i] \in Run
      BY <1>1 DEF Run
    <3>2. run[p].hits + 1 \in Nat /\ run[p].index + 1 \in 1..Pages + 1
      BY <1>1, <2>1 DEF Run, Entries
    <3>. QED BY <3>1, <3>2
  <2>3. Counts(r) /\ InBudget(r) /\ Positions(r)
    BY <1>1, <1>4, <2>1 DEF CacheHit, RunInv, Counts, InBudget, Positions, Run, Fetching,
                        Reasons, Live, Entries
  <2>4. Kept(r, cached)
    <3>1. 1..r.index - 1 = (1..run[p].index - 1) \cup {run[p].index}
      BY <1>1, <2>1 DEF Run, Entries
    <3>. QED BY <1>1, <1>4, <3>1 DEF CacheHit, RunInv, Kept, Run, Fetching
  <2>5. r.step # "sidecar"
    BY <1>1, <1>4 DEF CacheHit, Run
  <2>. HIDE DEF r
  <2>. QED BY <1>1, <1>4, <2>1, <2>2, <2>3, <2>4, <2>5, OneMoves DEF CacheHit, RunInv
<1>5. CASE StopAtMaxFetches(p)
  <2>. DEFINE r == [run[p] EXCEPT !.step = "max_fetches"]
  <2>1. run' = [run EXCEPT ![p] = r]
    BY <1>5 DEF StopAtMaxFetches
  <2>2. r \in Run
    BY <1>1 DEF Run, Reasons
  <2>3. RunInv(r, cached)
    BY <1>1, <1>5, <2>2 DEF StopAtMaxFetches, RunInv, Counts, InBudget, Positions, Kept, Run,
                        Fetching, Reasons, Live
  <2>4. r.step # "sidecar"
    BY <1>1 DEF Run
  <2>. HIDE DEF r
  <2>. QED BY <1>1, <1>5, <2>1, <2>3, <2>4, OneMoves DEF StopAtMaxFetches
<1>6. CASE BeginFetch(p)
  <2>. DEFINE r == [run[p] EXCEPT !.step = "attempt", !.before = run[p].count, !.errors = 0]
  <2>1. run' = [run EXCEPT ![p] = r] /\ run[p].index \in Entries
    BY <1>6 DEF BeginFetch
  <2>2. r \in Run
    <3>1. ASSUME NEW n \in Nat, NEW e \in 0..Max5xx
          PROVE  [run[p] EXCEPT !.step = "attempt", !.before = n, !.errors = e] \in Run
      BY <1>1 DEF Run, Live
    <3>2. run[p].count \in Nat /\ 0 \in 0..Max5xx
      BY <1>1 DEF Run
    <3>. QED BY <3>1, <3>2
  <2>3. Counts(r) /\ InBudget(r) /\ Positions(r)
    BY <1>1, <1>6, <2>1 DEF BeginFetch, RunInv, Counts, InBudget, Positions, Run, Fetching,
                        Reasons, Live
  <2>4. Kept(r, cached)
    BY <1>1, <1>6 DEF BeginFetch, RunInv, Kept, Run, Fetching
  <2>5. r.step # "sidecar"
    BY <1>1 DEF Run
  <2>. HIDE DEF r
  <2>. QED BY <1>1, <1>6, <2>1, <2>2, <2>3, <2>4, <2>5, OneMoves DEF BeginFetch, RunInv
<1>. QED BY <1>2, <1>3, <1>4, <1>5, <1>6

(* The steps inside one fetch keep the invariant.                           *)
LEMMA FetchStepIInv ==
    ASSUME IInv, NEW p \in Operators,
           \/ Attempt(p) \/ BudgetExhausted(p) \/ ReplyPage(p) \/ ReplyTooManyRequests(p)
           \/ ReplyServerError(p) \/ FetchFails(p) \/ WriteFails(p)
    PROVE  IInv'
<1>. USE AcquisitionAssumption
<1>1. run[p] \in Run /\ RunInv(run[p], cached) /\ cached \subseteq Entries
  BY DEF IInv, TypeOK
<1>2. CASE Attempt(p)
  <2>. DEFINE r == [run[p] EXCEPT !.step = "reply", !.count = @ + 1]
  <2>1. run' = [run EXCEPT ![p] = r]
    BY <1>2 DEF Attempt
  <2>2. r \in Run
    <3>1. ASSUME NEW n \in Nat PROVE [run[p] EXCEPT !.step = "reply", !.count = n] \in Run
      BY <1>1 DEF Run, Live
    <3>2. run[p].count + 1 \in Nat
      BY <1>1 DEF Run
    <3>. QED BY <3>1, <3>2
  <2>3. Counts(r) /\ Positions(r)
    BY <1>1, <1>2 DEF Attempt, RunInv, Counts, Positions, Run, Fetching, Reasons, Live
  <2>4. InBudget(r)
    <3>1. run[p].budget # NoBudget => run[p].budget \in Nat /\ run[p].count < run[p].budget
      BY <1>1, <1>2 DEF Attempt, Spent, Run
    <3>. QED BY <1>1, <3>1 DEF InBudget, Run
  <2>5. Kept(r, cached)
    BY <1>1, <1>2 DEF Attempt, RunInv, Kept, Run, Fetching
  <2>6. r.step # "sidecar"
    BY <1>1 DEF Run
  <2>. HIDE DEF r
  <2>. QED BY <1>1, <1>2, <2>1, <2>2, <2>3, <2>4, <2>5, <2>6, OneMoves DEF Attempt, RunInv
<1>3. CASE BudgetExhausted(p)
  BY <1>3, StopRunInv DEF BudgetExhausted, Fetching, Reasons
<1>4. CASE ReplyPage(p)
  <2>. DEFINE r == [run[p] EXCEPT !.step = "body"]
  <2>1. run' = [run EXCEPT ![p] = r]
    BY <1>4 DEF ReplyPage
  <2>2. r \in Run
    BY <1>1 DEF Run, Live
  <2>3. RunInv(r, cached)
    BY <1>1, <1>4, <2>2 DEF ReplyPage, RunInv, Counts, InBudget, Positions, Kept, Run, Fetching,
                        Reasons, Live
  <2>4. r.step # "sidecar"
    BY <1>1 DEF Run
  <2>. HIDE DEF r
  <2>. QED BY <1>1, <1>4, <2>1, <2>3, <2>4, OneMoves DEF ReplyPage
<1>5. CASE ReplyTooManyRequests(p)
  BY <1>5, StopRunInv DEF ReplyTooManyRequests, Fetching, Reasons
<1>6. CASE ReplyServerError(p)
  <2>. DEFINE r == [run[p] EXCEPT !.step = "attempt", !.errors = @ + 1]
  <2>1. run' = [run EXCEPT ![p] = r]
    BY <1>6 DEF ReplyServerError
  <2>2. r \in Run
    <3>1. ASSUME NEW e \in 0..Max5xx PROVE [run[p] EXCEPT !.step = "attempt", !.errors = e] \in Run
      BY <1>1 DEF Run, Live
    <3>2. run[p].errors + 1 \in 0..Max5xx
      BY <1>1, <1>6 DEF ReplyServerError, Run
    <3>. QED BY <3>1, <3>2
  <2>3. RunInv(r, cached)
    BY <1>1, <1>6, <2>2 DEF ReplyServerError, RunInv, Counts, InBudget, Positions, Kept, Run,
                        Fetching, Reasons, Live
  <2>4. r.step # "sidecar"
    BY <1>1 DEF Run
  <2>. HIDE DEF r
  <2>. QED BY <1>1, <1>6, <2>1, <2>3, <2>4, OneMoves DEF ReplyServerError
<1>7. CASE FetchFails(p)
  BY <1>7, StopRunInv DEF FetchFails, Fetching, Reasons
<1>8. CASE WriteFails(p)
  BY <1>8, StopRunInv DEF WriteFails, Fetching, Reasons
<1>. QED BY <1>2, <1>3, <1>4, <1>5, <1>6, <1>7, <1>8

(* The steps that publish a page keep the invariant.                        *)
LEMMA WriteStepIInv ==
    ASSUME IInv, NEW p \in Operators, PublishBody(p) \/ PublishSidecar(p) \/ Crash(p)
    PROVE  IInv'
<1>. USE AcquisitionAssumption
<1>1. run[p] \in Run /\ RunInv(run[p], cached) /\ cached \subseteq Entries
  BY DEF IInv, TypeOK
<1>2. CASE PublishBody(p)
  <2>. DEFINE r == [run[p] EXCEPT !.step = "sidecar"]
  <2>1. run' = [run EXCEPT ![p] = r]
    BY <1>2 DEF PublishBody
  <2>2. cached \subseteq cached' /\ cached' \subseteq Entries
    BY <1>1, <1>2 DEF PublishBody, RunInv, Positions, Fetching
  <2>3. r \in Run
    BY <1>1 DEF Run, Live
  <2>4. RunInv(r, cached')
    BY <1>1, <1>2, <2>2, <2>3 DEF PublishBody, RunInv, Counts, InBudget, Positions, Kept, Run,
                              Fetching, Reasons, Live
  <2>5. r.step = "sidecar" => r.index \notin cached
    BY <1>1, <1>2 DEF PublishBody, Run
  <2>. HIDE DEF r
  <2>. QED BY <2>1, <2>2, <2>4, <2>5, OneMoves
<1>3. CASE PublishSidecar(p)
  <2>. DEFINE r == [run[p] EXCEPT !.step = "entry", !.index = @ + 1, !.fetched = @ + 1,
                                  !.live = @ + Cost(p), !.requests = @ + Cost(p)]
  <2>1. run' = [run EXCEPT ![p] = r]
    BY <1>3 DEF PublishSidecar
  <2>2. /\ run[p].step = "sidecar" /\ run[p].index \in Entries /\ run[p].index \in Nat
        /\ run[p].requests + Cost(p) = run[p].count
        /\ run[p].live + Cost(p) = run[p].count
    BY <1>1, <1>3 DEF PublishSidecar, RunInv, Positions, Counts, Run, Fetching, Cost, Entries
  <2>3. r \in Run
    <3>1. ASSUME NEW i \in 1..Pages + 1, NEW f \in Nat, NEW l \in Nat, NEW n \in Nat
          PROVE  [run[p] EXCEPT !.step = "entry", !.index = i, !.fetched = f,
                                !.live = l, !.requests = n] \in Run
      BY <1>1 DEF Run, Live
    <3>2. /\ run[p].index + 1 \in 1..Pages + 1 /\ run[p].fetched + 1 \in Nat
          /\ run[p].live + Cost(p) \in Nat /\ run[p].requests + Cost(p) \in Nat
      BY <1>1, <2>2 DEF Run, Entries
    <3>. QED BY <3>1, <3>2
  <2>4. Counts(r) /\ InBudget(r) /\ Positions(r)
    BY <1>1, <2>2 DEF RunInv, Counts, InBudget, Positions, Run, Fetching, Reasons, Live, Entries
  <2>5. Kept(r, cached)
    <3>1. 1..r.index - 1 = (1..run[p].index - 1) \cup {run[p].index}
      BY <1>1, <2>2 DEF Run, Entries
    <3>2. run[p].index \in cached
      BY <1>1, <2>2 DEF RunInv, Kept
    <3>. QED BY <1>1, <2>2, <3>1, <3>2 DEF RunInv, Kept, Run, Fetching
  <2>6. r.step # "sidecar"
    BY <1>1 DEF Run
  <2>. HIDE DEF r
  <2>. QED BY <1>1, <1>3, <2>1, <2>3, <2>4, <2>5, <2>6, OneMoves DEF PublishSidecar, RunInv
<1>4. CASE Crash(p)
  <2>. DEFINE r == [run[p] EXCEPT !.step = "crashed"]
  <2>1. run' = [run EXCEPT ![p] = r]
    BY <1>4 DEF Crash
  <2>2. r \in Run
    BY <1>1 DEF Run
  <2>3. RunInv(r, cached)
    BY <1>1, <2>2 DEF RunInv, Counts, InBudget, Positions, Kept, Run, Fetching, Reasons, Live
  <2>4. r.step # "sidecar"
    BY <1>1 DEF Run
  <2>. HIDE DEF r
  <2>. QED BY <1>1, <1>4, <2>1, <2>3, <2>4, OneMoves DEF Crash
<1>. QED BY <1>2, <1>3, <1>4

(* The removed page is lost to every other run, whatever its place; no      *)
(* other run is about to publish the sidecar of the removed body.            *)
LEMMA TakeBackIInv ==
    ASSUME IInv, NEW p \in Operators, TakeBack(p)
    PROVE  IInv'
<1>. DEFINE page == run[p].index
            r == [run[p] EXCEPT !.step = "failed", !.stopped = 1, !.requests = @ + Cost(p)]
<1>. USE AcquisitionAssumption
<1>1. /\ run[p] \in Run /\ RunInv(run[p], cached) /\ run[p].step = "sidecar"
      /\ page \in Entries
  BY DEF IInv, TypeOK, TakeBack, RunInv, Positions, Fetching
<1>2. cached' = cached \ {page} /\ run'[p] = r
  BY DEF TakeBack
<1>3. \A q \in Operators \ {p} : run'[q] = Lose(run[q], page)
  BY DEF TakeBack
<1>4. RunInv(run'[p], cached')
  <2>1. run[p].requests + Cost(p) = run[p].count
    BY <1>1 DEF RunInv, Counts, Cost, Run, Fetching
  <2>2. r \in Run
    <3>1. ASSUME NEW x \in Reasons, NEW k \in 0..1, NEW n \in Nat
          PROVE  [run[p] EXCEPT !.step = x, !.stopped = k, !.requests = n] \in Run
      BY <1>1 DEF Run
    <3>2. "failed" \in Reasons /\ 1 \in 0..1 /\ run[p].requests + Cost(p) \in Nat
      BY <1>1, <2>1 DEF Run, Reasons
    <3>. QED BY <3>1, <3>2 DEF Cost
  <2>3. Counts(r) /\ InBudget(r) /\ Positions(r)
    BY <1>1, <2>1 DEF RunInv, Counts, InBudget, Positions, Run, Fetching, Reasons, Live
  <2>4. Kept(r, cached')
    <3>1. page \notin 1..page - 1
      BY <1>1 DEF Entries
    <3>2. page \notin run[p].start \ run[p].lost
      BY <1>1 DEF RunInv, Kept, Fetching
    <3>3. r.index = page /\ r.start = run[p].start /\ r.lost = run[p].lost /\ r.step = "failed"
      BY <1>1 DEF Run
    <3>. HIDE DEF r
    <3>. QED BY <1>1, <1>2, <3>1, <3>2, <3>3 DEF RunInv, Kept, Fetching
  <2>. HIDE DEF r
  <2>. QED BY <1>2, <2>2, <2>3, <2>4 DEF RunInv
<1>5. ASSUME NEW q \in Operators \ {p} PROVE RunInv(run'[q], cached')
  <2>. DEFINE l == Lose(run[q], page)
  <2>1. run[q] \in Run /\ RunInv(run[q], cached)
    BY DEF IInv, TypeOK
  <2>2. l \in Run
    BY <1>1, <2>1 DEF Lose, Run
  <2>3. Counts(l) /\ InBudget(l) /\ Positions(l)
    BY <2>1 DEF Lose, RunInv, Counts, InBudget, Positions, Run
  <2>4. run[q].step = "sidecar" => run[q].index # page
    BY <1>1 DEF IInv, OnePublisher
  <2>5. Kept(l, cached')
    <3>1. /\ l.index = run[q].index /\ l.start = run[q].start /\ l.step = run[q].step
          /\ l.lost = run[q].lost \cup {page}
      BY <2>1 DEF Lose, Run
    <3>. HIDE DEF l
    <3>. QED BY <1>2, <2>1, <2>4, <3>1 DEF RunInv, Kept
  <2>. HIDE DEF l
  <2>6. run'[q] = l
    BY <1>3 DEF l
  <2>. QED BY <2>2, <2>3, <2>5, <2>6 DEF RunInv
<1>6. TypeOK'
  <2>1. run' \in [Operators -> Run]
    <3>1. \A q \in Operators : run'[q] \in Run
      BY <1>4, <1>5 DEF RunInv
    <3>. QED BY <3>1 DEF TakeBack
  <2>. QED BY <1>2, <2>1 DEF IInv, TypeOK
<1>7. OnePublisher'
  <2>1. run'[p].step # "sidecar"
    BY <1>1, <1>2 DEF Run
  <2>2. \A q \in Operators \ {p} :
          run'[q].step = run[q].step /\ run'[q].index = run[q].index
    BY <1>3 DEF Lose, IInv, TypeOK, Run
  <2>. QED BY <2>1, <2>2 DEF IInv, OnePublisher
<1>. QED BY <1>4, <1>5, <1>6, <1>7 DEF IInv

(* Every step of the specification preserves the invariant.                 *)
LEMMA StepIInv == IInv /\ [Next]_vars => IInv'
<1>. SUFFICES ASSUME IInv, [Next]_vars PROVE IInv'
  OBVIOUS
<1>1. CASE Next
  <2>. PICK p \in Operators : StartRun(p) \/ Step(p) \/ Crash(p)
    BY <1>1 DEF Next
  <2>1. CASE StartRun(p)
    BY <2>1, LoopStepIInv
  <2>2. CASE Crash(p)
    BY <2>2, WriteStepIInv
  <2>3. CASE Step(p)
    BY <2>3, LoopStepIInv, FetchStepIInv, WriteStepIInv, TakeBackIInv DEF Step
  <2>. QED BY <2>1, <2>2, <2>3
<1>2. CASE UNCHANGED vars
  BY <1>2 DEF vars, IInv, TypeOK, OnePublisher
<1>. QED BY <1>1, <1>2

-----------------------------------------------------------------------------
(* The inductive invariant holds throughout, for any number of operators,   *)
(* pages and retries.                                                        *)
THEOREM Invariance == Spec => []IInv
  BY InitIInv, StepIInv, PTL DEF Spec

(* The loop's place, its totals and the retries of a page stay in range.     *)
THEOREM TypeCorrect == Spec => []TypeOK
<1>1. IInv => TypeOK
  BY DEF IInv
<1>. QED BY Invariance, <1>1, PTL

(* No run sends more requests than its --max-fetches: the client checks      *)
(* before every attempt, so that retries cannot pass what the loop has left. *)
THEOREM BudgetTheorem == Spec => []BudgetIsKept
<1>1. IInv => BudgetIsKept
  BY DEF IInv, RunInv, InBudget, BudgetIsKept
<1>. QED BY Invariance, <1>1, PTL

(* The requests of the report are the requests the client sent.              *)
THEOREM ReportTheorem == Spec => []ReportCountsRequests
<1>1. IInv => ReportCountsRequests
  BY DEF IInv, RunInv, Counts, ReportCountsRequests
<1>. QED BY Invariance, <1>1, PTL

(* What a rerun asks for was not cached when it began, or was taken back.    *)
THEOREM ResumeTheorem == Spec => []RunsResume
<1>1. IInv => RunsResume
  BY DEF IInv, RunInv, Kept, RunsResume, Fetching
<1>. QED BY Invariance, <1>1, PTL

(* A run that reports completed has passed every page of the manifest.       *)
THEOREM CompletedTheorem == Spec => []CompletedMeansCached
<1>1. IInv => CompletedMeansCached
  <2>. SUFFICES ASSUME IInv, NEW p \in Operators, run[p].step = "completed"
                PROVE  Entries \subseteq cached \cup run[p].lost /\ Remaining(run[p]) = 0
    BY DEF CompletedMeansCached
  <2>. USE AcquisitionAssumption
  <2>1. /\ run[p] \in Run /\ run[p].index = Pages + 1 /\ run[p].stopped = 0
        /\ run[p].hits + run[p].fetched = run[p].index - 1
        /\ 1..run[p].index - 1 \subseteq cached \cup run[p].lost
    BY DEF IInv, TypeOK, RunInv, Positions, Kept
  <2>2. Entries \subseteq cached \cup run[p].lost
    BY <2>1 DEF Entries
  <2>3. Remaining(run[p]) = 0
    BY <2>1 DEF Remaining, Run
  <2>. QED BY <2>2, <2>3
<1>. QED BY Invariance, <1>1, PTL

-----------------------------------------------------------------------------
(* The client that an acquisition drives: its requests are paced.           *)

(* The maximum of three numbers.                                            *)
LEMMA MaxOfThree ==
  ASSUME NEW a \in Nat, NEW b \in Nat, NEW c \in Nat
  PROVE  /\ Max({a, b, c}) \in Nat
         /\ Max({a, b, c}) >= a /\ Max({a, b, c}) >= b /\ Max({a, b, c}) >= c
<1>1. \E x \in {a, b, c} : \A y \in {a, b, c} : x >= y
  OBVIOUS
<1>2. Max({a, b, c}) \in {a, b, c} /\ \A y \in {a, b, c} : Max({a, b, c}) >= y
  BY <1>1 DEF Max
<1> QED BY <1>2

(* The maximum of two numbers.                                              *)
LEMMA MaxOfTwo ==
  ASSUME NEW a \in Nat, NEW b \in Nat
  PROVE  Max({a, b}) \in Nat /\ Max({a, b}) >= a /\ Max({a, b}) >= b
<1>1. \E x \in {a, b} : \A y \in {a, b} : x >= y
  OBVIOUS
<1>2. Max({a, b}) \in {a, b} /\ \A y \in {a, b} : Max({a, b}) >= y
  BY <1>1 DEF Max
<1> QED BY <1>2

Rate == 60 \div Min({rpm, HardCap})

(* The seconds that the rate leaves for a request.                          *)
LEMMA RateIsNat ==
  ASSUME rpm \in Nat \ {0}
  PROVE  Rate \in Nat
<1> DEFINE m == Min({rpm, HardCap})
<1>1. \E x \in {rpm, HardCap} : \A y \in {rpm, HardCap} : x <= y
  BY DEF HardCap
<1>2. m \in {rpm, HardCap}
  BY <1>1 DEF Min
<1>3. m \in Nat /\ m > 0
  BY <1>2 DEF HardCap
<1> HIDE DEF m
<1>4. 60 \div m \in Nat
  BY <1>3
<1> QED BY <1>4 DEF m, Rate

(* How often the client has tried, by where it is.                          *)
Attempts ==
  /\ step = "attempt" => attempts = tooMany + errors
  /\ step = "in_flight" => attempts = tooMany + errors + 1
  /\ step \in {"attempt", "in_flight"} => tooMany <= max_429_retries

(* The most HTTP requests that n attempts can cost a client that follows    *)
(* redirects.                                                               *)
Most(n) == n * (1 + MaxRedirects)

(* One attempt more costs one request and its redirects more.               *)
LEMMA MostStep ==
  ASSUME NEW n \in Nat
  PROVE  Most(0) = 0 /\ Most(n) \in Nat /\ Most(n + 1) = Most(n) + 1 + MaxRedirects
BY ClientAssumption DEF Most

(* What the attempts for the page have cost, and what the one in flight may *)
(* still cost.                                                              *)
Costs ==
  /\ attempts <= requests /\ requests <= Most(attempts)
  /\ ~follows => requests = attempts
  /\ step = "in_flight" => requests + (MaxRedirects - hops) <= Most(attempts)

(* The last response came after the last request, unless it never came.     *)
Measured ==
  /\ step = "new" => lastSent = -1
  /\ step \in {"idle", "attempt"} /\ lastSent # -1 => lastResponse >= lastSent
  /\ step = "in_flight" => lastSent = now

Waited == step \in {"new", "idle", "attempt", "in_flight"} => waitUntil <= now

ClientInv == ClientTypeOK /\ Attempts /\ Costs /\ Measured /\ Waited

(* A new client has sent nothing.                                           *)
LEMMA ClientInitInv == ClientInit => ClientInv
BY MostStep, ClientAssumption
   DEF ClientInit, ClientInv, ClientTypeOK, Attempts, Costs, Measured, Waited

(* Every answer keeps the invariant; a 429 waits at least until its Retry-  *)
(* After has passed, and a redirect sends a request after that.             *)
LEMMA ReplyInv ==
  ASSUME ClientInv, Reply
  PROVE  ClientInv'
<1> USE DEF ClientInv, ClientTypeOK, Attempts, Costs, Measured, Waited, Arrives, settings
<1>1. PICK latency \in Latencies :
        \/ Succeed(latency) \/ ServerError(latency) \/ BadStatus(latency)
        \/ TransportError(latency) \/ Redirect(latency)
        \/ \E retryAfter \in RetryAfters : TooManyRequests(latency, retryAfter)
  BY DEF Reply
<1>2. latency \in Nat
  BY ClientAssumption
<1>3. CASE Succeed(latency)
  BY <1>2, <1>3 DEF Succeed
<1>4. CASE ServerError(latency)
  BY <1>2, <1>4, ClientAssumption DEF ServerError
<1>5. CASE BadStatus(latency)
  BY <1>2, <1>5 DEF BadStatus
<1>6. CASE TransportError(latency)
  BY <1>2, <1>6 DEF TransportError
<1>7. ASSUME NEW retryAfter \in RetryAfters, TooManyRequests(latency, retryAfter)
      PROVE  ClientInv'
  <2>1. retryAfter \in Nat
    BY ClientAssumption
  <2> DEFINE w == Max({retryAfter, 60})
  <2>2. w \in Nat /\ w >= retryAfter
    BY <2>1, MaxOfTwo
  <2>3. /\ step = "in_flight" /\ tooMany' = tooMany + 1
        /\ IF tooMany' > max_429_retries
           THEN step' = "closed" /\ now' = now + latency
           ELSE step' = "attempt" /\ now' = now + latency + w
        /\ waitUntil' = now + latency + retryAfter
        /\ lastResponse' = now + latency
        /\ UNCHANGED <<settings, errors, fetched, hops, lastSent, attempts, requests>>
    BY <1>7 DEF TooManyRequests
  <2> HIDE DEF w
  <2> QED BY <1>2, <2>1, <2>2, <2>3, ClientAssumption
<1>8. ASSUME Redirect(latency)
      PROVE  ClientInv'
  <2> DEFINE budget == Most(attempts)
  <2>1. budget \in Nat /\ budget' = budget
    BY <1>8, MostStep DEF Redirect, Most
  <2>2. /\ step = "in_flight" /\ follows /\ hops < MaxRedirects
        /\ now' = now + latency /\ lastSent' = now + latency
        /\ hops' = hops + 1 /\ requests' = requests + 1
        /\ UNCHANGED <<settings, step, lastResponse, tooMany, errors, fetched, waitUntil,
                       attempts>>
    BY <1>8 DEF Redirect
  <2>3. requests' <= budget' /\ requests' + (MaxRedirects - hops') <= budget'
    BY <2>1, <2>2, ClientAssumption
  <2> QED BY <1>2, <2>2, <2>3, ClientAssumption
<1> QED BY <1>1, <1>3, <1>4, <1>5, <1>6, <1>7, <1>8

(* An attempt is made as long after the last response as required, and so   *)
(* as long after the last request.                                          *)
LEMMA SendInv ==
  ASSUME ClientInv, Send
  PROVE  /\ ClientInv'
         /\ lastSent # -1 => lastSent' - lastSent >= RequiredDelay
         /\ lastSent' >= waitUntil
<1> DEFINE gap == RequiredDelay - (now - lastResponse)
<1>1. RequiredDelay \in Nat
  BY RateIsNat, MaxOfThree, ClientAssumption DEF ClientInv, ClientTypeOK, RequiredDelay, Rate, Floor
<1>2. /\ step = "attempt"
      /\ now' = IF lastResponse = -1 \/ gap <= 0 THEN now ELSE now + gap
      /\ lastSent' = now' /\ step' = "in_flight"
      /\ hops' = 0 /\ attempts' = attempts + 1 /\ requests' = requests + 1
      /\ UNCHANGED <<settings, lastResponse, tooMany, errors, fetched, waitUntil>>
  BY DEF Send
<1>3. now \in Nat /\ lastResponse \in Nat \cup {-1} /\ lastSent \in Nat \cup {-1}
  BY DEF ClientInv, ClientTypeOK
<1>4. now' \in Nat /\ now' >= now
  BY <1>1, <1>2, <1>3
<1>5. lastSent # -1 => lastSent' - lastSent >= RequiredDelay
  BY <1>1, <1>2, <1>3 DEF ClientInv, Measured
<1>6. lastSent' >= waitUntil
  BY <1>2, <1>3, <1>4 DEF ClientInv, Waited, ClientTypeOK
<1> HIDE DEF gap
<1>7. ClientInv'
  <2>1. attempts \in Nat
    BY ClientAssumption DEF ClientInv, ClientTypeOK
  <2>2. Most(attempts) \in Nat /\ Most(attempts + 1) = Most(attempts) + 1 + MaxRedirects
    BY <2>1, MostStep
  <2>3. Costs'
    BY <1>2, <2>1, <2>2, ClientAssumption DEF ClientInv, ClientTypeOK, Costs, settings
  <2> QED BY <1>2, <1>4, <1>6, <2>3, ClientAssumption
          DEF ClientInv, ClientTypeOK, Attempts, Measured, Waited, settings
<1> QED BY <1>5, <1>6, <1>7

(* Every step of the client keeps the invariant.                            *)
LEMMA ClientNextInv ==
  ASSUME ClientInv, [ClientNext]_clientVars
  PROVE  ClientInv'
<1>1. CASE Construct
  BY <1>1 DEF Construct, ClientInv, ClientTypeOK, Attempts, Costs, Measured, Waited, settings
<1>2. CASE StartFetch
  <2>1. PICK pause \in Pauses : now' = now + pause
    BY <1>2 DEF StartFetch
  <2> QED BY <1>2, <2>1, MostStep, ClientAssumption
          DEF StartFetch, ClientInv, ClientTypeOK, Attempts, Costs, Measured, Waited, settings
<1>3. CASE Send
  BY <1>3, SendInv
<1>4. CASE Reply
  BY <1>4, ReplyInv
<1>5. CASE UNCHANGED clientVars
  BY <1>5 DEF clientVars, ClientInv, ClientTypeOK, Attempts, Costs, Measured, Waited, settings
<1> QED BY <1>1, <1>2, <1>3, <1>4, <1>5 DEF ClientNext

(* Only Send makes an attempt, and in time; only a redirect that is         *)
(* followed sends besides, and not before a Retry-After has passed.         *)
LEMMA Paced ==
  ASSUME ClientInv, [ClientNext]_clientVars, requests' > requests
  PROVE  /\ lastSent # -1 /\ (attempts' > attempts \/ ~follows) =>
               lastSent' - lastSent >= Max({Floor, minDelay, 60 \div Min({rpm, HardCap})})
         /\ lastSent' >= waitUntil
<1>1. CASE Send
  <2>1. {Floor, minDelay, 60 \div Min({rpm, HardCap})}
          = {minDelay, 60 \div Min({rpm, HardCap}), Floor}
    OBVIOUS
  <2> QED BY <1>1, <2>1, SendInv DEF RequiredDelay
<1>2. CASE \E latency \in Latencies : Redirect(latency)
  <2>1. PICK latency \in Latencies : Redirect(latency)
    BY <1>2
  <2>2. latency \in Nat
    BY ClientAssumption
  <2>3. follows /\ attempts' = attempts /\ ~(attempts' > attempts)
    BY <2>1, ClientAssumption DEF Redirect, ClientInv, ClientTypeOK
  <2>4. lastSent' >= waitUntil
    BY <2>1, <2>2 DEF Redirect, ClientInv, ClientTypeOK, Waited
  <2> QED BY <2>3, <2>4
<1>3. CASE ~Send /\ ~(\E latency \in Latencies : Redirect(latency))
  <2>1. requests' = requests \/ requests' = 0
    BY <1>3 DEF ClientNext, Construct, StartFetch, Reply, Succeed, ServerError, BadStatus,
       TransportError, TooManyRequests, clientVars
  <2> QED BY <2>1 DEF ClientInv, ClientTypeOK
<1> QED BY <1>1, <1>2, <1>3

(* RequestsArePaced of Client: no two attempts are closer than the floor,   *)
(* the configured delay and the configured rate allow, nor are any two HTTP *)
(* requests of a client that follows no redirects; none is sent before a    *)
(* Retry-After has passed, and the redirects of an attempt are bounded; for *)
(* any settings, latencies and numbers of retries and redirects             *)
(* (scraping/client.py, __init__, _wait_for_rate_limit and                  *)
(* _get_from_network).                                                      *)
THEOREM PacedTheorem == ClientSpec => RequestsArePaced
<1>1. ClientSpec => []ClientInv
  BY ClientInitInv, ClientNextInv, PTL DEF ClientSpec
<1>2. ClientInv =>
        /\ ClientTypeOK
        /\ attempts <= requests /\ requests <= attempts * (1 + MaxRedirects)
        /\ ~follows => requests = attempts
  BY DEF ClientInv, Costs, Most
<1>3. ASSUME ClientInv, [ClientNext]_clientVars
      PROVE  /\ [requests' > requests /\ lastSent # -1 /\ (attempts' > attempts \/ ~follows)
                    => lastSent' - lastSent
                         >= Max({Floor, minDelay, 60 \div Min({rpm, HardCap})})]_requests
             /\ [requests' > requests => lastSent' >= waitUntil]_requests
  BY <1>3, Paced
<1> QED BY <1>1, <1>2, <1>3, PTL DEF ClientSpec, RequestsArePaced
(* Counting                                                                *)

(* A set that is not larger maps into the other.                            *)
LEMMA Injects ==
  ASSUME NEW A, NEW B, IsFiniteSet(A), IsFiniteSet(B), Cardinality(A) <= Cardinality(B)
  PROVE  \E j : j \in Injection(A, B)
<1>1. /\ Cardinality(A) \in Nat /\ ExistsBijection(1..Cardinality(A), A)
      /\ Cardinality(B) \in Nat /\ ExistsBijection(1..Cardinality(B), B)
  BY FS_CardinalityType
<1>2. ExistsInjection(1..Cardinality(A), 1..Cardinality(B))
  BY <1>1, Fun_NatInjLeq
<1>3. ExistsInjection(A, 1..Cardinality(A)) /\ ExistsInjection(1..Cardinality(B), B)
  BY <1>1, Fun_ExistsBijEquiv
<1>4. ExistsInjection(A, B)
  BY <1>2, <1>3, Fun_ExistsInjTransitive
<1> QED BY <1>4, Fun_ExistsInj

(* The pairs of a game and one of its teams.                                *)
Sides(A, T, u, v) == {p \in A \X T : p[2] \in {u[p[1]], v[p[1]]}}

(* There are twice as many of them as games.                                *)
LEMMA TwoSides ==
  ASSUME NEW A, IsFiniteSet(A), NEW T, NEW u \in [A -> T], NEW v \in [A -> T],
         \A x \in A : u[x] # v[x]
  PROVE  /\ IsFiniteSet(Sides(A, T, u, v))
         /\ Cardinality(Sides(A, T, u, v)) = 2 * Cardinality(A)
<1> DEFINE P == Sides(A, T, u, v)
           D == A \X {1, 2}
           f == [d \in D |-> <<d[1], IF d[2] = 1 THEN u[d[1]] ELSE v[d[1]]>>]
<1>1. IsFiniteSet({1, 2}) /\ Cardinality({1, 2}) = 2
  <2>1. IsFiniteSet({1}) /\ Cardinality({1}) = 1
    BY FS_Singleton, Zenon
  <2>2. IsFiniteSet({1} \union {2}) /\ Cardinality({1} \union {2}) = 1 + 1
    BY <2>1, 2 \notin {1}, FS_AddElement
  <2>3. {1} \union {2} = {1, 2}
    OBVIOUS
  <2> QED BY <2>2, <2>3
<1>2. IsFiniteSet(D) /\ Cardinality(D) = Cardinality(A) * 2
  BY <1>1, FS_Product
<1>3. f \in [D -> P]
  BY DEF Sides
<1>4. \A c, d \in D : f[c] = f[d] => c = d
  OBVIOUS
<1>5. \A p \in P : \E d \in D : f[d] = p
  <2> SUFFICES ASSUME NEW p \in P PROVE \E d \in D : f[d] = p
    OBVIOUS
  <2>1. PICK x \in A, t \in T : p = <<x, t>> /\ t \in {u[x], v[x]}
    BY DEF Sides
  <2>2. CASE t = u[x]
    <3>1. <<x, 1>> \in D /\ f[<<x, 1>>] = p
      BY <2>1, <2>2
    <3> QED BY <3>1
  <2>3. CASE t = v[x]
    <3>1. <<x, 2>> \in D /\ f[<<x, 2>>] = p
      BY <2>1, <2>3
    <3> QED BY <3>1
  <2> QED BY <2>1, <2>2, <2>3
<1>6. f \in Bijection(D, P)
  BY <1>3, <1>4, <1>5, Fun_IsBij, Fun_IsSurj
<1>7. IsFiniteSet(P) /\ Cardinality(P) = Cardinality(D)
  BY <1>2, <1>6, FS_Bijection, Fun_ExistsBij
<1>8. Cardinality(A) \in Nat
  BY FS_CardinalityType
<1> QED BY <1>2, <1>7, <1>8

(* The games of a team.                                                     *)
GamesOf(A, u, v, t) == {x \in A : t \in {u[x], v[x]}}

(* A set of games that has no more games of any team has no more games.     *)
LEMMA TeamByTeam ==
  ASSUME NEW A, IsFiniteSet(A), NEW B, IsFiniteSet(B),
         NEW T, NEW u \in [A \union B -> T], NEW v \in [A \union B -> T],
         \A x \in A \union B : u[x] # v[x],
         \A t \in T : Cardinality(GamesOf(A, u, v, t)) <= Cardinality(GamesOf(B, u, v, t))
  PROVE  Cardinality(A) <= Cardinality(B)
<1> DEFINE Of(X, t) == {x \in X : t \in {u[x], v[x]}}
           uA == [x \in A |-> u[x]]
           vA == [x \in A |-> v[x]]
           uB == [x \in B |-> u[x]]
           vB == [x \in B |-> v[x]]
           P == Sides(A, T, uA, vA)
           Q == Sides(B, T, uB, vB)
           j == [t \in T |-> CHOOSE h : h \in Injection(Of(A, t), Of(B, t))]
           f == [p \in P |-> <<j[p[2]][p[1]], p[2]>>]
<1>1. \A t \in T : j[t] \in Injection(Of(A, t), Of(B, t))
  <2> SUFFICES ASSUME NEW t \in T PROVE \E h : h \in Injection(Of(A, t), Of(B, t))
    OBVIOUS
  <2>1. IsFiniteSet(Of(A, t)) /\ IsFiniteSet(Of(B, t))
    BY FS_Subset
  <2>2. Cardinality(Of(A, t)) <= Cardinality(Of(B, t))
    BY DEF GamesOf
  <2> HIDE DEF Of
  <2> QED BY <2>1, <2>2, Injects
<1>2. \A t \in T : /\ j[t] \in [Of(A, t) -> Of(B, t)]
                   /\ \A x, y \in Of(A, t) : j[t][x] = j[t][y] => x = y
  <2> HIDE DEF j, Of
  <2> QED BY <1>1, Fun_InjectionProperties
<1>3. \A p \in P : p \in A \X T /\ p[1] \in Of(A, p[2]) /\ p[2] \in T
  BY DEF Sides
<1>4. \A p \in P : f[p] \in Q
  <2> SUFFICES ASSUME NEW p \in P PROVE f[p] \in Q
    OBVIOUS
  <2>1. PICK y : y = j[p[2]][p[1]]
    OBVIOUS
  <2>2. y \in Of(B, p[2]) /\ p[2] \in T
    <3> HIDE DEF j, Of, P
    <3> QED BY <2>1, <1>2, <1>3
  <2>3. f[p] = <<y, p[2]>>
    <3> HIDE DEF j, P
    <3> QED BY <2>1
  <2>4. y \in B /\ p[2] \in {uB[y], vB[y]}
    BY <2>2
  <2>5. <<y, p[2]>> \in Q
    <3> HIDE DEF uB, vB
    <3> QED BY <2>2, <2>4 DEF Sides
  <2> QED BY <2>3, <2>5
<1>5. \A p, q \in P : f[p] = f[q] => p = q
  <2> SUFFICES ASSUME NEW p \in P, NEW q \in P, f[p] = f[q] PROVE p = q
    OBVIOUS
  <2>1. p[2] = q[2] /\ j[p[2]][p[1]] = j[q[2]][q[1]]
    <3> HIDE DEF j, P
    <3> QED OBVIOUS
  <2>2. p[1] = q[1]
    <3> HIDE DEF j, Of, P
    <3> QED BY <2>1, <1>2, <1>3
  <2> QED BY <1>3, <2>1, <2>2
<1>6. f \in Injection(P, Q)
  <2> HIDE DEF P, Q, j
  <2>1. f \in [P -> Q]
    BY <1>4
  <2> HIDE DEF f
  <2> QED BY <2>1, <1>5, Fun_IsInj
<1>7. IsFiniteSet(P) /\ Cardinality(P) = 2 * Cardinality(A)
  <2>1. uA \in [A -> T] /\ vA \in [A -> T] /\ \A x \in A : uA[x] # vA[x]
    OBVIOUS
  <2> HIDE DEF uA, vA
  <2> QED BY <2>1, TwoSides
<1>8. IsFiniteSet(Q) /\ Cardinality(Q) = 2 * Cardinality(B)
  <2>1. uB \in [B -> T] /\ vB \in [B -> T] /\ \A x \in B : uB[x] # vB[x]
    OBVIOUS
  <2> HIDE DEF uB, vB
  <2> QED BY <2>1, TwoSides
<1>9. Cardinality(P) <= Cardinality(Q)
  <2> HIDE DEF P, Q, f
  <2> QED BY <1>6, <1>8, FS_Injection
<1>10. Cardinality(A) \in Nat /\ Cardinality(B) \in Nat
  BY FS_CardinalityType
<1> QED
  <2> HIDE DEF P, Q
  <2> QED BY <1>7, <1>8, <1>9, <1>10

(* The well-ordering of the numbers.                                        *)
LEMMA LeastNumber ==
  ASSUME NEW S, S \subseteq Nat, S # {}
  PROVE  \E n \in S : \A m \in S : n <= m
<1>1. PICK n \in S : \A m \in S : <<m, n>> \notin OpToRel(<, Nat)
  BY NatLessThanWellFounded, WFMin, Zenon
<1>2. \A m \in S : <<m, n>> \in OpToRel(<, Nat) <=> m < n
  BY Zenon DEF OpToRel
<1>3. \A m \in S : ~(m < n)
  BY <1>1, <1>2, Zenon
<1> QED BY <1>3

(* A finite set has a greatest element in a numbering.                      *)
LEMMA GreatestExists ==
  ASSUME NEW S, IsFiniteSet(S), S # {}, NEW f, \A x \in S : f[x] \in Nat
  PROVE  \E x \in S : \A y \in S : f[y] <= f[x]
<1> DEFINE Above(x) == {y \in S : f[y] > f[x]}
           Sizes == {Cardinality(Above(x)) : x \in S}
<1>1. \A x \in S : IsFiniteSet(Above(x)) /\ Cardinality(Above(x)) \in Nat
  BY FS_Subset, FS_CardinalityType
<1>2. PICK n \in Sizes : \A m \in Sizes : n <= m
  <2>1. Sizes \subseteq Nat /\ Sizes # {}
    <3> HIDE DEF Above
    <3> QED BY <1>1
  <2> HIDE DEF Sizes
  <2> QED BY <2>1, LeastNumber
<1>3. PICK x \in S : n = Cardinality(Above(x))
  BY <1>2
<1>4. ASSUME NEW y \in S, ~(f[y] <= f[x])
      PROVE  FALSE
  <2>1. Above(y) \subseteq Above(x) /\ y \in Above(x) /\ y \notin Above(y)
    BY <1>4
  <2>2. Cardinality(Above(y)) <= Cardinality(Above(x)) /\ Cardinality(Above(y)) # Cardinality(Above(x))
    <3> HIDE DEF Above
    <3> QED BY <2>1, <1>1, FS_Subset
  <2>3. n <= Cardinality(Above(y))
    BY <1>2
  <2> HIDE DEF Above
  <2> QED BY <1>1, <1>3, <2>2, <2>3
<1> QED BY <1>4

-----------------------------------------------------------------------------
(* The pages of a season                                                   *)

Row(n) == Calendar[season][n]
PageNames == {NONE} \union {m.month : m \in Range(Months[season])}

(* The season, and the days of its cached pages.  Those of a season that    *)
(* was over are from after its end.                                         *)
PagesInv ==
  /\ season \in Seasons
  /\ day \in FirstDay..LastDay
  /\ DOMAIN schedule = PageNames
  /\ \A page \in PageNames : Cached(page) =>
       /\ schedule[page].clean \in BOOLEAN
       /\ schedule[page].at \in Nat /\ schedule[page].at <= day
       /\ Games(season, {"cup"}) = {} => schedule[page].at >= Over[season]

(* A row as it is listed on a page of some day.                             *)
IsListed(g) ==
  /\ g.position \in DOMAIN Calendar[season]
  /\ g.date = Row(g.position).date
  /\ g.teams = TeamsOf(Row(g.position))
  /\ g.play_in <=> Row(g.position).kind = "play-in"
  /\ g.game_id \in {NONE, Row(g.position).game}
  /\ played(g) => g.position \in Held(season) /\ g.game_id = Row(g.position).game

IsListing(listed) ==
  /\ \A g \in listed : IsListed(g)
  /\ \A g, h \in listed : g.position = h.position => g = h

(* What is known of a row.                                                  *)
LEMMA RowFacts ==
  ASSUME PagesInv, NEW n \in DOMAIN Calendar[season]
  PROVE  /\ Row(n).kind \in {"regular", "cup", "play-in", "playoff"}
         /\ Row(n).visitor # Row(n).home /\ Row(n).game # NONE
         /\ Row(n).date \in Nat /\ Row(n).listed \in Nat /\ Row(n).listed <= Row(n).date
         /\ Row(n).gone # NONE => Row(n).gone \in Nat /\ Row(n).gone <= Row(n).date + 1
         /\ \E m \in Held(season) : Row(m).game = Row(n).game /\ Row(m).kind = Row(n).kind
BY SeasonPlanAssumption DEF PagesInv, IsCalendar, Row

(* What the league's calendar says of the season.                           *)
LEMMA SeasonFacts ==
  ASSUME PagesInv
  PROVE  /\ season \in Seasons /\ FirstDay \in Nat /\ LastDay \in Nat /\ day \in Nat
         /\ IsCalendar(season) /\ IsInOrder(season)
         /\ Games(season, {"cup"}) = {} => WasOver(season)
         /\ Games(season, {"play-in"}) = {} => Games(season, {"cup"}) = {}
         /\ Games(season, {"play-in"}) = {} \/ Games(season, {"cup"}) # {} => IsPlayedInFull(season)
         /\ EXPECTED_SELECTED_GAMES[season] = Cardinality(Games(season, {"regular", "cup"}))
         /\ \A m \in Range(Months[season]) : m.month # NONE /\ m.linked \in Nat
         /\ REGULAR_SEASON_GAMES_PER_TEAM \in Nat
BY SeasonPlanAssumption DEF PagesInv

(* A page's row is one of the calendar, and a played one is held.           *)
LEMMA ShownIsListed ==
  ASSUME PagesInv, NEW n \in DOMAIN Calendar[season], NEW at \in Nat,
         Row(n).listed <= at, Row(n).gone # NONE => at < Row(n).gone
  PROVE  /\ IsListed(ScheduleGame(n, at)) /\ ScheduleGame(n, at).position = n
         /\ played(ScheduleGame(n, at)) <=> at > Row(n).date
<1> DEFINE g == ScheduleGame(n, at)
<1>1. /\ g.position = n /\ g.date = Row(n).date /\ g.teams = TeamsOf(Row(n))
      /\ g.play_in <=> Row(n).kind = "play-in"
      /\ g.game_id = IF at > Row(n).date THEN Row(n).game ELSE NONE
      /\ g.scored <=> at >= Row(n).date
  BY DEF ScheduleGame, Row
<1>2. Row(n).game # NONE /\ Row(n).date \in Nat
      /\ (Row(n).gone # NONE => Row(n).gone \in Nat /\ Row(n).gone <= Row(n).date + 1)
  BY RowFacts
<1>3. played(g) <=> at > Row(n).date
  BY <1>1, <1>2 DEF played
<1>4. at > Row(n).date => Row(n).gone = NONE
  BY <1>2
<1>5. played(g) => n \in Held(season)
  BY <1>3, <1>4 DEF Held, Row
<1> HIDE DEF g
<1>6. IsListed(g)
  BY <1>1, <1>3, <1>5 DEF IsListed
<1> QED BY <1>1, <1>3, <1>6 DEF g

(* The cached pages of a season are a listing.                              *)
LEMMA PageRows ==
  ASSUME PagesInv, PagesAreComplete
  PROVE  /\ \A month \in month_links : month # NONE /\ Cached(month) /\ schedule[month].at \in Nat
         /\ \A g \in _listed_games : \E n \in DOMAIN Calendar[season] :
              /\ Row(n).month \in month_links
              /\ Row(n).listed <= schedule[Row(n).month].at
              /\ Row(n).gone # NONE => schedule[Row(n).month].at < Row(n).gone
              /\ g = ScheduleGame(n, schedule[Row(n).month].at)
         /\ \A n \in DOMAIN Calendar[season] :
              /\ Row(n).month \in month_links
              /\ Row(n).listed <= schedule[Row(n).month].at
              /\ Row(n).gone # NONE => schedule[Row(n).month].at < Row(n).gone
              => ScheduleGame(n, schedule[Row(n).month].at) \in _listed_games
<1>1. \A month \in month_links : month # NONE /\ month \in PageNames /\ Cached(month)
  BY SeasonFacts DEF month_links, PagesAreComplete, PageNames
<1>2. \A month \in month_links : schedule[month].at \in Nat
  BY <1>1 DEF PagesInv
<1>3. \A month \in month_links :
        parse_league_schedule_page(month) =
          {ScheduleGame(n, schedule[month].at) : n \in {m \in DOMAIN Calendar[season] :
             /\ Row(m).month = month
             /\ Row(m).listed <= schedule[month].at
             /\ Row(m).gone # NONE => schedule[month].at < Row(m).gone}}
  BY <1>1 DEF parse_league_schedule_page, MonthOf, Row
<1> QED BY <1>1, <1>2, <1>3 DEF _listed_games

(* The rows of complete pages are a listing.                                *)
LEMMA PagesAreListing ==
  ASSUME PagesInv, PagesAreComplete
  PROVE  IsListing(_listed_games)
<1>1. \A g \in _listed_games : \E n \in DOMAIN Calendar[season] :
        /\ IsListed(g) /\ g.position = n
        /\ g = ScheduleGame(n, schedule[Row(n).month].at)
  BY PageRows, ShownIsListed
<1>2. \A g, h \in _listed_games : g.position = h.position => g = h
  BY <1>1
<1> QED BY <1>1, <1>2 DEF IsListing

-----------------------------------------------------------------------------
(* The selection                                                           *)

Selected == {"regular", "cup"}

RowsIn(S) == {g.position : g \in S}

(* The rows of a listing are as many as their positions.                    *)
LEMMA CountPositions ==
  ASSUME PagesInv, NEW listed, IsListing(listed), NEW S \in SUBSET listed
  PROVE  /\ IsFiniteSet(S) /\ IsFiniteSet(RowsIn(S))
         /\ Cardinality(RowsIn(S)) = Cardinality(S)
<1> DEFINE f == [g \in S |-> g.position]
<1>1. RowsIn(S) \subseteq DOMAIN Calendar[season]
  BY DEF RowsIn, IsListing, IsListed
<1>2. IsFiniteSet(DOMAIN Calendar[season])
  BY SeasonFacts DEF IsCalendar
<1>3. IsFiniteSet(RowsIn(S))
  BY <1>1, <1>2, FS_Subset
<1>4. f \in [S -> RowsIn(S)] /\ \A p \in RowsIn(S) : \E g \in S : f[g] = p
  BY DEF RowsIn
<1>5. \A g, h \in S : f[g] = f[h] => g = h
  BY DEF IsListing
<1>6. f \in Bijection(S, RowsIn(S))
  <2> HIDE DEF f
  <2> QED BY <1>4, <1>5, Fun_IsBij, Fun_IsSurj
<1>7. ExistsBijection(RowsIn(S), S)
  BY <1>6, Fun_ExistsBij, Fun_ExistsBijSymmetric
<1> QED BY <1>3, <1>7, FS_Bijection

(* A listing that names no game twice has as many played games as rows.     *)
LEMMA CountGames ==
  ASSUME PagesInv, NEW listed, IsListing(listed), ~ListedTwice(listed),
         NEW S \in SUBSET Played(listed)
  PROVE  /\ IsFiniteSet({g.game_id : g \in S})
         /\ Cardinality({g.game_id : g \in S}) = Cardinality(S)
<1> DEFINE ids == {g.game_id : g \in S}
           f == [g \in S |-> g.game_id]
<1>1. S \subseteq listed /\ \A g \in S : g.game_id # NONE
  BY DEF Played, played
<1>2. IsFiniteSet(S)
  BY <1>1, CountPositions
<1>3. f \in [S -> ids] /\ \A i \in ids : \E g \in S : f[g] = i
  OBVIOUS
<1>4. \A g, h \in S : f[g] = f[h] => g = h
  BY <1>1 DEF ListedTwice
<1>5. f \in Bijection(S, ids)
  <2> HIDE DEF f, ids
  <2> QED BY <1>3, <1>4, Fun_IsBij, Fun_IsSurj
<1>6. ExistsBijection(S, ids)
  <2> HIDE DEF ids
  <2> QED BY <1>5, Fun_ExistsBij
<1> HIDE DEF ids
<1>7. IsFiniteSet(ids) /\ Cardinality(ids) = Cardinality(S)
  BY <1>2, <1>6, FS_Bijection
<1> QED BY <1>7 DEF ids

(* A season has finitely many games of any kinds.                           *)
LEMMA GamesAreFinite ==
  ASSUME PagesInv, NEW kinds
  PROVE  IsFiniteSet(Games(season, kinds)) /\ Cardinality(Games(season, kinds)) \in Nat
<1> DEFINE D == DOMAIN Calendar[season]
           R == RowsOf(season, kinds)
           f == [n \in R |-> Calendar[season][n].game]
<1>1. IsFiniteSet(R)
  BY SeasonFacts, FS_Subset DEF IsCalendar, RowsOf
<1>2. f \in Surjection(R, Games(season, kinds))
  <2>1. f \in [R -> Games(season, kinds)]
    BY DEF Games
  <2>2. \A x \in Games(season, kinds) : \E n \in R : f[n] = x
    BY DEF Games
  <2> HIDE DEF f, R
  <2> QED BY <2>1, <2>2, Fun_IsSurj
<1>3. IsFiniteSet(Games(season, kinds))
  <2> HIDE DEF f, R
  <2> QED BY <1>1, <1>2, FS_Surjection
<1> QED BY <1>3, FS_CardinalityType

(* What is selected by the dates of the play-in are regular games and the   *)
(* Cup final: other games come later.                                       *)
LEMMA BeforePlayIn ==
  ASSUME PagesInv, NEW listed, IsListing(listed), PlayInDates(listed) # {},
         NEW g \in _select(listed)
  PROVE  g.game_id \in Games(season, Selected)
<1>1. PICK h \in listed : h.play_in
  BY DEF PlayInDates
<1>2. g \in Played(listed) /\ g.date < h.date
  BY <1>1 DEF _select, PlayInDates
<1>3. g \in listed /\ played(g)
  BY <1>2 DEF Played
<1>4. IsListed(g) /\ IsListed(h)
  BY <1>1, <1>3 DEF IsListing
<1> DEFINE n == g.position
           m == h.position
<1>5. /\ n \in Held(season) /\ n \in DOMAIN Calendar[season]
      /\ g.game_id = Row(n).game /\ g.date = Row(n).date
      /\ g.play_in <=> Row(n).kind = "play-in"
  BY <1>3, <1>4 DEF IsListed
<1>6. m \in RowsOf(season, {"play-in"}) /\ h.date = Row(m).date
  BY <1>1, <1>4 DEF IsListed, RowsOf, Row
<1>7. Row(n).kind # "play-in"
  <2>1. ~ g.play_in
    <3> SUFFICES ASSUME g.play_in PROVE FALSE
      OBVIOUS
    <3>1. g.date \in PlayInDates(listed)
      BY <1>3 DEF PlayInDates
    <3>2. g.date < g.date
      BY <3>1, <1>2 DEF _select
    <3>3. g.date \in Nat
      BY <1>5, RowFacts
    <3> QED BY <3>2, <3>3
  <2> QED BY <2>1, <1>5
<1>8. Row(n).kind # "playoff"
  <2> SUFFICES ASSUME Row(n).kind = "playoff" PROVE FALSE
    OBVIOUS
  <2>1. Row(n).date \in LastOf(season, {"playoff"})
    BY <1>5 DEF LastOf, RowsOf, Row
  <2>2. Row(m).date < Row(n).date
    BY <1>6, <2>1, SeasonFacts DEF IsInOrder, Row
  <2>3. Row(m).date \in Nat /\ Row(n).date \in Nat
    BY <1>5, <1>6, RowFacts DEF RowsOf
  <2> QED BY <1>2, <1>5, <1>6, <2>2, <2>3
<1>9. Row(n).kind \in Selected
  BY <1>5, <1>7, <1>8, RowFacts DEF Selected
<1> QED BY <1>5, <1>9 DEF Games, RowsOf, Row

(* The played rows of a team that count as its first games are no more.     *)
LEMMA FirstGames ==
  ASSUME PagesInv, NEW listed, IsListing(listed), NEW team
  PROVE  Cardinality({g \in Played(listed) :
            team \in g.teams /\ games_played(listed, team, g) <= REGULAR_SEASON_GAMES_PER_TEAM})
           <= REGULAR_SEASON_GAMES_PER_TEAM
<1> DEFINE F == {g \in Played(listed) :
                   team \in g.teams /\ games_played(listed, team, g) <= REGULAR_SEASON_GAMES_PER_TEAM}
           Upto(g) == {h \in Played(listed) :
                         /\ team \in h.teams
                         /\ \/ h.date < g.date
                            \/ h.date = g.date /\ h.position <= g.position}
<1> SUFFICES Cardinality(F) <= REGULAR_SEASON_GAMES_PER_TEAM
  OBVIOUS
<1>1. F \subseteq listed
  BY DEF Played
<1>2. IsFiniteSet(F)
  <2> HIDE DEF F
  <2> QED BY <1>1, CountPositions
<1>3. \A g \in listed : g.date \in Nat /\ g.position \in Nat
  <2> SUFFICES ASSUME NEW g \in listed PROVE g.date \in Nat /\ g.position \in Nat
    OBVIOUS
  <2>1. IsListed(g)
    BY DEF IsListing
  <2>2. g.position \in DOMAIN Calendar[season] /\ g.date = Row(g.position).date
    BY <2>1 DEF IsListed
  <2> QED BY <2>2, RowFacts, SeasonFacts DEF IsCalendar
<1>4. CASE F = {}
  <2>1. Cardinality({}) = 0
    BY FS_EmptySet
  <2> HIDE DEF F
  <2> QED BY <1>4, <2>1, SeasonFacts
<1>5. CASE F # {}
  <2> DEFINE d == [g \in F |-> g.date]
  <2>1. PICK x \in F : \A y \in F : d[y] <= d[x]
    <3>1. \A y \in F : d[y] \in Nat
      BY <1>1, <1>3
    <3> HIDE DEF d, F
    <3> QED BY <1>2, <1>5, <3>1, GreatestExists
  <2> DEFINE G == {y \in F : y.date = x.date}
             p == [g \in G |-> g.position]
  <2>2. PICK z \in G : \A y \in G : p[y] <= p[z]
    <3>1. \A y \in G : p[y] \in Nat
      BY <1>1, <1>3
    <3>2. IsFiniteSet(G) /\ G # {}
      <4>1. G \subseteq F /\ x \in G
        OBVIOUS
      <4> QED BY <1>2, <4>1, FS_Subset
    <3> HIDE DEF p, G, F
    <3> QED BY <3>1, <3>2, GreatestExists
  <2>3. \A y \in F : y.date <= z.date
    BY <2>1
  <2>4. \A y \in F : y.date = z.date => y.position <= z.position
    BY <2>2
  <2>5. F \subseteq Upto(z)
    <3> SUFFICES ASSUME NEW y \in F PROVE y \in Upto(z)
      OBVIOUS
    <3>1. y.date \in Nat /\ z.date \in Nat
      BY <1>1, <1>3
    <3> QED BY <3>1, <2>3, <2>4
  <2>6. IsFiniteSet(Upto(z))
    <3>1. Upto(z) \subseteq listed
      BY DEF Played
    <3> HIDE DEF Upto
    <3> QED BY <3>1, CountPositions
  <2>7. Cardinality(Upto(z)) <= REGULAR_SEASON_GAMES_PER_TEAM
    BY DEF games_played
  <2>8. Cardinality(F) <= Cardinality(Upto(z)) /\ Cardinality(F) \in Nat /\ Cardinality(Upto(z)) \in Nat
    <3> HIDE DEF F, Upto
    <3> QED BY <1>2, <2>5, <2>6, FS_Subset, FS_CardinalityType
  <2> HIDE DEF F, Upto
  <2> QED BY <2>7, <2>8, SeasonFacts
<1> QED BY <1>4, <1>5

(* The day after the last game.                                             *)
LEMMA OverIsLast ==
  ASSUME PagesInv, NEW n \in Held(season)
  PROVE  Row(n).date < Over[season] /\ Over[season] \in Nat
<1>1. n \in DOMAIN Calendar[season]
  BY DEF Held
<1>2. Row(n).kind \in {"regular", "cup", "play-in", "playoff"} /\ Row(n).date \in Nat
  BY <1>1, RowFacts
<1> DEFINE L == LastOf(season, {"regular", "cup", "play-in", "playoff"})
<1>3. Row(n).date \in L
  BY <1>1, <1>2 DEF LastOf, RowsOf, Row
<1>4. L \subseteq Nat /\ IsFiniteSet(L)
  <2>1. \A m \in DOMAIN Calendar[season] : Calendar[season][m].date \in Nat
    BY RowFacts DEF Row
  <2>2. L \subseteq Nat
    BY <2>1 DEF LastOf, Held
  <2> DEFINE H == Held(season) \intersect RowsOf(season, {"regular", "cup", "play-in", "playoff"})
             f == [m \in H |-> Calendar[season][m].date]
  <2>3. IsFiniteSet(H)
    BY SeasonFacts, FS_Subset DEF IsCalendar, RowsOf
  <2>4. f \in Surjection(H, L)
    <3>1. f \in [H -> L] /\ \A x \in L : \E m \in H : f[m] = x
      BY DEF LastOf
    <3> HIDE DEF f, H, L
    <3> QED BY <3>1, Fun_IsSurj
  <2>5. IsFiniteSet(L)
    <3> HIDE DEF f, H, L
    <3> QED BY <2>3, <2>4, FS_Surjection
  <2> QED BY <2>2, <2>5
<1>5. Max(L) \in L /\ \A d \in L : d <= Max(L)
  <2> DEFINE f == [x \in L |-> x]
  <2>1. \E x \in L : \A y \in L : f[y] <= f[x]
    <3>1. \A x \in L : f[x] \in Nat
      BY <1>4
    <3> HIDE DEF f, L
    <3> QED BY <1>3, <1>4, <3>1, GreatestExists
  <2>2. \E x \in L : \A y \in L : x >= y
    <3> HIDE DEF L
    <3> QED BY <2>1, <1>4
  <2> HIDE DEF L
  <2> QED BY <2>2, <1>4 DEF Max
<1>6. Over[season] = 1 + Max(L)
  BY SeasonFacts DEF Over
<1>7. PICK x : x = Max(L)
  OBVIOUS
<1> HIDE DEF L
<1>8. x \in Nat /\ Row(n).date <= x /\ Over[season] = 1 + x
  BY <1>3, <1>4, <1>5, <1>6, <1>7
<1> QED BY <1>2, <1>8

(* A season without a Cup final is over: its listing is complete.           *)
LEMMA OverIsComplete ==
  ASSUME PagesInv, PagesAreComplete, Games(season, {"cup"}) = {}, NEW n \in Held(season)
  PROVE  \E g \in Played(_listed_games) : g.position = n
<1>1. n \in DOMAIN Calendar[season] /\ Row(n).gone = NONE
  BY DEF Held, Row
<1>2. WasOver(season)
  BY SeasonFacts
<1>3. Row(n).kind \in {"regular", "cup", "play-in", "playoff"} /\ Row(n).date \in Nat
      /\ Row(n).listed \in Nat /\ Row(n).listed <= Row(n).date
  BY <1>1, RowFacts
<1>4. Row(n).date < Over[season] /\ Over[season] \in Nat
  BY OverIsLast
<1>5. PICK m \in Range(Months[season]) : m.month = Row(n).month /\ m.linked <= Over[season]
  BY <1>2 DEF WasOver, Row
<1>6. Cached(NONE) /\ schedule[NONE].at \in Nat /\ schedule[NONE].at >= Over[season]
  BY DEF PagesInv, PagesAreComplete, PageNames
<1>7. Row(n).month \in month_links
  BY <1>4, <1>5, <1>6, SeasonFacts DEF month_links
<1>8. /\ Cached(Row(n).month) /\ Row(n).month \in PageNames
      /\ schedule[Row(n).month].at \in Nat /\ schedule[Row(n).month].at >= Over[season]
  BY <1>5, <1>7 DEF PagesInv, PagesAreComplete, PageNames
<1> DEFINE at == schedule[Row(n).month].at
           g == ScheduleGame(n, at)
<1>9. g \in _listed_games
  BY <1>1, <1>3, <1>4, <1>7, <1>8, PageRows
<1>10. g.position = n /\ played(g)
  BY <1>1, <1>3, <1>4, <1>8, ShownIsListed
<1> QED BY <1>9, <1>10 DEF Played

(* Its regular games are then all within the 82 of both teams.              *)
LEMMA RegularAreWithin ==
  ASSUME PagesInv, PagesAreComplete, Games(season, {"cup"}) = {}, IsPlayedInFull(season),
         NEW g \in Played(_listed_games), Row(g.position).kind = "regular"
  PROVE  Within(_listed_games, g) = g.teams
<1> DEFINE listed == _listed_games
           n == g.position
<1>1. IsListing(listed) /\ g \in listed /\ played(g)
  BY PagesAreListing DEF Played
<1>2. IsListed(g) /\ n \in Held(season) /\ n \in DOMAIN Calendar[season]
      /\ g.date = Row(n).date /\ g.teams = TeamsOf(Row(n))
  BY <1>1 DEF IsListing, IsListed
<1>3. ASSUME NEW team \in g.teams
      PROVE  games_played(listed, team, g) <= REGULAR_SEASON_GAMES_PER_TEAM
  <2> DEFINE Upto == {h \in Played(listed) :
                        /\ team \in h.teams
                        /\ \/ h.date < g.date
                           \/ h.date = g.date /\ h.position <= g.position}
             B == HeldBy(season, {"regular"}, team)
  <2>1. \A h \in Upto : h.position \in B
    <3> SUFFICES ASSUME NEW h \in Upto PROVE h.position \in B
      OBVIOUS
    <3>1. h \in listed /\ played(h) /\ team \in h.teams
      BY DEF Played
    <3>2. /\ h.position \in Held(season) /\ h.position \in DOMAIN Calendar[season]
          /\ h.date = Row(h.position).date /\ h.teams = TeamsOf(Row(h.position))
      BY <1>1, <3>1 DEF IsListing, IsListed
    <3>3. Row(h.position).date <= Row(n).date /\ Row(h.position).date \in Nat /\ Row(n).date \in Nat
      <4>1. Row(h.position).date \in Nat /\ Row(n).date \in Nat
        BY <1>2, <3>2, RowFacts
      <4> QED BY <4>1, <1>2, <3>2
    <3>4. Row(h.position).kind \notin {"play-in", "playoff"}
      <4> SUFFICES ASSUME Row(h.position).kind \in {"play-in", "playoff"} PROVE FALSE
        OBVIOUS
      <4>1. Row(h.position).date \in LastOf(season, {"play-in", "playoff"})
        BY <3>2 DEF LastOf, RowsOf, Row
      <4>2. Row(n).date \in LastOf(season, {"regular", "cup"})
        BY <1>2 DEF LastOf, RowsOf, Row
      <4>3. Row(n).date < Row(h.position).date
        BY <4>1, <4>2, SeasonFacts DEF IsInOrder
      <4> QED BY <3>3, <4>3
    <3>5. Row(h.position).kind # "cup"
      BY <3>2 DEF Games, RowsOf, Row
    <3>6. Row(h.position).kind = "regular"
      BY <3>2, <3>4, <3>5, RowFacts
    <3> QED BY <3>1, <3>2, <3>6 DEF HeldBy, RowsOf, Row
  <2>2. Cardinality(B) = REGULAR_SEASON_GAMES_PER_TEAM
    BY <1>2 DEF IsPlayedInFull, Row
  <2>3. IsFiniteSet(B)
    BY SeasonFacts, FS_Subset DEF IsCalendar, HeldBy, RowsOf
  <2>4. Cardinality(RowsIn(Upto)) = Cardinality(Upto)
    <3>1. Upto \in SUBSET listed
      BY DEF Played
    <3> HIDE DEF Upto, listed
    <3> QED BY <3>1, <1>1, CountPositions
  <2>5. RowsIn(Upto) \subseteq B
    <3> HIDE DEF Upto
    <3> QED BY <2>1 DEF RowsIn
  <2>6. Cardinality(RowsIn(Upto)) <= Cardinality(B)
    <3> HIDE DEF Upto, B
    <3> QED BY <2>3, <2>5, FS_Subset
  <2>7. games_played(listed, team, g) = Cardinality(Upto)
    BY DEF games_played
  <2> HIDE DEF Upto, B, listed
  <2> QED BY <2>2, <2>4, <2>6, <2>7
<1> QED BY <1>3 DEF Within

(* Without a play-in row, the selection of a season that is over has all of *)
(* its regular games.                                                       *)
LEMMA OverHasAll ==
  ASSUME PagesInv, PagesAreComplete, Games(season, {"cup"}) = {}, PlayInDates(_listed_games) = {}
  PROVE  Games(season, Selected) \subseteq select_season_games(_listed_games)
<1> DEFINE listed == _listed_games
<1>1. IsListing(listed)
  BY PagesAreListing
<1>2. ASSUME NEW n \in Held(season)
      PROVE  \E g \in Played(listed) :
               /\ g.position = n /\ g.game_id = Row(n).game
               /\ g.play_in <=> Row(n).kind = "play-in"
  <2>1. PICK g \in Played(listed) : g.position = n
    BY OverIsComplete
  <2>2. IsListed(g) /\ played(g)
    BY <1>1 DEF Played, IsListing
  <2> QED BY <2>1, <2>2 DEF IsListed
<1>3. Games(season, {"play-in"}) = {}
  <2> SUFFICES ASSUME NEW n \in RowsOf(season, {"play-in"}) PROVE FALSE
    BY DEF Games
  <2>1. PICK m \in Held(season) : Row(m).kind = "play-in"
    BY RowFacts DEF RowsOf, Row
  <2>2. PICK g \in Played(listed) : g.play_in
    BY <1>2, <2>1
  <2> QED BY <2>2 DEF Played, PlayInDates
<1>4. IsPlayedInFull(season)
  BY <1>3, SeasonFacts
<1>5. ASSUME NEW x \in Games(season, Selected)
      PROVE  x \in select_season_games(listed)
  <2>1. PICK n \in RowsOf(season, Selected) : x = Row(n).game
    BY DEF Games, Row
  <2>2. PICK m \in Held(season) : Row(m).game = x /\ Row(m).kind = Row(n).kind
    BY <2>1, RowFacts DEF RowsOf
  <2>3. Row(m).kind = "regular"
    <3>1. Row(n).kind \in Selected /\ n \in DOMAIN Calendar[season]
      BY <2>1 DEF RowsOf, Row
    <3>2. Row(n).kind # "cup"
      BY <3>1 DEF Games, RowsOf, Row
    <3> QED BY <2>2, <3>1, <3>2 DEF Selected
  <2>4. PICK g \in Played(listed) : g.position = m /\ g.game_id = x
    BY <1>2, <2>2
  <2>5. Within(listed, g) = g.teams
    BY <1>4, <2>3, <2>4, RegularAreWithin
  <2>6. g \in _select(listed)
    BY <2>4, <2>5 DEF _select
  <2> QED BY <2>4, <2>6 DEF select_season_games
<1> QED BY <1>5

(* Without a play-in row, the selection of a season with a Cup final is too *)
(* small: no team has more games in it than the 82, and the final is one    *)
(* game more.                                                               *)
LEMMA CupIsMissing ==
  ASSUME PagesInv, NEW listed, IsListing(listed), Games(season, {"cup"}) # {},
         PlayInDates(listed) = {}
  PROVE  Cardinality(_select(listed)) < Cardinality(Games(season, Selected))
<1> DEFINE S == _select(listed)
           A == RowsIn(S)
           D == DOMAIN Calendar[season]
           B == Held(season) \intersect RowsOf(season, {"regular"})
           T == {Row(n).visitor : n \in D} \union {Row(n).home : n \in D}
           u == [n \in A \union B |-> Row(n).visitor]
           v == [n \in A \union B |-> Row(n).home]
<1>1. S \subseteq Played(listed) /\ S \subseteq listed
  BY DEF _select, Played
<1>2. IsFiniteSet(S) /\ IsFiniteSet(A) /\ Cardinality(A) = Cardinality(S)
  <2> HIDE DEF S
  <2> QED BY <1>1, CountPositions
<1>3. \A g \in S : /\ g.position \in D /\ g.teams = TeamsOf(Row(g.position))
                   /\ Within(listed, g) = g.teams
  <2>1. \A g \in S : IsListed(g)
    BY <1>1 DEF IsListing
  <2>2. \A g \in S : Within(listed, g) = g.teams
    BY DEF _select
  <2> QED BY <2>1, <2>2 DEF IsListed
<1>4. A \subseteq D /\ B \subseteq D
  <2>1. B \subseteq D
    BY DEF Held
  <2> HIDE DEF S
  <2> QED BY <1>3, <2>1 DEF RowsIn
<1>5. IsFiniteSet(B)
  <2> HIDE DEF B
  <2> QED BY <1>4, SeasonFacts, FS_Subset DEF IsCalendar
<1>6. IsPlayedInFull(season)
  BY SeasonFacts
<1>7. ASSUME NEW team \in T
      PROVE  Cardinality(GamesOf(A, u, v, team)) <= Cardinality(GamesOf(B, u, v, team))
  <2> DEFINE F == {g \in Played(listed) :
                     team \in g.teams
                     /\ games_played(listed, team, g) <= REGULAR_SEASON_GAMES_PER_TEAM}
             P == {n \in A : team \in {u[n], v[n]}}
             Q == {n \in B : team \in {u[n], v[n]}}
  <2>1. Cardinality(F) <= REGULAR_SEASON_GAMES_PER_TEAM
    BY FirstGames
  <2>2. P \subseteq RowsIn(F)
    <3> SUFFICES ASSUME NEW n \in P PROVE n \in RowsIn(F)
      OBVIOUS
    <3>1. n \in A /\ team \in TeamsOf(Row(n))
      <4> HIDE DEF A, B
      <4> QED BY DEF TeamsOf
    <3>2. PICK g \in S : g.position = n
      <4> HIDE DEF S
      <4> QED BY <3>1 DEF RowsIn
    <3>3. g \in Played(listed) /\ team \in Within(listed, g) /\ team \in g.teams
      <4> HIDE DEF S
      <4> QED BY <1>1, <1>3, <3>1, <3>2
    <3>4. g \in F
      BY <3>3 DEF Within
    <3> HIDE DEF F
    <3> QED BY <3>2, <3>4 DEF RowsIn
  <2>3. IsFiniteSet(RowsIn(F)) /\ Cardinality(RowsIn(F)) = Cardinality(F)
    <3>1. F \in SUBSET listed
      BY DEF Played
    <3> HIDE DEF F
    <3> QED BY <3>1, CountPositions
  <2>4. Q = HeldBy(season, {"regular"}, team)
    <3>1. \A n \in B : u[n] = Row(n).visitor /\ v[n] = Row(n).home
      <4> HIDE DEF A, B
      <4> QED OBVIOUS
    <3> QED BY <3>1 DEF HeldBy, TeamsOf, Row
  <2>5. Cardinality(Q) = REGULAR_SEASON_GAMES_PER_TEAM
    <3>1. PICK n \in D : team \in TeamsOf(Row(n))
      BY DEF TeamsOf
    <3>2. Cardinality(HeldBy(season, {"regular"}, team)) = REGULAR_SEASON_GAMES_PER_TEAM
      BY <1>6, <3>1 DEF IsPlayedInFull, Row
    <3> HIDE DEF Q
    <3> QED BY <2>4, <3>2
  <2>6. Cardinality(P) <= Cardinality(RowsIn(F)) /\ Cardinality(P) \in Nat
        /\ Cardinality(RowsIn(F)) \in Nat
    <3> HIDE DEF P, F
    <3> QED BY <2>2, <2>3, FS_Subset, FS_CardinalityType
  <2>7. Cardinality(P) <= Cardinality(Q)
    <3> HIDE DEF P, F, Q
    <3> QED BY <2>1, <2>3, <2>5, <2>6, SeasonFacts
  <2> QED BY <2>7 DEF GamesOf
<1>8. /\ u \in [A \union B -> T] /\ v \in [A \union B -> T]
      /\ \A n \in A \union B : u[n] # v[n]
  <2>1. \A n \in A \union B : n \in D /\ u[n] = Row(n).visitor /\ v[n] = Row(n).home
    <3> HIDE DEF A, B
    <3> QED BY <1>4
  <2>2. \A n \in A \union B : u[n] \in T /\ v[n] \in T /\ u[n] # v[n]
    <3> HIDE DEF A, B, u, v
    <3> QED BY <2>1, RowFacts
  <2> HIDE DEF A, B, T
  <2> QED BY <2>2
<1>9. Cardinality(A) <= Cardinality(B)
  <2>1. \A team \in T : Cardinality(GamesOf(A, u, v, team)) <= Cardinality(GamesOf(B, u, v, team))
    BY <1>7
  <2> HIDE DEF A, B, T, u, v
  <2> QED BY <1>2, <1>5, <1>8, <2>1, TeamByTeam
<1>10. Cardinality(B) <= Cardinality(Games(season, {"regular"}))
  <2> DEFINE R == Games(season, {"regular"})
             f == [n \in B |-> Row(n).game]
  <2>1. f \in [B -> R]
    BY DEF Games, RowsOf, Row
  <2>2. \A m, n \in B : f[m] = f[n] => m = n
    BY SeasonFacts DEF IsCalendar, Row
  <2>3. f \in Injection(B, R)
    <3> HIDE DEF f, B, R
    <3> QED BY <2>1, <2>2, Fun_IsInj
  <2> HIDE DEF f, B, R
  <2> QED BY <2>3, GamesAreFinite, FS_Injection DEF R
<1>11. Cardinality(Games(season, {"regular"})) < Cardinality(Games(season, Selected))
  <2> DEFINE R == Games(season, {"regular"})
             W == Games(season, Selected)
  <2>1. R \subseteq W
    BY DEF Games, RowsOf, Selected
  <2>2. PICK n \in RowsOf(season, {"cup"}) : TRUE
    BY DEF Games
  <2>3. PICK c \in Held(season) : Row(c).game = Row(n).game /\ Row(c).kind = "cup"
    BY <2>2, RowFacts DEF RowsOf, Row
  <2>4. Row(c).game \in W
    BY <2>2, <2>3 DEF Games, RowsOf, Selected, Row
  <2>5. Row(c).game \notin R
    <3> SUFFICES ASSUME NEW m \in RowsOf(season, {"regular"}), Row(m).game = Row(c).game
                 PROVE  FALSE
      BY DEF Games, Row
    <3>1. PICK k \in Held(season) : Row(k).game = Row(m).game /\ Row(k).kind = "regular"
      BY RowFacts DEF RowsOf, Row
    <3>2. k = c
      BY <2>3, <3>1, SeasonFacts DEF IsCalendar, Row
    <3> QED BY <2>3, <3>1, <3>2
  <2>6. IsFiniteSet(R) /\ IsFiniteSet(W) /\ Cardinality(R) \in Nat /\ Cardinality(W) \in Nat
    BY GamesAreFinite
  <2> HIDE DEF R, W
  <2>7. Cardinality(R) <= Cardinality(W) /\ Cardinality(R) # Cardinality(W)
    BY <2>1, <2>4, <2>5, <2>6, FS_Subset
  <2> QED BY <2>6, <2>7 DEF R, W
<1>12. /\ Cardinality(A) \in Nat /\ Cardinality(B) \in Nat
       /\ Cardinality(Games(season, {"regular"})) \in Nat
       /\ Cardinality(Games(season, Selected)) \in Nat
  <2> HIDE DEF A, B
  <2> QED BY <1>2, <1>5, FS_CardinalityType, GamesAreFinite
<1> HIDE DEF A, B, S
<1>13. Cardinality(S) < Cardinality(Games(season, Selected))
  BY <1>2, <1>9, <1>10, <1>11, <1>12
<1> QED BY <1>13 DEF S

(* A selection that is not refused is exact.                                *)
LEMMA ExactSelection ==
  ASSUME PagesInv, PagesAreComplete, Selects(_listed_games)
  PROVE  select_season_games(_listed_games) = Games(season, Selected)
<1> DEFINE listed == _listed_games
           S == _select(listed)
           ids == {g.game_id : g \in S}
           W == Games(season, Selected)
<1>1. IsListing(listed) /\ ~ListedTwice(listed) /\ S \in SUBSET Played(listed)
  BY PagesAreListing DEF Selects, _select
<1>2. Cardinality(S) = Cardinality(W)
  BY SeasonFacts DEF Selects, CountIsReviewed, Selected
<1>3. IsFiniteSet(ids) /\ Cardinality(ids) = Cardinality(S)
  <2> HIDE DEF listed, S
  <2> QED BY <1>1, CountGames
<1>4. IsFiniteSet(W) /\ Cardinality(W) \in Nat
  BY GamesAreFinite
<1>5. ids \subseteq W \/ W \subseteq ids
  <2>1. CASE PlayInDates(listed) # {}
    BY <1>1, <2>1, BeforePlayIn
  <2>2. CASE PlayInDates(listed) = {} /\ Games(season, {"cup"}) = {}
    BY <2>2, OverHasAll DEF select_season_games
  <2>3. CASE PlayInDates(listed) = {} /\ Games(season, {"cup"}) # {}
    <3>1. Cardinality(S) < Cardinality(W)
      BY <1>1, <2>3, CupIsMissing
    <3> HIDE DEF S, W
    <3> QED BY <1>2, <1>4, <3>1
  <2> QED BY <2>1, <2>2, <2>3
<1>6. ids = W
  <2> HIDE DEF ids, S, W
  <2> QED BY <1>2, <1>3, <1>4, <1>5, FS_Subset
<1> QED BY <1>6 DEF select_season_games

-----------------------------------------------------------------------------
(* Manifests                                                               *)

(* What a manifest of the season names.                                     *)
Due(type) ==
  IF type = "box_score" THEN {Entry(type, name) : name \in Games(season, Selected)}
  ELSE {Entry(type, name) : name \in PageNames}

Approvals == {Draft, Approval} \union HalfApprovals

IsManifest(m) ==
  /\ m \in [season : {season}, type : {"box_score", "league_schedule"}, approval : Approvals,
            twice : BOOLEAN, max_urls : Int, entries : SUBSET (Foreign \union UNION {Due(t) : t \in {"box_score", "league_schedule"}})]
  /\ m.entries \subseteq Foreign \union Due(m.type)

PlanInv ==
  /\ PagesInv
  /\ scores \subseteq Games(season, Selected)
  /\ DOMAIN drafts = Kinds
  /\ \A kind \in Kinds : drafts[kind] # NONE => IsManifest(drafts[kind])
  /\ \A m \in manifests : IsManifest(m)

(* The last day is a number.                                                *)
LEMMA OverIsDay ==
  ASSUME PagesInv
  PROVE  Over[season] \in Nat
<1>1. CASE Games(season, {"cup"}) = {}
  BY <1>1, SeasonFacts DEF WasOver
<1>2. CASE Games(season, {"cup"}) # {}
  <2>1. PICK n \in RowsOf(season, {"cup"}) : TRUE
    BY <1>2 DEF Games
  <2>2. PICK m \in Held(season) : TRUE
    BY <2>1, RowFacts DEF RowsOf
  <2> QED BY <2>2, OverIsLast
<1> QED BY <1>1, <1>2

(* Only a fully approved manifest is executed.                              *)
LEMMA ApprovedInFull ==
  ASSUME NEW m, m.approval \in Approvals, _validate_approval(m, TRUE)
  PROVE  m.approval = Approval
BY DEF Approvals, HalfApprovals, Draft, Approval, _validate_approval

(* A foreign entry is refused.                                              *)
LEMMA ForeignIsRefused ==
  ASSUME PlanInv, NEW m \in manifests, NEW e \in m.entries,
         validate_game_season_manifest(m, TRUE)
  PROVE  e \in Due(m.type) /\ e.type = m.type /\ m.approval = Approval
<1>1. IsManifest(m)
  BY DEF PlanInv
<1>2. /\ m.approval \in Approvals /\ m.season = season
      /\ m.type \in {"box_score", "league_schedule"} /\ e \in Foreign \union Due(m.type)
  BY <1>1 DEF IsManifest
<1>3. _validate_entry(m, e) /\ _validate_approval(m, TRUE)
  BY DEF validate_game_season_manifest
<1>4. e \notin Foreign
  <2> SUFFICES ASSUME e \in Foreign PROVE FALSE
    OBVIOUS
  <2>1. e.of # e.season /\ (e.type = "box_score" /\ e.season \in Seasons => DayOf(e) \notin Windows[e.season])
    BY ForeignAssumption
  <2>2. e.season = season /\ season \in Seasons /\ e.type = m.type
    BY <1>2, <1>3, SeasonFacts DEF _validate_entry, PlanInv
  <2>3. IF m.type = "league_schedule" THEN e.of = season ELSE DayOf(e) \in Windows[season]
    BY <1>2, <1>3 DEF _validate_entry
  <2> QED BY <1>2, <2>1, <2>2, <2>3
<1> QED BY <1>2, <1>3, <1>4, ApprovedInFull DEF _validate_entry

(* What is due is a page of the season or one of its games.                 *)
LEMMA DueNames ==
  ASSUME NEW type, NEW e \in Due(type)
  PROVE  /\ e.type = type
         /\ type = "box_score" => e.name \in Games(season, Selected)
         /\ type # "box_score" => e.name \in PageNames
BY DEF Due, Entry

(* The steps that leave the pages alone leave the rest of the invariant.    *)
LEMMA PagesStay ==
  ASSUME PagesInv, season' = season, schedule' = schedule, day' = day
  PROVE  PagesInv'
BY DEF PagesInv, PageNames, Cached

(* A manifest is one of the season, whatever else changes.                  *)
LEMMA ManifestsStay ==
  ASSUME season' = season, NEW m
  PROVE  IsManifest(m)' <=> IsManifest(m)
BY DEF IsManifest, Due, Entry, PageNames

(* The pages that earlier work left are as the invariant says.              *)
LEMMA PlanInitInv == PlanInit => PlanInv
<1> SUFFICES ASSUME PlanInit PROVE PlanInv
  OBVIOUS
<1>1. /\ season \in Seasons /\ day = FirstDay
      /\ scores = {} /\ drafts = [kind \in Kinds |-> NONE] /\ manifests = {}
  BY DEF PlanInit
<1>2. PICK pages \in FirstPages[season] :
        schedule = [page \in PageNames |->
                      IF page \in DOMAIN pages THEN [at |-> pages[page], clean |-> TRUE] ELSE NONE]
  BY DEF PlanInit, PageNames
<1>3. ASSUME NEW page \in PageNames, Cached(page)
      PROVE  /\ schedule[page].clean \in BOOLEAN
             /\ schedule[page].at \in Nat /\ schedule[page].at <= FirstDay
             /\ Games(season, {"cup"}) = {} => schedule[page].at >= Over[season]
  <2>1. page \in DOMAIN pages /\ schedule[page] = [at |-> pages[page], clean |-> TRUE]
    BY <1>2, <1>3 DEF Cached
  <2>2. pages[page] \in Nat /\ pages[page] <= FirstDay
    BY <1>1, <2>1, SeasonPlanAssumption
  <2>3. Games(season, {"cup"}) = {} => pages[page] >= Over[season]
    BY <1>1, <2>1, SeasonPlanAssumption DEF WasOver
  <2> QED BY <2>1, <2>2, <2>3
<1>4. PagesInv
  <2>1. day \in FirstDay..LastDay
    BY <1>1, SeasonPlanAssumption
  <2>2. DOMAIN schedule = PageNames
    BY <1>2
  <2> QED BY <1>1, <1>3, <2>1, <2>2 DEF PagesInv
<1> QED BY <1>1, <1>4 DEF PlanInv

(* A draft that is written is a manifest of the season.                     *)
LEMMA WriteDraftInv ==
  ASSUME PlanInv, NEW kind \in Kinds, NEW names, WriteDraft(kind, names),
         names \subseteq IF kind = "box-scores" THEN Games(season, Selected) ELSE PageNames
  PROVE  PlanInv'
<1> DEFINE m == [season |-> season, type |-> PageType(kind), approval |-> Draft, twice |-> FALSE,
                 max_urls |-> Cardinality(names),
                 entries |-> {Entry(PageType(kind), name) : name \in names}]
<1>1. /\ drafts' = [drafts EXCEPT ![kind] = m] /\ validate_game_season_manifest(m, FALSE)
      /\ UNCHANGED <<season, day, schedule, scores, manifests>>
  BY DEF WriteDraft
<1>2. m.max_urls \in Int
  <2>1. m.max_urls \in 1..MAX_SEASON_URLS
    BY <1>1 DEF validate_game_season_manifest
  <2> QED BY <2>1
<1>3. m.entries \subseteq Due(m.type)
  <2>1. CASE kind = "box-scores"
    BY <2>1 DEF Due, PageType
  <2>2. CASE kind # "box-scores"
    BY <2>2 DEF Due, PageType
  <2> QED BY <2>1, <2>2
<1>4. IsManifest(m)
  <2>1. /\ m.season = season /\ m.type \in {"box_score", "league_schedule"}
        /\ m.approval \in Approvals /\ m.twice \in BOOLEAN
    BY DEF PageType, Approvals
  <2>2. m.entries \subseteq Foreign \union UNION {Due(t) : t \in {"box_score", "league_schedule"}}
    <3> HIDE DEF m
    <3> QED BY <1>3, <2>1
  <2>3. m = [season |-> m.season, type |-> m.type, approval |-> m.approval, twice |-> m.twice,
             max_urls |-> m.max_urls, entries |-> m.entries]
    OBVIOUS
  <2> HIDE DEF m
  <2> QED BY <1>2, <1>3, <2>1, <2>2, <2>3 DEF IsManifest
<1> HIDE DEF m
<1>5. \A k \in Kinds : drafts'[k] # NONE => IsManifest(drafts'[k])
  BY <1>1, <1>4 DEF PlanInv
<1>6. PagesInv'
  BY <1>1, PagesStay DEF PlanInv
<1>7. \A n : IsManifest(n)' <=> IsManifest(n)
  BY <1>1, ManifestsStay
<1>8. DOMAIN drafts' = Kinds
  BY <1>1 DEF PlanInv
<1>9. scores' \subseteq Games(season, Selected)' /\ \A n \in manifests' : IsManifest(n)
  BY <1>1 DEF PlanInv
<1> QED BY <1>5, <1>6, <1>7, <1>8, <1>9 DEF PlanInv

(* A manifest that the owner puts into tasks/manifests.                     *)
LEMMA ManifestsInv ==
  ASSUME PlanInv, UNCHANGED <<season, day, schedule, scores, drafts>>,
         NEW m, IsManifest(m), manifests' = manifests \union {m}
  PROVE  PlanInv'
<1>1. PagesInv'
  BY PagesStay DEF PlanInv
<1>2. \A n : IsManifest(n)' <=> IsManifest(n)
  BY ManifestsStay
<1>3. \A n \in manifests' : IsManifest(n)
  BY DEF PlanInv
<1>4. scores' \subseteq Games(season, Selected)' /\ DOMAIN drafts' = Kinds
  BY DEF PlanInv
<1>5. \A kind \in Kinds : drafts'[kind] # NONE => IsManifest(drafts'[kind])
  BY DEF PlanInv
<1> QED BY <1>1, <1>2, <1>3, <1>4, <1>5 DEF PlanInv

(* A day later, the pages are of days gone by all the same.                 *)
LEMMA TomorrowInv == PlanInv /\ Tomorrow => PlanInv'
<1> SUFFICES ASSUME PlanInv, Tomorrow PROVE PlanInv'
  OBVIOUS
<1>1. /\ day' = day + 1 /\ day < LastDay
      /\ UNCHANGED <<season, schedule, scores, drafts, manifests>>
  BY DEF Tomorrow
<1>2. day' \in FirstDay..LastDay /\ day \in Nat /\ day < day'
  BY <1>1, SeasonFacts DEF PlanInv, PagesInv
<1>3. \A page \in PageNames : Cached(page) => schedule[page].at \in Nat /\ schedule[page].at <= day'
  BY <1>2 DEF PlanInv, PagesInv
<1>4. PagesInv'
  BY <1>1, <1>2, <1>3 DEF PlanInv, PagesInv, PageNames, Cached
<1>5. \A n : IsManifest(n)' <=> IsManifest(n)
  BY <1>1, ManifestsStay
<1>6. /\ scores' \subseteq Games(season, Selected)' /\ DOMAIN drafts' = Kinds
      /\ \A n \in manifests' : IsManifest(n)
      /\ \A kind \in Kinds : drafts'[kind] # NONE => IsManifest(drafts'[kind])
  BY <1>1 DEF PlanInv
<1> QED BY <1>4, <1>5, <1>6 DEF PlanInv

(* The three planners: a page of the season, its linked months, or an exact *)
(* selection of its games.                                                  *)
LEMMA PlannersInv == PlanInv /\ (PlanSeasonPage \/ PlanMonths \/ PlanBoxScores) => PlanInv'
<1>1. ASSUME PlanInv, PlanSeasonPage PROVE PlanInv'
  <2>1. WriteDraft("season-page", {NONE}) /\ {NONE} \subseteq PageNames
    BY <1>1 DEF PlanSeasonPage, PageNames
  <2> QED BY <1>1, <2>1, WriteDraftInv DEF Kinds
<1>2. ASSUME PlanInv, PlanMonths PROVE PlanInv'
  <2>1. WriteDraft("schedule-months", month_links) /\ month_links \subseteq PageNames
    BY <1>2 DEF PlanMonths, month_links, PageNames
  <2> QED BY <1>2, <2>1, WriteDraftInv DEF Kinds
<1>3. ASSUME PlanInv, PlanBoxScores PROVE PlanInv'
  <2>1. PICK listed \in Listings :
          /\ Selects(listed)
          /\ \E games \in {select_season_games(listed)} : WriteDraft("box-scores", games)
    BY <1>3 DEF PlanBoxScores
  <2>2. PagesAreComplete /\ listed = _listed_games
    BY DEF Listings
  <2>3. select_season_games(listed) = Games(season, Selected)
    BY <1>3, <2>1, <2>2, ExactSelection DEF PlanInv
  <2>4. WriteDraft("box-scores", select_season_games(listed))
    BY <2>1
  <2> QED BY <1>3, <2>3, <2>4, WriteDraftInv DEF Kinds
<1> QED BY <1>1, <1>2, <1>3

(* A copy of a draft is a manifest of the season.                           *)
LEMMA ApproveInv ==
  ASSUME PlanInv, NEW kind \in Kinds, Approve(kind)
  PROVE  PlanInv'
<1>1. IsManifest(drafts[kind])
  BY DEF PlanInv, Approve
<1>2. IsManifest([drafts[kind] EXCEPT !.approval = Approval])
  BY <1>1 DEF IsManifest, Approvals
<1> QED BY <1>2, ManifestsInv DEF Approve

(* A copy with a slip may have a foreign entry, and no other.               *)
LEMMA ApproveWithSlipInv ==
  ASSUME PlanInv, NEW kind \in Kinds, ApproveWithSlip(kind)
  PROVE  PlanInv'
<1>1. IsManifest(drafts[kind]) /\ UNCHANGED <<season, day, schedule, scores, drafts>>
  BY DEF PlanInv, ApproveWithSlip
<1>2. ASSUME NEW approval \in HalfApprovals PROVE IsManifest([drafts[kind] EXCEPT !.approval = approval])
  BY <1>1 DEF IsManifest, Approvals
<1>3. IsManifest([drafts[kind] EXCEPT !.approval = Approval, !.twice = TRUE])
  BY <1>1 DEF IsManifest, Approvals
<1>4. ASSUME NEW e \in Foreign, NEW raised \in 0..1
      PROVE  IsManifest([drafts[kind] EXCEPT !.approval = Approval, !.entries = @ \union {e},
                                             !.max_urls = @ + raised])
  <2>1. PICK d : d = drafts[kind]
    OBVIOUS
  <2>2. /\ d = [season |-> d.season, type |-> d.type, approval |-> d.approval, twice |-> d.twice,
                max_urls |-> d.max_urls, entries |-> d.entries]
        /\ d.season = season /\ d.type \in {"box_score", "league_schedule"} /\ d.twice \in BOOLEAN
        /\ d.max_urls + raised \in Int
        /\ d.entries \union {e} \subseteq Foreign \union Due(d.type)
    BY <1>1, <2>1 DEF IsManifest
  <2>3. PICK copy : copy = [d EXCEPT !.approval = Approval, !.entries = @ \union {e}, !.max_urls = @ + raised]
    OBVIOUS
  <2>4. d.entries \union {e} \subseteq Foreign \union UNION {Due(t) : t \in {"box_score", "league_schedule"}}
    BY <2>2
  <2>5. /\ copy = [season |-> copy.season, type |-> copy.type, approval |-> copy.approval,
                   twice |-> copy.twice, max_urls |-> copy.max_urls, entries |-> copy.entries]
        /\ copy.approval = Approval /\ copy.season = d.season /\ copy.type = d.type
        /\ copy.twice = d.twice
    BY <2>2, <2>3
  <2>6. copy.max_urls = d.max_urls + raised
    BY <2>2, <2>3
  <2>7. copy.entries = d.entries \union {e}
    BY <2>2, <2>3
  <2>8. IsManifest(copy)
    BY <2>2, <2>4, <2>5, <2>6, <2>7 DEF IsManifest, Approvals
  <2> QED BY <2>1, <2>3, <2>8
<1> QED BY <1>1, <1>2, <1>3, <1>4, ManifestsInv DEF ApproveWithSlip

(* A page is fetched on a day of the project, and one of a season that was  *)
(* over is of its last day.                                                 *)
LEMMA TodayFacts ==
  ASSUME PlanInv
  PROVE  /\ Today \in Nat /\ Today <= day
         /\ Games(season, {"cup"}) = {} => Today >= Over[season]
<1>1. Over[season] \in Nat /\ day \in Nat /\ FirstDay \in Nat /\ FirstDay <= day
  BY OverIsDay, SeasonFacts DEF PlanInv, PagesInv
<1>2. Games(season, {"cup"}) = {} => Over[season] <= FirstDay
  BY SeasonFacts DEF PlanInv, WasOver
<1> QED BY <1>1, <1>2 DEF Today

(* A page that is fetched is named by an approved manifest, where no        *)
(* foreign entry is left, and a box score is of a game that is due.         *)
LEMMA FetchInv ==
  ASSUME PlanInv, NEW m \in manifests, Fetch(m)
  PROVE  /\ PlanInv'
         /\ {page \in DOMAIN schedule : ~Cached(page) /\ schedule'[page] # NONE}
              \subseteq Approved("league_schedule")
         /\ scores' \ scores \subseteq Approved("box_score") \intersect Games(season, Selected)
<1>1. /\ validate_game_season_manifest(m, TRUE)
      /\ UNCHANGED <<season, day, drafts, manifests>>
  BY DEF Fetch
<1>2. PICK e \in m.entries :
        \/ e.type = "box_score" /\ scores' = scores \union {e.name} /\ schedule' = schedule
        \/ /\ e.type = "league_schedule" /\ scores' = scores
           /\ \E clean \in BOOLEAN : schedule' = [schedule EXCEPT ![e.name] = [at |-> Today, clean |-> clean]]
  BY DEF Fetch
<1>3. e \in Due(m.type) /\ e.type = m.type /\ m.approval = Approval
  BY <1>1, ForeignIsRefused
<1>4. e.name \in Approved(e.type)
  BY <1>3 DEF Approved
<1>5. \A n : IsManifest(n)' <=> IsManifest(n)
  BY <1>1, ManifestsStay
<1>6. /\ DOMAIN drafts' = Kinds
      /\ \A kind \in Kinds : drafts'[kind] # NONE => IsManifest(drafts[kind])'
      /\ \A n \in manifests' : IsManifest(n)'
  BY <1>1, <1>5 DEF PlanInv
<1>7. CASE e.type = "box_score" /\ scores' = scores \union {e.name} /\ schedule' = schedule
  <2>1. e.name \in Games(season, Selected)
    BY <1>3, <1>7, DueNames
  <2>2. PagesInv'
    BY <1>1, <1>7, PagesStay DEF PlanInv
  <2>3. PlanInv'
    BY <1>1, <1>6, <1>7, <2>1, <2>2 DEF PlanInv
  <2> QED BY <1>4, <1>7, <2>1, <2>3 DEF Cached
<1>8. CASE /\ e.type = "league_schedule" /\ scores' = scores
           /\ \E clean \in BOOLEAN : schedule' = [schedule EXCEPT ![e.name] = [at |-> Today, clean |-> clean]]
  <2>1. PICK clean \in BOOLEAN : schedule' = [schedule EXCEPT ![e.name] = [at |-> Today, clean |-> clean]]
    BY <1>8
  <2>2. e.name \in PageNames
    BY <1>3, <1>8, DueNames
  <2>3. /\ DOMAIN schedule = PageNames /\ DOMAIN schedule' = PageNames
        /\ schedule'[e.name] = [at |-> Today, clean |-> clean]
        /\ \A page \in PageNames \ {e.name} : schedule'[page] = schedule[page]
    BY <2>1, <2>2 DEF PlanInv, PagesInv
  <2>4. /\ schedule'[e.name].clean \in BOOLEAN
        /\ schedule'[e.name].at \in Nat /\ schedule'[e.name].at <= day
        /\ Games(season, {"cup"}) = {} => schedule'[e.name].at >= Over[season]
    BY <2>3, TodayFacts
  <2>5. \A page \in PageNames : schedule'[page] # NONE =>
          /\ schedule'[page].clean \in BOOLEAN
          /\ schedule'[page].at \in Nat /\ schedule'[page].at <= day
          /\ Games(season, {"cup"}) = {} => schedule'[page].at >= Over[season]
    <3> SUFFICES ASSUME NEW page \in PageNames, schedule'[page] # NONE, page # e.name
                 PROVE  /\ schedule[page].clean \in BOOLEAN
                        /\ schedule[page].at \in Nat /\ schedule[page].at <= day
                        /\ Games(season, {"cup"}) = {} => schedule[page].at >= Over[season]
      BY <2>3, <2>4
    <3> QED BY <2>3 DEF PlanInv, PagesInv, Cached
  <2>6. PagesInv'
    BY <1>1, <2>3, <2>5 DEF PlanInv, PagesInv, PageNames, Cached
  <2>7. PlanInv'
    BY <1>1, <1>6, <1>8, <2>6 DEF PlanInv
  <2>8. \A page \in DOMAIN schedule : ~Cached(page) /\ schedule'[page] # NONE => page = e.name
    BY <2>3 DEF Cached
  <2> QED BY <1>4, <1>8, <2>7, <2>8
<1> QED BY <1>2, <1>7, <1>8

(* Whatever happens to the plan, its invariant is kept.                     *)
LEMMA PlanNextInv == PlanInv /\ [PlanNext]_planVars => PlanInv'
<1> SUFFICES ASSUME PlanInv, [PlanNext]_planVars PROVE PlanInv'
  OBVIOUS
<1>1. CASE Tomorrow
  BY <1>1, TomorrowInv
<1>2. CASE PlanSeasonPage \/ PlanMonths \/ PlanBoxScores
  BY <1>2, PlannersInv
<1>3. CASE \E kind \in Kinds : Approve(kind) \/ ApproveWithSlip(kind)
  BY <1>3, ApproveInv, ApproveWithSlipInv
<1>4. CASE FetchAny
  BY <1>4, FetchInv DEF FetchAny
<1>5. CASE UNCHANGED planVars
  <2>1. PagesInv' /\ \A n : IsManifest(n)' <=> IsManifest(n)
    BY <1>5, PagesStay, ManifestsStay DEF planVars, PlanInv
  <2> QED BY <1>5, <2>1 DEF planVars, PlanInv
<1> QED BY <1>1, <1>2, <1>3, <1>4, <1>5 DEF PlanNext

(* The pages are of days gone by, those of a season that was over are from  *)
(* after its end, and what is drafted, approved or cached is of the season. *)
THEOREM PlanInvariance == PlanSpec => []PlanInv
BY PlanInitInv, PlanNextInv, PTL DEF PlanSpec

(* A selection that is not refused is exact, whatever pages it is made of.  *)
THEOREM ExactTheorem == PlanSpec => []SelectionIsExact
<1>1. PlanInv => SelectionIsExact
  <2> SUFFICES ASSUME PlanInv PROVE SelectionIsExact
    OBVIOUS
  <2>1. PlanTypeOK
    <3>1. season \in Seasons
      BY DEF PlanInv, PagesInv
    <3>2. Games(season, Selected) \subseteq Games(season, {"regular", "cup", "play-in", "playoff"})
      BY DEF Games, RowsOf, Selected
    <3> QED BY <3>1, <3>2 DEF PlanTypeOK, PlanInv, PagesInv
  <2>2. ASSUME NEW listed \in Listings, Selects(listed)
        PROVE  select_season_games(listed) = Games(season, Selected)
    <3>1. PagesAreComplete /\ listed = _listed_games
      BY DEF Listings
    <3> QED BY <2>2, <3>1, ExactSelection DEF PlanInv
  <2> QED BY <2>1, <2>2 DEF SelectionIsExact, Selected
<1> QED BY <1>1, PlanInvariance, PTL

(* Nothing is fetched but what an approved manifest names, and no box score *)
(* but of a regular game or the Cup final.                                  *)
THEOREM FetchedTheorem == PlanSpec => FetchedAsApproved
<1>1. PlanInv /\ [PlanNext]_planVars =>
        [/\ {page \in DOMAIN schedule : ~Cached(page) /\ schedule'[page] # NONE}
              \subseteq Approved("league_schedule")
         /\ scores' \ scores \subseteq Approved("box_score") \intersect
                                       Games(season, {"regular", "cup"})]_planVars
  <2> SUFFICES ASSUME PlanInv, PlanNext
               PROVE  /\ {page \in DOMAIN schedule : ~Cached(page) /\ schedule'[page] # NONE}
                           \subseteq Approved("league_schedule")
                      /\ scores' \ scores \subseteq Approved("box_score") \intersect
                                                    Games(season, {"regular", "cup"})
    OBVIOUS
  <2>1. CASE FetchAny
    BY <2>1, FetchInv DEF FetchAny, Selected
  <2>2. CASE UNCHANGED <<schedule, scores>>
    BY <2>2 DEF Cached
  <2>3. FetchAny \/ UNCHANGED <<schedule, scores>>
    BY DEF PlanNext, Tomorrow, PlanSeasonPage, PlanMonths, PlanBoxScores, WriteDraft, Approve, ApproveWithSlip
  <2> QED BY <2>1, <2>2, <2>3
<1> QED BY <1>1, PlanInvariance, PTL DEF PlanSpec, FetchedAsApproved
=============================================================================
