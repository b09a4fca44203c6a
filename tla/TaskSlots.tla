----------------------------- MODULE TaskSlots -----------------------------
(***************************************************************************)
(* scripts/claim_task.py over the task cards of several Git worktrees      *)
(* (ADR 0018).  A card's folder is its stage, in each worktree's own       *)
(* checkout.  Claims run concurrently and read the folders one by one,     *)
(* under one lock file; every other move of a card takes no lock.          *)
(***************************************************************************)
EXTENDS FiniteSets

CONSTANTS
    Worktrees,
    Binding,        \* each worktree's .local/track, "unbound" for none
    Cards,
    Track,          \* each card's track
    DependsOn,      \* each card's depends_on before it is parked
    Blocker,        \* the shared card a parked card waits on
    Claimers,       \* processes that run claim_task.py
    NoLock

BoundTracks == {"data", "app"}

ASSUME TracksAssumption ==
    /\ Binding \in [Worktrees -> BoundTracks \cup {"unbound"}]
    /\ Track \in [Cards -> BoundTracks \cup {"shared"}]
    /\ DependsOn \in [Cards -> SUBSET Cards]
    /\ Worktrees # {} /\ Blocker \in Cards /\ NoLock \notin Claimers

VARIABLES
    stage,          \* the folder of each card in each worktree
    parked,         \* its '## Parked' block: "no", "parked", or "resumed"
    lock,           \* the process that created .local/task-slot.lock
    claim           \* each process's claim

slotVars == <<stage, parked, lock, claim>>

Stages == {"planning", "backlog", "active", "review", "done"}
InProgress == {"active", "review"}

Reads == Worktrees \X InProgress

Claim == [step : {"out", "waiting", "reading", "deciding", "moving", "leaving", "killed"},
          root : Worktrees, card : Cards, resume : BOOLEAN,
          todo : SUBSET Reads,              \* the folders still to be read
          seen : SUBSET (Reads \X Cards)]   \* the cards read, with their folder

NoClaim == [step |-> "out", root |-> CHOOSE w \in Worktrees : TRUE, card |-> Blocker,
            resume |-> FALSE, todo |-> {}, seen |-> {}]

(* The steps inside the lock. *)
Inside == {"reading", "deciding", "moving", "leaving"}

SlotsTypeOK ==
    /\ stage \in [Worktrees -> [Cards -> Stages]]
    /\ parked \in [Worktrees -> [Cards -> {"no", "parked", "resumed"}]]
    /\ lock \in Claimers \cup {NoLock}
    /\ claim \in [Claimers -> Claim]

(* Every worktree starts from one commit, with nothing in progress. *)
SlotsInit ==
    /\ \E main \in [Cards -> {"planning", "backlog", "done"}] :
        stage = [w \in Worktrees |-> main]
    /\ parked = [w \in Worktrees |-> [c \in Cards |-> "no"]]
    /\ lock = NoLock
    /\ claim = [p \in Claimers |-> NoClaim]

Fits(w, c) == Track[c] \in BoundTracks => Track[c] = Binding[w]

Deps(w, c) == DependsOn[c] \cup {d \in {Blocker} : parked[w][c] # "no"}

(* check_track_slots over <<worktree, folder, card>>: a card of each track, *)
(* or a shared card alone.                                                  *)
SlotsOk(found) ==
    \A x, y \in found : x # y =>
        /\ {Track[x[2]], Track[y[2]]} \subseteq BoundTracks
        /\ Track[x[2]] # Track[y[2]]

-----------------------------------------------------------------------------
Proceed(p, step) == claim' = [claim EXCEPT ![p].step = step]

Leave(p) == claim' = [claim EXCEPT ![p] = NoClaim]

Begin(p) ==
    /\ claim[p].step = "out"
    /\ Proceed(p, "waiting")
    /\ UNCHANGED <<stage, parked, lock>>

(* O_CREAT | O_EXCL.  What is claimed makes no difference before this. *)
Lock(p) ==
    /\ claim[p].step = "waiting" /\ lock = NoLock
    /\ lock' = p
    /\ \E w \in Worktrees, c \in Cards, resume \in BOOLEAN :
        claim' = [claim EXCEPT ![p] = [step |-> "reading", root |-> w, card |-> c,
                                       resume |-> resume, todo |-> Reads, seen |-> {}]]
    /\ UNCHANGED <<stage, parked>>

(* Variant: the finally block covers the wait as well. *)
Timeout_Unlinks(p) ==
    /\ claim[p].step = "waiting" /\ lock # NoLock
    /\ lock' = NoLock
    /\ Leave(p)
    /\ UNCHANGED <<stage, parked>>

(* Busy: the wait is over, exit 3. *)
Timeout(p) ==
    /\ claim[p].step = "waiting" /\ lock # NoLock
    /\ Leave(p)
    /\ UNCHANGED <<stage, parked, lock>>

(* Variant: review/ is read before active/. *)
ReadFolder_ReviewFirst(p) ==
    /\ claim[p].step = "reading"
    /\ \E read \in claim[p].todo :
        /\ read[2] = "active" => <<read[1], "review">> \notin claim[p].todo
        /\ claim' = [claim EXCEPT
                       ![p].todo = @ \ {read},
                       ![p].seen = @ \cup {<<read, c>> : c \in
                                             {c \in Cards : stage[read[1]][c] = read[2]}},
                       ![p].step = IF claim[p].todo = {read} THEN "deciding" ELSE @]
    /\ UNCHANGED <<stage, parked, lock>>

(* load_worktree reads active/ and then review/ of each worktree; in which  *)
(* order the worktrees come makes no difference.                            *)
ReadFolder(p) ==
    /\ claim[p].step = "reading"
    /\ \E read \in claim[p].todo :
        /\ read[2] = "review" => <<read[1], "active">> \notin claim[p].todo
        /\ claim' = [claim EXCEPT
                       ![p].todo = @ \ {read},
                       ![p].seen = @ \cup {<<read, c>> : c \in
                                             {c \in Cards : stage[read[1]][c] = read[2]}},
                       ![p].step = IF claim[p].todo = {read} THEN "deciding" ELSE @]
    /\ UNCHANGED <<stage, parked, lock>>

(* check_worktree_bindings over what was read. *)
BindingsOk(seen) ==
    /\ \A v, w \in Worktrees : v # w /\ Binding[v] = Binding[w] => Binding[v] = "unbound"
    /\ \A x \in seen : Binding[x[1][1]] # "unbound" => Fits(x[1][1], x[2])

(* Variant: a parked card resumes without another look at its dependencies. *)
Allowed_TrustsParked(r) ==
    /\ BindingsOk(r.seen) /\ Binding[r.root] # "unbound" /\ Fits(r.root, r.card)
    /\ stage[r.root][r.card] = IF r.resume THEN "planning" ELSE "backlog"
    /\ r.resume \/ \A d \in Deps(r.root, r.card) : stage[r.root][d] = "done"
    /\ r.resume => parked[r.root][r.card] = "parked"
    /\ SlotsOk(r.seen \cup {<<<<r.root, "candidate">>, r.card>>})

(* The checks on the candidate, with the root's own cards read again. *)
Allowed(r) ==
    /\ BindingsOk(r.seen) /\ Binding[r.root] # "unbound" /\ Fits(r.root, r.card)
    /\ stage[r.root][r.card] = IF r.resume THEN "planning" ELSE "backlog"
    /\ \A d \in Deps(r.root, r.card) : stage[r.root][d] = "done"
    /\ r.resume => parked[r.root][r.card] = "parked"
    /\ SlotsOk(r.seen \cup {<<<<r.root, "candidate">>, r.card>>})

Decide(p) ==
    /\ claim[p].step = "deciding"
    /\ claim' = [claim EXCEPT ![p].step = IF Allowed(claim[p]) THEN "moving" ELSE "leaving",
                              ![p].seen = {}]
    /\ UNCHANGED <<stage, parked, lock>>

(* os.replace raises when the card left its folder after the check. *)
Move(p) ==
    LET r == claim[p] IN
    /\ r.step = "moving"
    /\ stage' = IF stage[r.root][r.card] = (IF r.resume THEN "planning" ELSE "backlog")
                THEN [stage EXCEPT ![r.root][r.card] = "active"]
                ELSE stage
    /\ Proceed(p, "leaving")
    /\ UNCHANGED <<parked, lock>>

(* _unlink_own_lock, in the finally block: whatever file is there. *)
Unlock(p) ==
    /\ claim[p].step = "leaving"
    /\ lock' = NoLock
    /\ Leave(p)
    /\ UNCHANGED <<stage, parked>>

Kill(p) ==
    /\ claim[p].step \in Inside
    /\ claim' = [claim EXCEPT ![p] = [NoClaim EXCEPT !.step = "killed"]]
    /\ UNCHANGED <<stage, parked, lock>>

(* The owner checks the holder that Busy reports, and deletes its lock. *)
RemoveOrphan(p) ==
    /\ claim[p].step = "killed" /\ lock = p
    /\ lock' = NoLock
    /\ Leave(p)
    /\ UNCHANGED <<stage, parked>>

-----------------------------------------------------------------------------
(* The moves nobody locks: the workflow's skills and the owner. *)
MoveCard(w, c, from, to) ==
    /\ stage[w][c] \in from
    /\ stage' = [stage EXCEPT ![w][c] = to]
    /\ UNCHANGED <<lock, claim>>

Prepare(w, c) ==
    MoveCard(w, c, {"planning"}, "backlog") /\ parked[w][c] # "parked" /\ UNCHANGED parked

Withdraw(w, c) == MoveCard(w, c, {"backlog"}, "planning") /\ UNCHANGED parked

(* A card that waits for its Resumed note stays in active. *)
Submit(w, c) ==
    MoveCard(w, c, {"active"}, "review") /\ parked[w][c] # "parked" /\ UNCHANGED parked

Close(w, c) == MoveCard(w, c, {"review"}, "done") /\ UNCHANGED parked

Park(w, c) ==
    /\ Track[c] \in BoundTracks
    /\ MoveCard(w, c, InProgress, "planning")
    /\ parked' = [parked EXCEPT ![w][c] = "parked"]

NoteResumed(w, c) ==
    /\ stage[w][c] = "active" /\ parked[w][c] = "parked"
    /\ parked' = [parked EXCEPT ![w][c] = "resumed"]
    /\ UNCHANGED <<stage, lock, claim>>

(* git: a worktree takes over what another has finished. *)
Pull(w, c) ==
    /\ \E v \in Worktrees : stage[v][c] = "done"
    /\ MoveCard(w, c, {"planning", "backlog"}, "done")
    /\ UNCHANGED parked

SlotsNext ==
    \/ \E p \in Claimers :
        \/ Begin(p) \/ Lock(p) \/ Timeout(p) \/ ReadFolder(p) \/ Decide(p)
        \/ Move(p) \/ Unlock(p) \/ Kill(p) \/ RemoveOrphan(p)
    \/ \E w \in Worktrees, c \in Cards :
        \/ Prepare(w, c) \/ Withdraw(w, c) \/ Submit(w, c) \/ Close(w, c)
        \/ Park(w, c) \/ NoteResumed(w, c) \/ Pull(w, c)

SlotsSpec == SlotsInit /\ [][SlotsNext]_slotVars

-----------------------------------------------------------------------------
InProgressCards == {x \in Worktrees \X Cards : stage[x[1]][x[2]] \in InProgress}

(* At most one card per track is in progress over all the worktrees, and a   *)
(* shared card is alone, although a claim reads the folders one by one while *)
(* cards move between them, and is killed at any point; and a worktree works *)
(* on cards of its own track, or shared ones.                                *)
SlotsRespected ==
    /\ SlotsTypeOK
    /\ SlotsOk(InProgressCards)
    /\ \A x \in InProgressCards : Fits(x[1], x[2])

(* A card never starts before what it depends on is done, resumed or not.    *)
StartedDepsDone ==
    \A x \in InProgressCards : \A d \in Deps(x[1], x[2]) : stage[x[1]][d] = "done"

(* The lock is the holder's until it leaves, is killed, or the owner steps   *)
(* in: no claim that gives up or ends takes another one's lock away.         *)
HolderKeepsLock == \A p \in Claimers : claim[p].step \in Inside \cup {"killed"} => lock = p
=============================================================================
