------------------------- MODULE CacheWriterProofs -------------------------
(***************************************************************************)
(* Proofs about CacheWriter, for any set of concurrent write calls.        *)
(*                                                                         *)
(* The properties are not inductive: that a rollback cannot unlink another *)
(* call's body, for instance, rests on what every other call's control     *)
(* state says about the page.  IInv adds exactly that.                     *)
(***************************************************************************)
EXTENDS CacheWriter, TaskSlots, TLAPS

(* Where a call is while its body is at the final path. *)
HoldsBody(w) ==
    \/ pc[w] \in {"publish_sidecar", "stat", "unlink", "written", "interrupted", "crashed"}
    \/ pc[w] \in {"clean", "unclean"} /\ ending[w] # "failed"

(* Where a call is while its sidecar is at the sidecar path. *)
HoldsSidecar(w) ==
    \/ pc[w] \in {"written", "interrupted", "crashed"}
    \/ pc[w] \in {"clean", "unclean"} /\ ending[w] # "failed"

(* A body is at the final path only while its call holds it. *)
BodyIsHeld == \A w \in Writers : body = w => HoldsBody(w)

(* Between publishing and the end of a rollback the body is still there. *)
PublishedIsThere ==
    \A w \in Writers : pc[w] \in {"publish_sidecar", "stat", "unlink"} => body = w

(* A new sidecar belongs to the body and to a call that has written it. *)
SidecarIsHeld ==
    \A w \in Writers : sidecar = w => body = w /\ HoldsSidecar(w)

(* A call on its way to return has its page, whether it gets there or not. *)
WrittenHasPage ==
    \A w \in Writers :
        pc[w] = "written" \/ (pc[w] \in {"clean", "unclean"} /\ ending[w] = "written")
            => body = w /\ (w \in WithMetadata => sidecar = w)

(* A call past the existence checks saw no sidecar, and an old one never    *)
(* comes back.                                                              *)
NoOldSidecar ==
    \A w \in Writers :
        pc[w] \notin {"check_body", "check_sidecar", "failed"} => sidecar # Old

(* Only calls on the way to publishing have temp names, and every call that *)
(* came to the end of its cleaning removed them.                            *)
TempsAreRemoved ==
    \A w \in Writers :
        pc[w] \in {"check_body", "check_sidecar", "written", "failed", "interrupted"} =>
            <<"body", w>> \notin temps /\ <<"sidecar", w>> \notin temps

(* Only a call with metadata reaches the sidecar steps. *)
SidecarStepsNeedMetadata ==
    \A w \in Writers :
        pc[w] \in {"write_sidecar", "publish_sidecar"} => w \in WithMetadata

(* The inductive invariant. *)
IInv ==
    /\ TypeOK
    /\ BodyIsHeld
    /\ PublishedIsThere
    /\ SidecarIsHeld
    /\ WrittenHasPage
    /\ NoOldSidecar
    /\ TempsAreRemoved
    /\ SidecarStepsNeedMetadata

-----------------------------------------------------------------------------
(* Every initial page satisfies the inductive invariant. *)
LEMMA InitIInv == Init => IInv
BY FilesAssumption
DEF Init, IInv, TypeOK, Files, Steps, Final, BodyIsHeld, PublishedIsThere, SidecarIsHeld,
    WrittenHasPage, NoOldSidecar, TempsAreRemoved, SidecarStepsNeedMetadata,
    HoldsBody, HoldsSidecar

(* A step of one call keeps the types. *)
LEMMA StepTypeOK ==
    ASSUME TypeOK, NEW w \in Writers, Work(w) \/ Fault(w)
    PROVE  TypeOK'
<1> USE FilesAssumption DEF TypeOK, Files, Steps, Final, InTry, GoTo, CleanThen, RaiseInTry
<1>1. CASE CheckBody(w)         BY <1>1 DEF CheckBody
<1>2. CASE CheckSidecar(w)      BY <1>2 DEF CheckSidecar
<1>3. CASE WriteBodyTemp(w)     BY <1>3 DEF WriteBodyTemp
<1>4. CASE WriteSidecarTemp(w)  BY <1>4 DEF WriteSidecarTemp
<1>5. CASE PublishBody(w)       BY <1>5 DEF PublishBody
<1>6. CASE PublishSidecar(w)    BY <1>6 DEF PublishSidecar
<1>7. CASE StatBody(w)          BY <1>7 DEF StatBody
<1>8. CASE UnlinkBody(w)        BY <1>8 DEF UnlinkBody
<1>9. CASE RemoveTemps(w)       BY <1>9 DEF RemoveTemps
<1>10. CASE IOError(w)          BY <1>10 DEF IOError
<1>11. CASE Interrupt(w)        BY <1>11 DEF Interrupt
<1>12. CASE CleanFails(w)       BY <1>12 DEF CleanFails
<1>13. CASE Crash(w)            BY <1>13 DEF Crash
<1> QED
    BY <1>1, <1>2, <1>3, <1>4, <1>5, <1>6, <1>7, <1>8, <1>9, <1>10, <1>11, <1>12, <1>13
    DEF Work, Fault

(* A step of one call keeps the rest of the invariant: for the call itself  *)
(* by its control state, for another call because the page can only change *)
(* from empty, or by the call whose body it is.                            *)
LEMMA StepIInv ==
    ASSUME IInv, NEW w \in Writers, Work(w) \/ Fault(w)
    PROVE  IInv'
<1>1. TypeOK'
    BY StepTypeOK DEF IInv
<1> USE <1>1, FilesAssumption
    DEF IInv, TypeOK, Files, Steps, Final, InTry, GoTo, CleanThen, RaiseInTry, BodyIsHeld,
        PublishedIsThere, SidecarIsHeld, WrittenHasPage, NoOldSidecar, TempsAreRemoved,
        SidecarStepsNeedMetadata, HoldsBody, HoldsSidecar
<1>2. CASE CheckBody(w)         BY <1>2 DEF CheckBody
<1>3. CASE CheckSidecar(w)      BY <1>3 DEF CheckSidecar
<1>4. CASE WriteBodyTemp(w)     BY <1>4 DEF WriteBodyTemp
<1>5. CASE WriteSidecarTemp(w)  BY <1>5 DEF WriteSidecarTemp
<1>6. CASE PublishBody(w)       BY <1>6 DEF PublishBody
<1>7. CASE PublishSidecar(w)    BY <1>7 DEF PublishSidecar
<1>8. CASE StatBody(w)          BY <1>8 DEF StatBody
<1>9. CASE UnlinkBody(w)        BY <1>9 DEF UnlinkBody
<1>10. CASE RemoveTemps(w)      BY <1>10 DEF RemoveTemps
<1>11. CASE IOError(w)          BY <1>11 DEF IOError
<1>12. CASE Interrupt(w)        BY <1>12 DEF Interrupt
<1>13. CASE CleanFails(w)       BY <1>13 DEF CleanFails
<1>14. CASE Crash(w)            BY <1>14 DEF Crash
<1> QED
    BY <1>2, <1>3, <1>4, <1>5, <1>6, <1>7, <1>8, <1>9, <1>10, <1>11, <1>12, <1>13, <1>14
    DEF Work, Fault

(* The inductive invariant holds in every reachable state. *)
THEOREM Invariance == Spec => []IInv
<1>1. IInv /\ [Next]_vars => IInv'
    <2> SUFFICES ASSUME IInv, [Next]_vars PROVE IInv'
        OBVIOUS
    <2>1. CASE UNCHANGED vars
        BY <2>1
        DEF vars, IInv, TypeOK, Files, BodyIsHeld, PublishedIsThere, SidecarIsHeld,
            WrittenHasPage, NoOldSidecar, TempsAreRemoved, SidecarStepsNeedMetadata,
            HoldsBody, HoldsSidecar
    <2>2. CASE Next
        BY <2>2, StepIInv DEF Next
    <2> QED
        BY <2>1, <2>2
<1> QED
    BY InitIInv, <1>1, PTL DEF Spec

-----------------------------------------------------------------------------
(* In every reachable state the types are right. *)
THEOREM TypeCorrect == Spec => []TypeOK
<1>1. IInv => TypeOK
    BY DEF IInv
<1> QED
    BY <1>1, Invariance, PTL

(* For any number of concurrent calls, a sidecar beside a body describes it. *)
THEOREM SidecarTheorem == Spec => []SidecarDescribesBody
<1>1. IInv => SidecarDescribesBody
    BY FilesAssumption
    DEF IInv, TypeOK, Files, SidecarDescribesBody, SidecarIsHeld, BodyIsHeld, HoldsBody,
        NoOldSidecar
<1> QED
    BY <1>1, Invariance, PTL

(* For any number of concurrent calls, a page that was returned stays. *)
THEOREM WrittenTheorem == Spec => []WrittenIsKept
<1>1. IInv => WrittenIsKept
    BY DEF IInv, WrittenIsKept, WrittenHasPage
<1> QED
    BY <1>1, Invariance, PTL

(* For any number of concurrent calls, one that raised left no half of a     *)
(* page, and one that cleaned up left nothing else.                         *)
THEOREM RaisedTheorem == Spec => []RaisedLeftNoHalf
<1>1. IInv => RaisedLeftNoHalf
    BY DEF IInv, RaisedLeftNoHalf, WrittenHasPage, BodyIsHeld, HoldsBody, SidecarIsHeld, HoldsSidecar,
           TempsAreRemoved
<1> QED
    BY <1>1, Invariance, PTL

-----------------------------------------------------------------------------
(* Without a fault no call rolls back, and a call that gave up did so        *)
(* because the page was there or an orphan sidecar was.                      *)
UnfaultedCall(w) ==
    /\ pc[w] \notin {"stat", "unlink", "interrupted", "unclean", "crashed"}
    /\ pc[w] = "clean" => ending[w] # "interrupted"
    /\ pc[w] = "failed" \/ (pc[w] = "clean" /\ ending[w] = "failed")
            => body # None \/ sidecar = Old

GaveUpForAReason == ~faulted => \A w \in Writers : UnfaultedCall(w)

(* One step keeps the reason: a body goes away only in a rollback, which     *)
(* needs a fault, because the sidecar of a published body is never refused.  *)
LEMMA StepGaveUp ==
    ASSUME IInv, GaveUpForAReason, NEW w \in Writers, Work(w) \/ Fault(w)
    PROVE  GaveUpForAReason'
<1> USE FilesAssumption
    DEF IInv, TypeOK, Files, Steps, Final, InTry, GoTo, CleanThen, RaiseInTry, BodyIsHeld,
        PublishedIsThere, SidecarIsHeld, NoOldSidecar, HoldsBody, HoldsSidecar,
        GaveUpForAReason, UnfaultedCall
<1>1. CASE CheckBody(w)         BY <1>1 DEF CheckBody
<1>2. CASE CheckSidecar(w)      BY <1>2 DEF CheckSidecar
<1>3. CASE WriteBodyTemp(w)     BY <1>3 DEF WriteBodyTemp
<1>4. CASE WriteSidecarTemp(w)  BY <1>4 DEF WriteSidecarTemp
<1>5. CASE PublishBody(w)       BY <1>5 DEF PublishBody
<1>6. CASE PublishSidecar(w)    BY <1>6 DEF PublishSidecar
<1>7. CASE StatBody(w)          BY <1>7 DEF StatBody
<1>8. CASE UnlinkBody(w)        BY <1>8 DEF UnlinkBody
<1>9. CASE RemoveTemps(w)       BY <1>9 DEF RemoveTemps
<1>10. CASE Fault(w)            BY <1>10 DEF Fault, IOError, Interrupt, CleanFails, Crash
<1> QED
    BY <1>1, <1>2, <1>3, <1>4, <1>5, <1>6, <1>7, <1>8, <1>9, <1>10 DEF Work

(* For any number of concurrent calls: they do not refuse one another until  *)
(* nobody has written the page.                                              *)
THEOREM SomeoneWinsTheorem == Spec => []SomeoneWins
<1>1. Init => GaveUpForAReason
    BY DEF Init, GaveUpForAReason, UnfaultedCall
<1>2. IInv /\ GaveUpForAReason /\ [Next]_vars => GaveUpForAReason'
    BY StepGaveUp DEF Next, vars, GaveUpForAReason, UnfaultedCall
<1>3. IInv /\ GaveUpForAReason => SomeoneWins
    BY FilesAssumption
    DEF IInv, WrittenHasPage, GaveUpForAReason, UnfaultedCall, SomeoneWins, Final
<1> QED
    BY <1>1, <1>2, <1>3, Invariance, PTL DEF Spec

-----------------------------------------------------------------------------
(* Every initial state of the writer is one of the page store. *)
LEMMA InitRefines == Init => Store!Init
BY DEF Init, Store!Init, Outcome, Final

(* A call that ends or is killed makes the store's End step. *)
LEMMA EndRefines ==
    ASSUME IInv, NEW w \in Writers, NEW end \in Final, Outcome(w) = "pending",
           pc' = [pc EXCEPT ![w] = end], UNCHANGED <<body, sidecar>>,
           end = "written" => Store!Owns(w),
           end = "failed" => Store!LeftNothing(w)
    PROVE  Store!End(w)
<1> DEFINE outcome == [v \in Writers |-> Outcome(v)]
           o == IF end \in {"written", "failed"} THEN end ELSE "abandoned"
<1>1. outcome' = [outcome EXCEPT ![w] = o]
    BY DEF IInv, TypeOK, Outcome, Final
<1>2. o \in {"written", "failed", "abandoned"} /\ outcome[w] = "pending"
    BY DEF Outcome
<1>3. (o = "written" => Store!Owns(w)) /\ (o = "failed" => Store!LeftNothing(w))
    OBVIOUS
<1> HIDE DEF outcome, o
<1> QED
    BY <1>1, <1>2, <1>3 DEF Store!End, outcome

(* Every step of a call is a step of the page store, or leaves it unchanged. *)
LEMMA StepRefines ==
    ASSUME IInv, NEW w \in Writers, Work(w) \/ Fault(w)
    PROVE  Store!Next \/ UNCHANGED Store!vars
<1> USE FilesAssumption
    DEF IInv, TypeOK, Files, Steps, Final, InTry, GoTo, CleanThen, RaiseInTry, Outcome,
        Store!vars
<1>1. CASE CheckBody(w)
    <2>1. CASE body # None
        BY <1>1, <2>1, EndRefines
        DEF CheckBody, Store!Next, Store!LeftNothing, BodyIsHeld, HoldsBody, SidecarIsHeld,
            HoldsSidecar
    <2> QED
        BY <1>1, <2>1 DEF CheckBody
<1>2. CASE CheckSidecar(w)
    <2>1. CASE sidecar # None
        BY <1>2, <2>1, EndRefines
        DEF CheckSidecar, Store!Next, Store!LeftNothing, BodyIsHeld, HoldsBody,
            SidecarIsHeld, HoldsSidecar
    <2> QED
        BY <1>2, <2>1 DEF CheckSidecar
<1>3. CASE WriteBodyTemp(w)     BY <1>3 DEF WriteBodyTemp
<1>4. CASE WriteSidecarTemp(w)  BY <1>4 DEF WriteSidecarTemp
<1>5. CASE PublishBody(w)
    <2>1. sidecar \notin {Old} \cup Writers \/ body # None
        BY <1>5 DEF PublishBody, NoOldSidecar, SidecarIsHeld
    <2>2. CASE body = None
        BY <1>5, <2>1, <2>2 DEF PublishBody, Store!Next, Store!PutBody
    <2> QED
        BY <1>5, <2>2 DEF PublishBody
<1>6. CASE PublishSidecar(w)
    <2>1. body = w /\ w \in WithMetadata
        BY <1>6 DEF PublishSidecar, PublishedIsThere, SidecarStepsNeedMetadata
    <2>2. CASE sidecar = None
        BY <1>6, <2>1, <2>2 DEF PublishSidecar, Store!Next, Store!PutSidecar
    <2> QED
        BY <1>6, <2>2 DEF PublishSidecar
<1>7. CASE StatBody(w)          BY <1>7 DEF StatBody
<1>8. CASE UnlinkBody(w)
    <2>1. body = w /\ sidecar = None
        BY <1>8 DEF UnlinkBody, PublishedIsThere, SidecarIsHeld, HoldsSidecar, NoOldSidecar
    <2> QED
        BY <1>8, <2>1 DEF UnlinkBody, Store!Next, Store!TakeBack
<1>9. CASE RemoveTemps(w)
    <2>1. ending[w] = "written" => Store!Owns(w)
        BY <1>9 DEF RemoveTemps, WrittenHasPage, Store!Owns
    <2>2. ending[w] = "failed" => Store!LeftNothing(w)
        BY <1>9
        DEF RemoveTemps, BodyIsHeld, HoldsBody, SidecarIsHeld, HoldsSidecar,
            Store!LeftNothing
    <2> QED
        BY <1>9, <2>1, <2>2, EndRefines DEF RemoveTemps, Store!Next
<1>10. CASE IOError(w)          BY <1>10 DEF IOError
<1>11. CASE Interrupt(w)        BY <1>11 DEF Interrupt
<1>12. CASE CleanFails(w)       BY <1>12, EndRefines DEF CleanFails, Store!Next
<1>13. CASE Crash(w)            BY <1>13, EndRefines DEF Crash, Store!Next
<1> QED
    BY <1>1, <1>2, <1>3, <1>4, <1>5, <1>6, <1>7, <1>8, <1>9, <1>10, <1>11, <1>12, <1>13
    DEF Work, Fault

(* The concurrent cache writer implements the never-overwrite page store.   *)
THEOREM Refinement == Spec => ImplementsPageStore
<1>1. IInv /\ [Next]_vars => [Store!Next]_(Store!vars)
    BY StepRefines DEF Next, vars, Store!vars, Outcome
<1> QED
    BY InitRefines, <1>1, Invariance, PTL DEF Spec, Store!Spec, ImplementsPageStore

-----------------------------------------------------------------------------
(***************************************************************************)
(* Proofs about TaskSlots, the other protocol of concurrent processes that *)
(* excludes by creating a file, for any worktrees, cards, tracks,          *)
(* dependencies and claims at once.                                        *)
(*                                                                         *)
(* SlotsRespected is not inductive: a claim decides on folders it read one *)
(* after the other, while cards move.  SlotsIInv says what its reading is  *)
(* worth at every point: a card in progress was seen, or the folder it is  *)
(* in is still to be read.                                                 *)
(***************************************************************************)

(* The claim has read this worktree's card in one of its folders. *)
Seen(p, w, c) == \E folder \in InProgress : <<<<w, folder>>, c>> \in claim[p].seen

(* A card in progress was seen, or its folder is still to be read. *)
SeenOrToBeRead ==
    \A p \in Claimers, w \in Worktrees, c \in Cards :
        /\ claim[p].step \in {"reading", "deciding"}
        /\ stage[w][c] \in InProgress
        => <<w, stage[w][c]>> \in claim[p].todo \/ Seen(p, w, c)

(* Review comes after active, so that a card submitted meanwhile is met. *)
ReviewIsLast ==
    \A p \in Claimers, w \in Worktrees :
        claim[p].step = "reading" /\ <<w, "active">> \in claim[p].todo
            => <<w, "review">> \in claim[p].todo

AllWasRead == \A p \in Claimers : claim[p].step = "deciding" => claim[p].todo = {}

(* The card a claim is about to move fits, is ready and leaves room for no   *)
(* other.                                                                    *)
MayMove(w, c) ==
    /\ stage[w][c] \notin InProgress
    /\ Fits(w, c)
    /\ \A d \in Deps(w, c) : stage[w][d] = "done"
    /\ SlotsOk(InProgressCards \cup {<<w, c>>})

DecisionHolds ==
    \A p \in Claimers : claim[p].step = "moving" => MayMove(claim[p].root, claim[p].card)

ReadingInv == SeenOrToBeRead /\ ReviewIsLast /\ AllWasRead

(* The inductive invariant. *)
SlotsIInv ==
    /\ SlotsRespected
    /\ StartedDepsDone
    /\ HolderKeepsLock
    /\ ReadingInv
    /\ DecisionHolds

-----------------------------------------------------------------------------
(* The claim of a process outside is one. *)
LEMMA NoClaimIsClaim == NoClaim \in Claim
BY TracksAssumption DEF NoClaim, Claim

(* A killed process's claim is one. *)
LEMMA KilledIsClaim == [NoClaim EXCEPT !.step = "killed"] \in Claim
BY NoClaimIsClaim DEF Claim

(* A claim moved to its next step is a claim. *)
LEMMA ProceedIsClaim ==
    ASSUME SlotsTypeOK, NEW p \in Claimers, NEW step \in {"waiting", "moving", "leaving"}, Proceed(p, step)
    PROVE  claim' \in [Claimers -> Claim]
BY DEF SlotsTypeOK, Proceed, Claim

(* A claim that goes on with other folders read is a claim. *)
LEMMA RecordIsClaim ==
    ASSUME NEW r \in Claim, NEW step \in {"reading", "deciding", "moving", "leaving"},
           NEW todo \in SUBSET Reads, NEW seen \in SUBSET (Reads \X Cards)
    PROVE  /\ [r EXCEPT !.todo = todo, !.seen = seen, !.step = step] \in Claim
           /\ [r EXCEPT !.step = step, !.seen = seen] \in Claim
<1> HIDE DEF Reads
<1> QED
    BY DEF Claim

(* Fewer cards in progress leave the slots respected. *)
LEMMA SlotsOkSubset ==
    ASSUME NEW S, NEW T \in SUBSET S, SlotsOk(S)
    PROVE  SlotsOk(T)
BY DEF SlotsOk

(* Claims at once keep the types. *)
LEMMA ClaimTypeOK ==
    ASSUME SlotsTypeOK, NEW p \in Claimers,
           \/ Begin(p) \/ Lock(p) \/ Timeout(p) \/ ReadFolder(p) \/ Decide(p)
           \/ Move(p) \/ Unlock(p) \/ Kill(p) \/ RemoveOrphan(p)
    PROVE  SlotsTypeOK'
<1>1. CASE Begin(p)
    BY <1>1, ProceedIsClaim DEF Begin, SlotsTypeOK
<1>2. CASE Lock(p)
    <2>1. PICK w \in Worktrees, c \in Cards, resume \in BOOLEAN :
            claim' = [claim EXCEPT ![p] = [step |-> "reading", root |-> w, card |-> c,
                                           resume |-> resume, todo |-> Reads, seen |-> {}]]
        BY <1>2 DEF Lock
    <2>2. [step |-> "reading", root |-> w, card |-> c,
           resume |-> resume, todo |-> Reads, seen |-> {}] \in Claim
        BY DEF Claim
    <2> QED
        BY <1>2, <2>1, <2>2 DEF Lock, SlotsTypeOK
<1>3. CASE Timeout(p)
    BY <1>3, NoClaimIsClaim DEF Timeout, Leave, SlotsTypeOK
<1>4. CASE ReadFolder(p)
    <2>1. PICK read \in claim[p].todo :
        claim' = [claim EXCEPT
                       ![p].todo = @ \ {read},
                       ![p].seen = @ \cup {<<read, c>> : c \in
                                             {c \in Cards : stage[read[1]][c] = read[2]}},
                       ![p].step = IF claim[p].todo = {read} THEN "deciding" ELSE @]
        BY <1>4 DEF ReadFolder
    <2>2. read \in Reads
        BY DEF SlotsTypeOK, Claim
    <2>3. {<<read, c>> : c \in {c \in Cards : stage[read[1]][c] = read[2]}}
            \subseteq Reads \X Cards
        BY <2>2
    <2>4. PICK todo \in SUBSET Reads, seen \in SUBSET (Reads \X Cards),
               step \in {"reading", "deciding"} :
            claim' = [claim EXCEPT ![p].todo = todo, ![p].seen = seen, ![p].step = step]
        <3>1. claim[p] \in Claim
            BY DEF SlotsTypeOK
        <3> DEFINE todo == claim[p].todo \ {read}
                   seen == claim[p].seen \cup {<<read, c>> : c \in
                                           {c \in Cards : stage[read[1]][c] = read[2]}}
                   step == IF claim[p].todo = {read} THEN "deciding" ELSE claim[p].step
        <3>2. todo \in SUBSET Reads /\ seen \in SUBSET (Reads \X Cards)
            BY <2>3, <3>1 DEF Claim
        <3>3. step \in {"reading", "deciding"}
            BY <1>4 DEF ReadFolder
        <3>4. claim' = [claim EXCEPT ![p].todo = todo, ![p].seen = seen, ![p].step = step]
            BY <2>1
        <3> HIDE DEF todo, seen, step
        <3> QED
            BY <3>2, <3>3, <3>4
    <2>5. claim' \in [Claimers -> Claim]
        BY <2>4, RecordIsClaim DEF SlotsTypeOK
    <2> QED
        BY <1>4, <2>5 DEF ReadFolder, SlotsTypeOK
<1>5. CASE Decide(p)
    <2>1. PICK step \in {"moving", "leaving"} :
            claim' = [claim EXCEPT ![p].step = step, ![p].seen = {}]
        BY <1>5, Zenon DEF Decide
    <2>2. claim' \in [Claimers -> Claim]
        BY <2>1, RecordIsClaim DEF SlotsTypeOK
    <2> QED
        BY <1>5, <2>2 DEF Decide, SlotsTypeOK
<1>6. CASE Move(p)
    <2>1. claim[p] \in Claim
        BY DEF SlotsTypeOK
    <2>2. stage' \in [Worktrees -> [Cards -> Stages]]
        BY <1>6, <2>1 DEF Move, SlotsTypeOK, Claim, Stages
    <2> QED
        BY <1>6, <2>2, ProceedIsClaim DEF Move, SlotsTypeOK
<1>7. CASE Unlock(p)
    BY <1>7, NoClaimIsClaim DEF Unlock, Leave, SlotsTypeOK
<1>8. CASE Kill(p)
    BY <1>8, KilledIsClaim DEF Kill, SlotsTypeOK
<1>9. CASE RemoveOrphan(p)
    BY <1>9, NoClaimIsClaim DEF RemoveOrphan, Leave, SlotsTypeOK
<1> QED
    BY <1>1, <1>2, <1>3, <1>4, <1>5, <1>6, <1>7, <1>8, <1>9

(* No claim that ends, gives up or is killed takes another one's lock away. *)
LEMMA ClaimKeepsLock ==
    ASSUME SlotsTypeOK, HolderKeepsLock, NEW p \in Claimers,
           \/ Begin(p) \/ Lock(p) \/ Timeout(p) \/ ReadFolder(p) \/ Decide(p)
           \/ Move(p) \/ Unlock(p) \/ Kill(p) \/ RemoveOrphan(p)
    PROVE  HolderKeepsLock'
<1> USE TracksAssumption DEF SlotsTypeOK, HolderKeepsLock, Inside, NoClaim
<1>1. \A q \in Claimers \ {p} : claim'[q] = claim[q]
    BY DEF Begin, Lock, Timeout, ReadFolder, Decide, Move, Unlock, Kill, RemoveOrphan, Proceed,
           Leave
<1>2. CASE Begin(p)         BY <1>2 DEF Begin, Proceed, Claim
<1>3. CASE Lock(p)          BY <1>1, <1>3 DEF Lock
<1>4. CASE Timeout(p)       BY <1>4 DEF Timeout, Leave
<1>5. CASE ReadFolder(p)    BY <1>1, <1>5 DEF ReadFolder
<1>6. CASE Decide(p)        BY <1>1, <1>6 DEF Decide
<1>7. CASE Move(p)          BY <1>1, <1>7 DEF Move
<1>8. CASE Unlock(p)        BY <1>8 DEF Unlock, Leave
<1>9. CASE Kill(p)          BY <1>1, <1>9 DEF Kill
<1>10. CASE RemoveOrphan(p) BY <1>10 DEF RemoveOrphan, Leave
<1> QED
    BY <1>2, <1>3, <1>4, <1>5, <1>6, <1>7, <1>8, <1>9, <1>10

-----------------------------------------------------------------------------
ClaimStep(p) ==
    \/ Begin(p) \/ Lock(p) \/ Timeout(p) \/ ReadFolder(p) \/ Decide(p)
    \/ Move(p) \/ Unlock(p) \/ Kill(p) \/ RemoveOrphan(p)

CardStep(w, c) ==
    \/ Prepare(w, c) \/ Withdraw(w, c) \/ Submit(w, c) \/ Close(w, c)
    \/ Park(w, c) \/ NoteResumed(w, c) \/ Pull(w, c)

(* What nobody locks never puts a card in progress, takes none back from     *)
(* done, and moves none from review to active.                               *)
OnlyForward ==
    \A w \in Worktrees, c \in Cards :
        /\ stage'[w][c] \in InProgress =>
             /\ stage[w][c] \in InProgress
             /\ stage'[w][c] = stage[w][c] \/ stage'[w][c] = "review"
        /\ stage[w][c] = "done" => stage'[w][c] = "done"
        /\ stage[w][c] \notin InProgress \/ stage'[w][c] \in InProgress
             => Deps(w, c)' = Deps(w, c)

(* Every move without the lock only goes forward, and keeps the types.      *)
LEMMA CardGoesForward ==
    ASSUME SlotsTypeOK, NEW w \in Worktrees, NEW c \in Cards, CardStep(w, c)
    PROVE  SlotsTypeOK' /\ OnlyForward /\ UNCHANGED <<lock, claim>>
<1> USE TracksAssumption DEF SlotsTypeOK, Stages, InProgress, OnlyForward, MoveCard, Deps
<1>1. CASE Prepare(w, c)     BY <1>1 DEF Prepare
<1>2. CASE Withdraw(w, c)    BY <1>2 DEF Withdraw
<1>3. CASE Submit(w, c)      BY <1>3 DEF Submit
<1>4. CASE Close(w, c)       BY <1>4 DEF Close
<1>5. CASE Park(w, c)        BY <1>5 DEF Park
<1>6. CASE NoteResumed(w, c) BY <1>6 DEF NoteResumed
<1>7. CASE Pull(w, c)        BY <1>7 DEF Pull
<1> QED
    BY <1>1, <1>2, <1>3, <1>4, <1>5, <1>6, <1>7 DEF CardStep

(* What only goes forward keeps the slots, what a claim has read, and what   *)
(* it decided.                                                               *)
LEMMA CardIInv ==
    ASSUME SlotsIInv, NEW w \in Worktrees, NEW c \in Cards, CardStep(w, c)
    PROVE  SlotsIInv'
<1>1. SlotsTypeOK' /\ OnlyForward /\ UNCHANGED <<lock, claim>>
    BY CardGoesForward DEF SlotsIInv, SlotsRespected
<1>2. InProgressCards' \subseteq InProgressCards
    BY <1>1 DEF OnlyForward, InProgressCards
<1>3. SlotsRespected'
    <2>1. SlotsOk(InProgressCards')
        BY <1>2, SlotsOkSubset DEF SlotsIInv, SlotsRespected
    <2> QED
        BY <1>1, <1>2, <2>1 DEF SlotsIInv, SlotsRespected, Fits, SlotsOk
<1>4. StartedDepsDone'
    <2> SUFFICES ASSUME NEW x \in InProgressCards', NEW d \in Deps(x[1], x[2])'
                 PROVE  stage'[x[1]][d] = "done"
        BY DEF StartedDepsDone
    <2>1. /\ x \in InProgressCards /\ x[1] \in Worktrees /\ x[2] \in Cards
          /\ stage'[x[1]][x[2]] \in InProgress
        BY <1>2 DEF InProgressCards
    <2>2. d \in Deps(x[1], x[2])
        BY <1>1, <2>1 DEF OnlyForward
    <2>3. d \in Cards
        BY <2>1, <2>2, TracksAssumption DEF Deps
    <2>4. stage[x[1]][d] = "done"
        BY <2>1, <2>2 DEF SlotsIInv, StartedDepsDone
    <2> QED
        BY <1>1, <2>1, <2>3, <2>4 DEF OnlyForward
<1>5. HolderKeepsLock'
    BY <1>1 DEF SlotsIInv, HolderKeepsLock
<1>6. ReviewIsLast' /\ AllWasRead'
    BY <1>1 DEF SlotsIInv, ReadingInv, ReviewIsLast, AllWasRead
<1>7. SeenOrToBeRead'
    <2> SUFFICES ASSUME NEW p \in Claimers, NEW v \in Worktrees, NEW d \in Cards,
                        claim[p].step \in {"reading", "deciding"},
                        stage'[v][d] \in InProgress
                 PROVE  <<v, stage'[v][d]>> \in claim[p].todo \/ Seen(p, v, d)
        BY <1>1 DEF SeenOrToBeRead, Seen
    <2>1. <<v, stage[v][d]>> \in claim[p].todo \/ Seen(p, v, d)
        BY <1>1 DEF SlotsIInv, ReadingInv, SeenOrToBeRead, OnlyForward
    <2>2. stage'[v][d] = stage[v][d] \/ (stage'[v][d] = "review" /\ stage[v][d] = "active")
        BY <1>1 DEF OnlyForward, InProgress
    <2> QED
        BY <2>1, <2>2 DEF SlotsIInv, ReadingInv, ReviewIsLast, AllWasRead
<1>8. DecisionHolds'
    <2> SUFFICES ASSUME NEW p \in Claimers, claim[p].step = "moving"
                 PROVE  MayMove(claim[p].root, claim[p].card)'
        BY <1>1 DEF DecisionHolds
    <2> DEFINE r == claim[p].root
               k == claim[p].card
    <2>1. MayMove(r, k) /\ r \in Worktrees /\ k \in Cards
        BY DEF SlotsIInv, DecisionHolds, SlotsRespected, SlotsTypeOK, Claim
    <2>2. r' = r /\ k' = k
        BY <1>1
    <2> HIDE DEF r, k
    <2>3. stage'[r][k] \notin InProgress /\ Deps(r, k)' = Deps(r, k)
        BY <1>1, <2>1, <2>2 DEF MayMove, OnlyForward, Deps
    <2>4. \A d \in Deps(r, k) : d \in Cards /\ stage'[r][d] = "done"
        BY <1>1, <2>1, TracksAssumption DEF MayMove, OnlyForward, Deps
    <2>5. SlotsOk(InProgressCards' \cup {<<r, k>>})
        BY <1>2, <2>1, SlotsOkSubset DEF MayMove
    <2>6. MayMove(r, k)'
        BY <2>1, <2>2, <2>3, <2>4, <2>5 DEF MayMove, Fits, SlotsOk
    <2> QED
        BY <2>6 DEF r, k
<1> QED
    BY <1>3, <1>4, <1>5, <1>6, <1>7, <1>8 DEF SlotsIInv, ReadingInv

-----------------------------------------------------------------------------
(* A claim that has read every folder saw every card in progress.           *)
LEMMA EveryCardWasSeen ==
    ASSUME SlotsIInv, NEW p \in Claimers, claim[p].step = "deciding",
           NEW x \in InProgressCards
    PROVE  \E y \in claim[p].seen : y[1][1] = x[1] /\ y[2] = x[2]
<1>1. x[1] \in Worktrees /\ x[2] \in Cards /\ stage[x[1]][x[2]] \in InProgress
    BY DEF InProgressCards
<1>2. Seen(p, x[1], x[2])
    BY <1>1 DEF SlotsIInv, ReadingInv, SeenOrToBeRead, AllWasRead
<1> QED
    BY <1>2 DEF Seen

(* What is allowed on folders read one by one may move when it is decided.  *)
LEMMA AllowedMayMove ==
    ASSUME SlotsIInv, NEW p \in Claimers, claim[p].step = "deciding", Allowed(claim[p])
    PROVE  MayMove(claim[p].root, claim[p].card)
<1> DEFINE r == claim[p]
           found == r.seen \cup {<<<<r.root, "candidate">>, r.card>>}
           cards == InProgressCards \cup {<<r.root, r.card>>}
<1>1. r.root \in Worktrees /\ r.card \in Cards
    BY DEF SlotsIInv, SlotsRespected, SlotsTypeOK, Claim
<1>2. /\ stage[r.root][r.card] \in {"planning", "backlog"} /\ Fits(r.root, r.card)
      /\ \A d \in Deps(r.root, r.card) : stage[r.root][d] = "done"
      /\ SlotsOk(found)
    BY DEF Allowed
<1>3. \A x \in cards : /\ x \in Worktrees \X Cards
                       /\ \E y \in found : y[1][1] = x[1] /\ y[2] = x[2]
    <2> SUFFICES ASSUME NEW x \in cards
                 PROVE  /\ x \in Worktrees \X Cards
                        /\ \E y \in found : y[1][1] = x[1] /\ y[2] = x[2]
        OBVIOUS
    <2>1. CASE x \in InProgressCards
        <3>1. PICK y \in r.seen : y[1][1] = x[1] /\ y[2] = x[2]
            BY <2>1, EveryCardWasSeen
        <3> QED
            BY <2>1, <3>1 DEF InProgressCards
    <2>2. CASE x = <<r.root, r.card>>
        <3>1. <<<<r.root, "candidate">>, r.card>> \in found
            OBVIOUS
        <3> HIDE DEF found
        <3> QED
            BY <1>1, <2>2, <3>1
    <2> QED
        BY <2>1, <2>2
<1>4. SlotsOk(cards)
    <2> SUFFICES ASSUME NEW x \in cards, NEW y \in cards, x # y
                 PROVE  /\ {Track[x[2]], Track[y[2]]} \subseteq BoundTracks
                        /\ Track[x[2]] # Track[y[2]]
        BY DEF SlotsOk
    <2>1. PICK v \in found : v[1][1] = x[1] /\ v[2] = x[2]
        BY <1>3
    <2>2. PICK w \in found : w[1][1] = y[1] /\ w[2] = y[2]
        BY <1>3
    <2>3. v # w
        BY <1>3, <2>1, <2>2
    <2> QED
        BY <1>2, <2>1, <2>2, <2>3 DEF SlotsOk
<1>5. stage[r.root][r.card] \notin InProgress
    BY <1>2 DEF InProgress
<1> QED
    BY <1>2, <1>4, <1>5 DEF MayMove

(* One claim is inside the lock. *)
LEMMA OneInside ==
    ASSUME HolderKeepsLock, NEW p \in Claimers, NEW q \in Claimers,
           claim[p].step \in Inside, claim[q].step \in Inside
    PROVE  p = q
BY DEF HolderKeepsLock

(* A step of a claim leaves the others' claims alone. *)
LEMMA OthersKeepClaim ==
    ASSUME SlotsTypeOK, NEW p \in Claimers, ClaimStep(p)
    PROVE  \A q \in Claimers \ {p} : claim'[q] = claim[q]
BY DEF SlotsTypeOK, ClaimStep, Begin, Lock, Timeout, ReadFolder, Decide, Move, Unlock, Kill,
       RemoveOrphan, Proceed, Leave

(* Reading a folder goes on, or leads to the decision. *)
LEMMA ReadFolderStep ==
    ASSUME SlotsTypeOK, NEW p \in Claimers, ReadFolder(p)
    PROVE  claim'[p].step \in {"deciding", claim[p].step}
<1>1. PICK read \in claim[p].todo :
        claim' = [claim EXCEPT
                       ![p].todo = @ \ {read},
                       ![p].seen = @ \cup {<<read, c>> : c \in
                                             {c \in Cards : stage[read[1]][c] = read[2]}},
                       ![p].step = IF claim[p].todo = {read} THEN "deciding" ELSE @]
    BY DEF ReadFolder
<1> QED
    BY <1>1 DEF SlotsTypeOK, Claim

(* Reading one more folder keeps what the reading is worth. *)
LEMMA ReadFolderKeepsReading ==
    ASSUME SlotsIInv, NEW p \in Claimers, ReadFolder(p)
    PROVE  ReadingInv'
<1>1. PICK read \in claim[p].todo :
        /\ read[2] = "review" => <<read[1], "active">> \notin claim[p].todo
        /\ claim' = [claim EXCEPT
                       ![p].todo = @ \ {read},
                       ![p].seen = @ \cup {<<read, c>> : c \in
                                             {c \in Cards : stage[read[1]][c] = read[2]}},
                       ![p].step = IF claim[p].todo = {read} THEN "deciding" ELSE @]
    BY DEF ReadFolder
<1>2. claim[p] \in Claim /\ claim[p].step = "reading" /\ stage' = stage
    BY DEF SlotsIInv, SlotsRespected, SlotsTypeOK, ReadFolder
<1>3. read \in Reads
    BY <1>2 DEF Claim
<1>4. /\ claim'[p].todo = claim[p].todo \ {read}
      /\ claim[p].seen \subseteq claim'[p].seen
      /\ \A c \in Cards : stage[read[1]][c] = read[2] => <<read, c>> \in claim'[p].seen
      /\ claim'[p].step = IF claim[p].todo = {read} THEN "deciding" ELSE "reading"
    BY <1>1, <1>2 DEF SlotsIInv, SlotsRespected, SlotsTypeOK, Claim
<1>5. \A q \in Claimers \ {p} : claim'[q] = claim[q]
    BY OthersKeepClaim DEF ClaimStep, SlotsIInv, SlotsRespected
<1>6. \A q \in Claimers \ {p} : claim[q].step \notin Inside
    BY <1>2, OneInside DEF SlotsIInv, Inside
<1>7. SeenOrToBeRead'
    <2> SUFFICES ASSUME NEW w \in Worktrees, NEW c \in Cards, stage[w][c] \in InProgress
                 PROVE  <<w, stage[w][c]>> \in claim'[p].todo \/ Seen(p, w, c)'
        BY <1>2, <1>5, <1>6 DEF SeenOrToBeRead, Inside
    <2>1. <<w, stage[w][c]>> \in claim[p].todo \/ Seen(p, w, c)
        BY <1>2 DEF SlotsIInv, ReadingInv, SeenOrToBeRead
    <2>2. CASE Seen(p, w, c)
        BY <1>4, <2>2 DEF Seen
    <2>3. CASE <<w, stage[w][c]>> = read
        BY <1>4, <2>3 DEF Seen
    <2>4. CASE <<w, stage[w][c]>> \in claim[p].todo /\ <<w, stage[w][c]>> # read
        BY <1>4, <2>4
    <2> QED
        BY <2>1, <2>2, <2>3, <2>4
<1>8. ReviewIsLast'
    <2> SUFFICES ASSUME NEW w \in Worktrees, <<w, "active">> \in claim'[p].todo
                 PROVE  <<w, "review">> \in claim'[p].todo
        BY <1>5, <1>6 DEF ReviewIsLast, Inside
    <2>1. <<w, "active">> \in claim[p].todo /\ <<w, "review">> \in claim[p].todo
        BY <1>2, <1>4 DEF SlotsIInv, ReadingInv, ReviewIsLast
    <2>2. read # <<w, "review">>
        <3> SUFFICES ASSUME read = <<w, "review">> PROVE FALSE
            OBVIOUS
        <3>1. read[1] = w /\ read[2] = "review"
            OBVIOUS
        <3>2. <<read[1], "active">> \notin claim[p].todo
            BY <1>1, <3>1, Zenon
        <3> QED
            BY <2>1, <3>1, <3>2
    <2> QED
        BY <1>4, <2>1, <2>2
<1>9. AllWasRead'
    <2>1. claim'[p].step = "deciding" => claim'[p].todo = {}
        BY <1>4
    <2> QED
        BY <1>5, <1>6, <2>1 DEF AllWasRead, Inside
<1> QED
    BY <1>7, <1>8, <1>9 DEF ReadingInv

(* A claim's step keeps what every claim has read. *)
LEMMA ClaimKeepsReading ==
    ASSUME SlotsIInv, NEW p \in Claimers, ClaimStep(p)
    PROVE  ReadingInv'
<1>1. \A q \in Claimers \ {p} : claim'[q] = claim[q]
    BY OthersKeepClaim DEF SlotsIInv, SlotsRespected
<1>2. CASE Lock(p)
    <2>1. claim'[p].todo = Reads /\ claim'[p].step = "reading" /\ stage' = stage
        BY <1>2 DEF Lock, SlotsIInv, SlotsRespected, SlotsTypeOK
    <2>2. \A w \in Worktrees, folder \in InProgress : <<w, folder>> \in claim'[p].todo
        BY <2>1 DEF Reads
    <2> QED
        BY <1>1, <2>1, <2>2
        DEF SlotsIInv, ReadingInv, SeenOrToBeRead, ReviewIsLast, AllWasRead, Seen, InProgress
<1>3. CASE ReadFolder(p)
    BY <1>3, ReadFolderKeepsReading
<1>4. CASE Move(p)
    <2>1. \A q \in Claimers : claim'[q].step \notin {"reading", "deciding"}
        BY <1>1, <1>4, OneInside DEF Move, Proceed, SlotsIInv, SlotsRespected, SlotsTypeOK, Claim, Inside
    <2> QED
        BY <2>1 DEF ReadingInv, SeenOrToBeRead, ReviewIsLast, AllWasRead
<1>5. CASE stage' = stage /\ claim'[p].step \notin {"reading", "deciding"}
    BY <1>1, <1>5
    DEF SlotsIInv, ReadingInv, SeenOrToBeRead, ReviewIsLast, AllWasRead, Seen
<1>6. CASE Decide(p)
    BY <1>5, <1>6, Zenon DEF Decide, SlotsIInv, SlotsRespected, SlotsTypeOK, Claim
<1>7. CASE Begin(p) \/ Timeout(p) \/ Unlock(p) \/ Kill(p) \/ RemoveOrphan(p)
    BY <1>5, <1>7, NoClaimIsClaim
    DEF Begin, Timeout, Unlock, Kill, RemoveOrphan, Proceed, Leave, NoClaim, SlotsIInv,
        SlotsRespected, SlotsTypeOK, Claim
<1> QED
    BY <1>2, <1>3, <1>4, <1>6, <1>7 DEF ClaimStep

(* A claim's step leaves the cards alone, or is the move of one card that    *)
(* may move.                                                                 *)
LEMMA ClaimMovesOneCard ==
    ASSUME SlotsIInv, NEW p \in Claimers, ClaimStep(p)
    PROVE  /\ parked' = parked
           /\ \/ stage' = stage
              \/ \E w \in Worktrees, c \in Cards :
                    /\ claim[p].step = "moving" /\ MayMove(w, c)
                    /\ stage[w][c] \in {"planning", "backlog"}
                    /\ stage' = [stage EXCEPT ![w][c] = "active"]
<1>1. CASE Move(p)
    <2>1. claim[p].root \in Worktrees /\ claim[p].card \in Cards
        BY DEF SlotsIInv, SlotsRespected, SlotsTypeOK, Claim
    <2>2. MayMove(claim[p].root, claim[p].card) /\ claim[p].step = "moving"
        BY <1>1 DEF Move, SlotsIInv, DecisionHolds
    <2> QED
        BY <1>1, <2>1, <2>2, Zenon DEF Move
<1> QED
    BY <1>1
    DEF ClaimStep, Begin, Lock, Timeout, ReadFolder, Decide, Unlock, Kill, RemoveOrphan

(* A card that may move takes a slot nobody has. *)
LEMMA MovingKeepsSlots ==
    ASSUME SlotsIInv, SlotsTypeOK', NEW w \in Worktrees, NEW c \in Cards, MayMove(w, c),
           stage[w][c] \in {"planning", "backlog"},
           stage' = [stage EXCEPT ![w][c] = "active"], parked' = parked
    PROVE  SlotsRespected' /\ StartedDepsDone'
<1>1. /\ stage'[w][c] = "active"
      /\ \A v \in Worktrees, d \in Cards : <<v, d>> # <<w, c>> => stage'[v][d] = stage[v][d]
    BY DEF SlotsIInv, SlotsRespected, SlotsTypeOK
<1>2. InProgressCards' \subseteq InProgressCards \cup {<<w, c>>}
    BY <1>1 DEF InProgressCards
<1>3. SlotsOk(InProgressCards')
    BY <1>2, SlotsOkSubset DEF MayMove
<1>4. SlotsRespected'
    BY <1>2, <1>3 DEF SlotsRespected, SlotsOk, Fits, SlotsIInv, MayMove
<1>5. StartedDepsDone'
    <2> SUFFICES ASSUME NEW x \in InProgressCards', NEW d \in Deps(x[1], x[2])'
                 PROVE  stage'[x[1]][d] = "done"
        BY DEF StartedDepsDone
    <2>1. x[1] \in Worktrees /\ d \in Deps(x[1], x[2]) /\ d \in Cards
        BY TracksAssumption DEF Deps, InProgressCards
    <2>2. stage[x[1]][d] = "done"
        BY <1>2, <2>1 DEF SlotsIInv, StartedDepsDone, MayMove
    <2>3. <<x[1], d>> # <<w, c>>
        BY <2>2
    <2> QED
        BY <1>1, <2>1, <2>2, <2>3
<1> QED
    BY <1>4, <1>5

(* A claim's step keeps what was decided: one claim moves, and what it       *)
(* decided it decided on every card in progress.                             *)
LEMMA ClaimKeepsDecision ==
    ASSUME SlotsIInv, NEW p \in Claimers, ClaimStep(p)
    PROVE  DecisionHolds'
<1>1. \A q \in Claimers \ {p} : claim'[q] = claim[q]
    BY OthersKeepClaim DEF SlotsIInv, SlotsRespected
<1>2. CASE Move(p)
    <2>1. \A q \in Claimers : claim'[q].step # "moving"
        BY <1>1, <1>2, OneInside DEF Move, Proceed, SlotsIInv, SlotsRespected, SlotsTypeOK, Claim, Inside
    <2> QED
        BY <2>1 DEF DecisionHolds
<1>4. CASE stage' = stage /\ claim'[p].step # "moving"
    <2> SUFFICES ASSUME NEW q \in Claimers, claim'[q].step = "moving"
                 PROVE  MayMove(claim[q].root, claim[q].card)'
        BY DEF DecisionHolds
    <2> DEFINE r == claim[q].root
               k == claim[q].card
    <2>1. claim'[q] = claim[q]
        BY <1>1, <1>4
    <2>2. r' = r /\ k' = k
        BY <2>1
    <2>3. MayMove(r, k) /\ r \in Worktrees /\ k \in Cards
        BY <2>1 DEF SlotsIInv, DecisionHolds, SlotsRespected, SlotsTypeOK, Claim
    <2>4. parked' = parked
        BY ClaimMovesOneCard
    <2> HIDE DEF r, k
    <2>5. MayMove(r, k)'
        BY <1>4, <2>2, <2>3, <2>4 DEF MayMove, Fits, Deps, SlotsOk, InProgressCards
    <2> QED
        BY <2>5 DEF r, k
<1>5. CASE Decide(p)
    <2>1. /\ stage' = stage /\ parked' = parked
          /\ claim'[p].root = claim[p].root /\ claim'[p].card = claim[p].card
          /\ claim'[p].step = "moving" => Allowed(claim[p])
          /\ claim[p].step = "deciding"
          /\ claim[p].root \in Worktrees /\ claim[p].card \in Cards
        BY <1>5 DEF Decide, SlotsIInv, SlotsRespected, SlotsTypeOK, Claim
    <2>2. claim'[p].step = "moving" => MayMove(claim[p].root, claim[p].card)
        BY <2>1, AllowedMayMove
    <2>3. \A q \in Claimers \ {p} : claim'[q].step # "moving"
        BY <1>1, <2>1, OneInside DEF SlotsIInv, Inside
    <2> SUFFICES ASSUME claim'[p].step = "moving"
                 PROVE  MayMove(claim[p].root, claim[p].card)'
        BY <2>3 DEF DecisionHolds
    <2> DEFINE r == claim[p].root
               k == claim[p].card
    <2>4. r' = r /\ k' = k /\ MayMove(r, k)
        BY <2>1, <2>2
    <2> HIDE DEF r, k
    <2>5. MayMove(r, k)'
        BY <2>1, <2>4 DEF MayMove, Fits, Deps, SlotsOk, InProgressCards
    <2> QED
        BY <2>5 DEF r, k
<1>6. CASE Begin(p) \/ Lock(p) \/ Timeout(p) \/ Unlock(p) \/ Kill(p) \/ RemoveOrphan(p)
    BY <1>4, <1>6, NoClaimIsClaim
    DEF Begin, Lock, Timeout, Unlock, Kill, RemoveOrphan, Proceed, Leave, NoClaim, SlotsIInv,
        SlotsRespected, SlotsTypeOK, Claim
<1>7. CASE ReadFolder(p)
    <2>1. /\ stage' = stage /\ claim[p].step = "reading"
          /\ claim'[p].step \in {"deciding", claim[p].step}
        BY <1>7, ReadFolderStep DEF ReadFolder, SlotsIInv, SlotsRespected
    <2> QED
        BY <1>4, <2>1
<1> QED
    BY <1>2, <1>5, <1>6, <1>7 DEF ClaimStep

(* A claim's step keeps the invariant. *)
LEMMA ClaimIInv ==
    ASSUME SlotsIInv, NEW p \in Claimers, ClaimStep(p)
    PROVE  SlotsIInv'
<1>1. SlotsTypeOK' /\ HolderKeepsLock'
    BY ClaimTypeOK, ClaimKeepsLock DEF ClaimStep, SlotsIInv, SlotsRespected
<1>2. ReadingInv' /\ DecisionHolds'
    BY ClaimKeepsReading, ClaimKeepsDecision
<1>3. SlotsRespected' /\ StartedDepsDone'
    <2>1. CASE stage' = stage /\ parked' = parked
        BY <1>1, <2>1
        DEF SlotsIInv, SlotsRespected, StartedDepsDone, InProgressCards, SlotsOk, Fits, Deps
    <2> QED
        BY <1>1, <2>1, ClaimMovesOneCard, MovingKeepsSlots
<1> QED
    BY <1>1, <1>2, <1>3 DEF SlotsIInv

-----------------------------------------------------------------------------
(* With nothing in progress and nobody claiming, the invariant holds. *)
LEMMA SlotsInitIInv == SlotsInit => SlotsIInv
<1> SUFFICES ASSUME SlotsInit PROVE SlotsIInv
    OBVIOUS
<1>1. \A p \in Claimers : claim[p] = NoClaim /\ claim[p].step = "out"
    BY DEF SlotsInit, NoClaim
<1>2. \A w \in Worktrees, c \in Cards : stage[w][c] \notin InProgress
    BY DEF SlotsInit, InProgress
<1>3. SlotsTypeOK
    BY NoClaimIsClaim DEF SlotsInit, SlotsTypeOK, Stages
<1>4. InProgressCards = {}
    BY <1>2 DEF InProgressCards
<1> QED
    BY <1>1, <1>3, <1>4
    DEF SlotsIInv, SlotsRespected, SlotsOk, StartedDepsDone, HolderKeepsLock, Inside, ReadingInv,
        SeenOrToBeRead, ReviewIsLast, AllWasRead, DecisionHolds

(* The inductive invariant holds in every reachable state. *)
THEOREM SlotsInvariance == SlotsSpec => []SlotsIInv
<1>1. SlotsIInv /\ [SlotsNext]_slotVars => SlotsIInv'
    <2> SUFFICES ASSUME SlotsIInv, [SlotsNext]_slotVars PROVE SlotsIInv'
        OBVIOUS
    <2>1. CASE UNCHANGED slotVars
        <3>1. SlotsRespected'
            BY <2>1
            DEF slotVars, SlotsIInv, SlotsRespected, SlotsTypeOK, SlotsOk, Fits, InProgressCards
        <3>2. StartedDepsDone'
            BY <2>1 DEF slotVars, SlotsIInv, StartedDepsDone, Deps, InProgressCards
        <3>3. HolderKeepsLock' /\ ReadingInv'
            BY <2>1
            DEF slotVars, SlotsIInv, HolderKeepsLock, ReadingInv, SeenOrToBeRead, ReviewIsLast,
                AllWasRead, Seen
        <3>4. DecisionHolds'
            BY <2>1
            DEF slotVars, SlotsIInv, DecisionHolds, MayMove, Fits, Deps, SlotsOk, InProgressCards
        <3> QED
            BY <3>1, <3>2, <3>3, <3>4 DEF SlotsIInv
    <2>2. CASE SlotsNext
        BY <2>2, ClaimIInv, CardIInv DEF SlotsNext, ClaimStep, CardStep
    <2> QED
        BY <2>1, <2>2
<1> QED
    BY SlotsInitIInv, <1>1, PTL DEF SlotsSpec

(* For any number of worktrees, cards and claims at once: a track has one    *)
(* card in progress, and a shared card is alone.                             *)
THEOREM SlotsTheorem == SlotsSpec => []SlotsRespected
<1>1. SlotsIInv => SlotsRespected
    BY DEF SlotsIInv
<1> QED
    BY <1>1, SlotsInvariance, PTL

(* For any dependencies: no card is in progress before what it needs is done. *)
THEOREM DepsTheorem == SlotsSpec => []StartedDepsDone
<1>1. SlotsIInv => StartedDepsDone
    BY DEF SlotsIInv
<1> QED
    BY <1>1, SlotsInvariance, PTL

(* For any number of claims: nobody takes away a lock that is not his.       *)
THEOREM LockTheorem == SlotsSpec => []HolderKeepsLock
<1>1. SlotsIInv => HolderKeepsLock
    BY DEF SlotsIInv
<1> QED
    BY <1>1, SlotsInvariance, PTL
=============================================================================
