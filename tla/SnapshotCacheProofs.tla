------------------------ MODULE SnapshotCacheProofs ------------------------
(***************************************************************************)
(* Proofs about SnapshotCache, for any number of write calls and readers   *)
(* and any timestamps.                                                     *)
(*                                                                         *)
(* StoreIsConsistent is not inductive: that no rollback unlinks the        *)
(* sidecar of a visible body rests on what the control state of every      *)
(* call says about the files, and the reader's promise on the fact that    *)
(* what it listed is still there.  IInv adds both.                         *)
(*                                                                         *)
(* The second part is about Evaluation, which publishes files that are     *)
(* never replaced as well, for any games, inventory, losses and number of  *)
(* overlapping runs.  EvaluationInv adds what each run has read so far.    *)
(*                                                                         *)
(* PublishedIsSound counts: a season that passes the gate has all its      *)
(* scores because a game without one would be one too many.                *)
(*                                                                         *)
(* NothingLeaks compares rows: the sweep for many games gives each the     *)
(* ratings of its own games before its cutoff, because a row earlier in    *)
(* the order has no later cutoff.  What those ratings rest on is an        *)
(* induction over the games that are fed, in their order.                  *)
(***************************************************************************)
EXTENDS SnapshotCache, Evaluation, TLAPS, WellFoundedInduction, FiniteSetTheorems

(* A visible body has the sidecar of its own call. *)
BodyHasSidecar == \A t \in Stamps : body[t] # None => sidecar[t] = body[t]

(* Where a call is while its sidecar is there, and its body. *)
SidecarIsHeld ==
    \A t \in Stamps, w \in Writers : sidecar[t] = w =>
        /\ t = Stamp[w]
        /\ pc[w] \in {"publish_body", "stat", "unlink", "clean_written", "written",
                      "clean_interrupted", "interrupted", "unclean", "crashed"}

BodyIsHeld ==
    \A t \in Stamps, w \in Writers : body[t] = w =>
        pc[w] \in {"clean_written", "written", "clean_interrupted", "interrupted",
                   "unclean", "crashed"}

(* Until the body is published or the rollback is over, the sidecar stays. *)
PublishedIsThere ==
    \A w \in Writers : pc[w] \in {"publish_body", "stat", "unlink"} =>
        sidecar[Stamp[w]] = w

(* A call that has not reached its temp files, or has removed them, has none. *)
TempsAreRemoved ==
    \A w \in Writers : pc[w] \in {"idle", "check_sidecar", "failed"} => w \notin temps

(* A reader works on bodies that are still there, the one it returned last  *)
(* among them.                                                              *)
ReaderSeesBodies ==
    \A r \in Readers :
        /\ reader[r].step # "raised"
        /\ reader[r].todo \subseteq reader[r].listed
        /\ seen[r] # 0 => body[seen[r]] # None
        /\ reader[r].step = "checking" =>
             /\ reader[r].listed # {}
             /\ \A t \in reader[r].listed : body[t] # None
             /\ seen[r] # 0 => seen[r] \in reader[r].listed

(* The inductive invariant. *)
FilesInv == BodyHasSidecar /\ SidecarIsHeld /\ BodyIsHeld /\ PublishedIsThere /\ TempsAreRemoved

IInv == TypeOK /\ FilesInv /\ ReaderSeesBodies

(* What a step may not do to a snapshot. *)
KeepsSnapshots ==
    \A t \in Stamps : body[t] # None => body'[t] = body[t] /\ sidecar'[t] = sidecar[t]

KeepsOrder == \A r \in Readers : seen'[r] >= seen[r]

-----------------------------------------------------------------------------
(* A call's stamp is one of the store's stamps, and those are numbers.      *)
LEMMA StampsAreNat ==
    /\ \A w \in Writers : Stamp[w] \in Stamps
    /\ \A t \in Stamps : t \in Nat /\ t >= 1 /\ t <= LastStamp
    /\ LastStamp \in Nat /\ None \notin Writers
BY StampAssumption DEF Stamps

(* A set of numbers that is not empty has its least one. *)
LEMMA LeastExists ==
    ASSUME NEW S, S \subseteq Nat, S # {}
    PROVE  \E n \in S : \A m \in S : n <= m
<1>1. PICK n \in S : \A m \in S : <<m, n>> \notin OpToRel(<, Nat)
    BY WFMin, NatLessThanWellFounded, Zenon
<1>2. \A m \in S : <<m, n>> \in OpToRel(<, Nat) <=> m < n
    BY Zenon DEF OpToRel
<1>3. \A m \in S : ~(m < n)
    BY <1>1, <1>2, Zenon
<1> QED
    BY <1>3

(* Min is a member, as the reader takes it for one. *)
LEMMA MinIsMember ==
    ASSUME NEW S, S \subseteq Stamps, S # {}
    PROVE  Min(S) \in S
<1>1. S \subseteq Nat
    BY StampsAreNat
<1>2. \E n \in S : \A m \in S : n <= m
    BY <1>1, LeastExists
<1> QED
    BY <1>2 DEF Min

(* Max is a member and bounds the set: the least upper bound is reached.    *)
LEMMA MaxIsLargest ==
    ASSUME NEW S, S \subseteq Stamps, S # {}
    PROVE  Max(S) \in S /\ \A n \in S : Max(S) >= n
<1> DEFINE Bounds == {n \in Nat : \A m \in S : n >= m}
<1>1. S \subseteq Nat /\ LastStamp \in Bounds
    BY StampsAreNat
<1>2. PICK n \in Bounds : \A m \in Bounds : n <= m
    BY <1>1, LeastExists
<1>3. n \in S
    <2> SUFFICES ASSUME n \notin S PROVE FALSE
        OBVIOUS
    <2>1. \A m \in S : m < n
        BY <1>1, <1>2
    <2>2. PICK m \in S : TRUE
        OBVIOUS
    <2>3. n \in Nat /\ n >= 1
        BY <1>1, <1>2, <2>1, <2>2
    <2>4. n - 1 \in Bounds
        BY <1>1, <2>1, <2>3
    <2> QED
        BY <1>2, <2>3, <2>4
<1>4. \E x \in S : \A y \in S : x >= y
    BY <1>2, <1>3
<1> QED
    BY <1>4 DEF Max

-----------------------------------------------------------------------------
(* The empty directory satisfies the inductive invariant. *)
LEMMA InitIInv == Init => IInv
BY StampsAreNat
DEF Init, IInv, TypeOK, Files, Steps, Final, InTry, NotReading, FilesInv, BodyHasSidecar,
    SidecarIsHeld, BodyIsHeld, PublishedIsThere, TempsAreRemoved, ReaderSeesBodies

(* A step of one call keeps the types. *)
LEMMA WriterTypeOK ==
    ASSUME TypeOK, NEW w \in Writers, Write(w) \/ Fault(w)
    PROVE  TypeOK'
<1> USE StampsAreNat DEF TypeOK, Files, Steps, Final, InTry, GoTo, readerVars
<1>1. CASE CheckBody(w)         BY <1>1 DEF CheckBody
<1>2. CASE CheckSidecar(w)      BY <1>2 DEF CheckSidecar
<1>3. CASE WriteTemps(w)        BY <1>3 DEF WriteTemps
<1>4. CASE PublishSidecar(w)    BY <1>4 DEF PublishSidecar
<1>5. CASE PublishBody(w)       BY <1>5 DEF PublishBody
<1>6. CASE StatSidecar(w)       BY <1>6 DEF StatSidecar
<1>7. CASE UnlinkSidecar(w)     BY <1>7 DEF UnlinkSidecar
<1>8. CASE RemoveTemps(w)       BY <1>8 DEF RemoveTemps, AfterClean
<1>9. CASE IOError(w)           BY <1>9 DEF IOError
<1>10. CASE Interrupt(w)        BY <1>10 DEF Interrupt
<1>11. CASE Crash(w)            BY <1>11 DEF Crash
<1>12. CASE CleanFails(w)       BY <1>12 DEF CleanFails
<1> QED
    BY <1>1, <1>2, <1>3, <1>4, <1>5, <1>6, <1>7, <1>8, <1>9, <1>10, <1>11, <1>12
    DEF Write, Fault

(* A step of one call keeps what the control states say about the files.    *)
LEMMA WriterFilesInv ==
    ASSUME TypeOK, FilesInv, NEW w \in Writers, Write(w) \/ Fault(w)
    PROVE  FilesInv'
<1> USE StampsAreNat
    DEF TypeOK, Files, Steps, Final, InTry, GoTo, readerVars, FilesInv, BodyHasSidecar,
        SidecarIsHeld, BodyIsHeld, PublishedIsThere, TempsAreRemoved
<1>1. CASE CheckBody(w)         BY <1>1 DEF CheckBody
<1>2. CASE CheckSidecar(w)      BY <1>2 DEF CheckSidecar
<1>3. CASE WriteTemps(w)        BY <1>3 DEF WriteTemps
<1>4. CASE PublishSidecar(w)    BY <1>4 DEF PublishSidecar
<1>5. CASE PublishBody(w)       BY <1>5 DEF PublishBody
<1>6. CASE StatSidecar(w)       BY <1>6 DEF StatSidecar
<1>7. CASE UnlinkSidecar(w)     BY <1>7 DEF UnlinkSidecar
<1>8. CASE RemoveTemps(w)       BY <1>8 DEF RemoveTemps, AfterClean
<1>9. CASE IOError(w)           BY <1>9 DEF IOError
<1>10. CASE Interrupt(w)        BY <1>10 DEF Interrupt
<1>11. CASE Crash(w)            BY <1>11 DEF Crash
<1>12. CASE CleanFails(w)       BY <1>12 DEF CleanFails
<1> QED
    BY <1>1, <1>2, <1>3, <1>4, <1>5, <1>6, <1>7, <1>8, <1>9, <1>10, <1>11, <1>12
    DEF Write, Fault

(* A step of one call removes no snapshot: it links a body where there is   *)
(* none, and unlinks only the sidecar of its own, body-less call.           *)
LEMMA WriterKeepsSnapshots ==
    ASSUME TypeOK, FilesInv, NEW w \in Writers, Write(w) \/ Fault(w)
    PROVE  KeepsSnapshots
<1> USE StampsAreNat
    DEF TypeOK, Files, FilesInv, KeepsSnapshots
<1>1. CASE PublishSidecar(w)    BY <1>1 DEF PublishSidecar, BodyHasSidecar
<1>2. CASE PublishBody(w)       BY <1>2 DEF PublishBody
<1>3. CASE UnlinkSidecar(w)
    BY <1>3 DEF UnlinkSidecar, BodyHasSidecar, PublishedIsThere, BodyIsHeld
<1>4. CASE UNCHANGED <<body, sidecar>>
    BY <1>4
<1> QED
    BY <1>1, <1>2, <1>3, <1>4
    DEF Write, Fault, CheckBody, CheckSidecar, WriteTemps, StatSidecar, RemoveTemps,
        IOError, Interrupt, CleanFails, Crash

(* A recovery by hand, with no call running, takes only what has no body.   *)
LEMMA RecoverIInv ==
    ASSUME TypeOK, FilesInv, Recover
    PROVE  TypeOK' /\ FilesInv' /\ KeepsSnapshots
<1> USE StampsAreNat
    DEF TypeOK, Files, Final, FilesInv, Recover, DeleteLeftovers, OrphanSidecars, readerVars
<1>1. TypeOK'
    OBVIOUS
<1>2. KeepsSnapshots
    BY DEF KeepsSnapshots
<1>3. BodyHasSidecar' /\ SidecarIsHeld' /\ BodyIsHeld' /\ TempsAreRemoved'
    BY DEF BodyHasSidecar, SidecarIsHeld, BodyIsHeld, TempsAreRemoved
<1>4. PublishedIsThere'
    BY DEF PublishedIsThere
<1> QED
    BY <1>1, <1>2, <1>3, <1>4

(* While snapshots are kept, what a reader holds stays true. *)
LEMMA OthersKeepReader ==
    ASSUME TypeOK, ReaderSeesBodies, KeepsSnapshots, UNCHANGED readerVars
    PROVE  ReaderSeesBodies' /\ KeepsOrder
<1>1. \A t \in Stamps : body[t] # None => body'[t] # None
    BY DEF KeepsSnapshots
<1> QED
    BY <1>1, StampsAreNat
    DEF TypeOK, ReaderSeesBodies, KeepsOrder, readerVars

(* A step of a reader: it finds the sidecar of every body it listed, and    *)
(* what it returns is no older than what it returned before.                *)
LEMMA ReaderIInv ==
    ASSUME IInv, NEW r \in Readers, Latest(r)
    PROVE  TypeOK' /\ ReaderSeesBodies' /\ KeepsOrder
<1> USE StampsAreNat DEF IInv, TypeOK, NotReading, ReaderSeesBodies, KeepsOrder
<1>1. CASE ListBodies(r)
    <2> DEFINE found == {t \in Stamps : body[t] # None}
    <2>1. CASE found = {}
        <3>1. seen' = [seen EXCEPT ![r] = 0] /\ reader' = reader /\ seen[r] = 0
            BY <1>1, <2>1 DEF ListBodies
        <3> QED
            BY <1>1, <3>1 DEF ListBodies
    <2>2. CASE found # {}
        <3>1. reader' = [reader EXCEPT ![r] =
                            [step |-> "checking", listed |-> found, todo |-> found]]
            BY <1>1, <2>2 DEF ListBodies
        <3>2. /\ found \subseteq Stamps
              /\ \A t \in found : body[t] # None
              /\ seen[r] # 0 => seen[r] \in found
            OBVIOUS
        <3> HIDE DEF found
        <3> QED
            BY <1>1, <2>2, <3>1, <3>2 DEF ListBodies
    <2> QED
        BY <2>1, <2>2
<1>2. CASE CheckSnapshot(r)
    <2>1. Min(reader[r].todo) \in reader[r].todo
        BY <1>2, MinIsMember DEF CheckSnapshot
    <2> DEFINE t == Min(reader[r].todo)
    <2>2. sidecar[t] # None /\ Stamp[sidecar[t]] = t
        BY <1>2, <2>1
        DEF CheckSnapshot, Files, FilesInv, BodyHasSidecar, SidecarIsHeld
    <2>3. reader' = [reader EXCEPT ![r].todo = @ \ {t}]
        BY <1>2, <2>2 DEF CheckSnapshot
    <2> HIDE DEF t
    <2>4. reader' \in [Readers -> [step : {"idle", "checking", "raised"},
                                   listed : SUBSET Stamps, todo : SUBSET Stamps]]
        BY <2>3
    <2>5. /\ reader[r].step = "checking" /\ reader'[r].step = "checking"
          /\ reader'[r].listed = reader[r].listed
          /\ reader'[r].todo \subseteq reader'[r].listed
        BY <1>2, <2>3 DEF CheckSnapshot
    <2>6. \A q \in Readers \ {r} : reader'[q] = reader[q]
        BY <2>3
    <2>7. UNCHANGED <<body, sidecar, temps, pc, seen>>
        BY <1>2 DEF CheckSnapshot
    <2>8. TypeOK'
        BY <2>4, <2>7
    <2>9. ReaderSeesBodies'
        BY <2>5, <2>6, <2>7
    <2> QED
        BY <2>7, <2>8, <2>9
<1>3. CASE ReadNewest(r)
    <2> DEFINE newest == Max(reader[r].listed)
    <2>1. newest \in reader[r].listed /\ \A n \in reader[r].listed : newest >= n
        BY <1>3, MaxIsLargest DEF ReadNewest
    <2>2. newest \in Stamps /\ newest >= seen[r] /\ body[newest] # None
        BY <1>3, <2>1 DEF ReadNewest
    <2>3. seen' = [seen EXCEPT ![r] = newest] /\ reader' = [reader EXCEPT ![r] = NotReading]
        BY <1>3 DEF ReadNewest
    <2> HIDE DEF newest
    <2> QED
        BY <1>3, <2>2, <2>3 DEF ReadNewest
<1> QED
    BY <1>1, <1>2, <1>3 DEF Latest

(* A step of a reader leaves the files alone. *)
LEMMA ReaderKeepsFiles ==
    ASSUME FilesInv, NEW r \in Readers, Latest(r)
    PROVE  FilesInv' /\ KeepsSnapshots
BY DEF Latest, ListBodies, CheckSnapshot, ReadNewest, FilesInv, KeepsSnapshots,
       BodyHasSidecar, SidecarIsHeld, BodyIsHeld, PublishedIsThere, TempsAreRemoved

(* Every step keeps the invariant, the snapshots and the readers' order.    *)
LEMMA NextIInv ==
    ASSUME IInv, [Next]_vars
    PROVE  IInv' /\ KeepsSnapshots /\ KeepsOrder
<1>1. ASSUME NEW w \in Writers, Write(w) \/ Fault(w)
      PROVE  IInv' /\ KeepsSnapshots /\ KeepsOrder
    <2>1. TypeOK' /\ FilesInv' /\ KeepsSnapshots
        BY <1>1, WriterTypeOK, WriterFilesInv, WriterKeepsSnapshots DEF IInv
    <2>2. UNCHANGED readerVars
        BY <1>1
        DEF Write, Fault, CheckBody, CheckSidecar, WriteTemps, PublishSidecar, PublishBody,
            StatSidecar, UnlinkSidecar, RemoveTemps, IOError, Interrupt, CleanFails, Crash,
            readerVars
    <2> QED
        BY <2>1, <2>2, OthersKeepReader DEF IInv
<1>2. ASSUME NEW r \in Readers, Latest(r)
      PROVE  IInv' /\ KeepsSnapshots /\ KeepsOrder
    BY <1>2, ReaderIInv, ReaderKeepsFiles DEF IInv
<1>3. CASE Recover
    <2>1. UNCHANGED readerVars
        BY <1>3 DEF Recover, DeleteLeftovers, readerVars
    <2> QED
        BY <1>3, <2>1, RecoverIInv, OthersKeepReader DEF IInv
<1>4. CASE UNCHANGED vars
    BY <1>4, StampsAreNat
    DEF vars, IInv, TypeOK, FilesInv, KeepsSnapshots, KeepsOrder, BodyHasSidecar,
        SidecarIsHeld, BodyIsHeld, PublishedIsThere, TempsAreRemoved, ReaderSeesBodies
<1> QED
    BY <1>1, <1>2, <1>3, <1>4 DEF Next

(* The inductive invariant holds in every reachable state. *)
THEOREM Invariance == Spec => []IInv
BY InitIInv, NextIInv, PTL DEF Spec

-----------------------------------------------------------------------------
(* For any number of calls, whatever they share and wherever they are cut:  *)
(* a visible body has its own call's sidecar, and a call that raised left   *)
(* no file of its own.                                                      *)
THEOREM ConsistentTheorem == Spec => []StoreIsConsistent
<1>1. IInv => StoreIsConsistent
    BY StampsAreNat
    DEF IInv, FilesInv, StoreIsConsistent, BodyHasSidecar, SidecarIsHeld, BodyIsHeld,
        TempsAreRemoved
<1> QED
    BY <1>1, Invariance, PTL

(* For any number of readers and calls, latest() never raises. *)
THEOREM ReaderTheorem == Spec => []ReaderNeverRaises
<1>1. IInv => ReaderNeverRaises
    BY DEF IInv, ReaderSeesBodies, ReaderNeverRaises
<1> QED
    BY <1>1, Invariance, PTL

(* For any number of calls, readers and timestamps: a snapshot stays, and a *)
(* reader that asks again never goes back in time.                          *)
THEOREM KeptTheorem == Spec => SnapshotsAreKept
<1>1. IInv /\ [Next]_vars => KeepsSnapshots /\ KeepsOrder
    BY NextIInv
<1>2. KeepsSnapshots => [\A t \in Stamps : body[t] # None =>
             body'[t] = body[t] /\ sidecar'[t] = sidecar[t]]_<<body, sidecar>>
    BY DEF KeepsSnapshots
<1>3. KeepsOrder => [\A r \in Readers : seen'[r] >= seen[r]]_seen
    BY DEF KeepsOrder
<1> QED
    BY <1>1, <1>2, <1>3, Invariance, PTL DEF Spec, SnapshotsAreKept

-----------------------------------------------------------------------------
(* Evaluation.                                                              *)

(* A game of the world, whatever its score has been corrected to.           *)
IsGame(g) ==
  /\ TeamGameRecord \subseteq DOMAIN g
  /\ \E w \in World : g.id = w.id /\ g.season = w.season /\ g.type = w.type /\ g.date = w.date

(* A table has one row for a game.                                          *)
IsTable(games) ==
  /\ IsFiniteSet(games)
  /\ \A g \in games : IsGame(g)
  /\ \A g, h \in games : g.id = h.id => g = h

KindOf(games, season, type) == {g \in games : g.season = season /\ g.type = type}
IdsOf(season, type, excluded) == Played(season, type) \ excluded

(* Games of a kind that come from a table are no more than the world has.   *)
LEMMA NoMoreThanPlayed ==
  ASSUME NEW games, IsTable(games), NEW season, NEW type, NEW excluded,
         \A g \in games : g.id \notin excluded
  PROVE  /\ IsFiniteSet(KindOf(games, season, type))
         /\ Cardinality(KindOf(games, season, type)) \in Nat
         /\ Cardinality(IdsOf(season, type, excluded)) \in Nat
         /\ Cardinality(KindOf(games, season, type))
              <= Cardinality(IdsOf(season, type, excluded))
<1> DEFINE kind == {g \in games : g.season = season /\ g.type = type}
           ids == Played(season, type) \ excluded
           id[g \in kind] == g.id
           of == {h \in World : h.season = season /\ h.type = type}
           idOf[g \in of] == g.id
<1>1. IsFiniteSet(kind)
  BY FS_Subset DEF IsTable
<1>2. IsFiniteSet(of)
  BY FS_Subset, EvaluationAssumption
<1>3. idOf \in Surjection(of, Played(season, type))
  BY DEF Surjection, Played
<1>4. IsFiniteSet(Played(season, type))
  <2> HIDE DEF of, idOf
  <2> QED BY <1>2, <1>3, FS_Surjection
<1>5. IsFiniteSet(ids)
  BY <1>4, FS_Subset
<1>6. \A g \in kind : g.id \in ids
  BY DEF IsTable, IsGame, Played
<1>7. id \in Injection(kind, ids)
  <2>1. \A g, h \in kind : g.id = h.id => g = h
    BY DEF IsTable
  <2>2. DOMAIN id = kind /\ \A g \in kind : id[g] = g.id
    OBVIOUS
  <2>3. id \in [kind -> ids]
    BY <1>6
  <2> HIDE DEF kind, ids, id
  <2> QED BY <2>1, <2>2, <2>3 DEF Injection, IsInjective
<1>8. Cardinality(kind) <= Cardinality(ids)
  <2> HIDE DEF kind, ids, id
  <2> QED BY <1>5, <1>7, FS_Injection
<1>9. kind = KindOf(games, season, type) /\ ids = IdsOf(season, type, excluded)
  BY DEF KindOf, IdsOf
<1> HIDE DEF kind, ids
<1> QED BY <1>1, <1>5, <1>8, <1>9, FS_CardinalityType

(* What the gate accepts has every game of the season, each with its score: *)
(* a game without one would be one more than the league played.             *)
LEMMA SeasonIsWhole ==
  ASSUME NEW games, IsTable(games), games = History(games),
         NEW season \in FIRST_HISTORY_SEASON..TEST_SEASON, ~inventory_problems(games, season)
  PROVE  LET here == {g \in games : g.season = season}
             expected == GAME_INVENTORY[season]
         IN  /\ \A g \in here : Scored(g) /\ g.id \notin expected.quarantined
             /\ Cardinality(here) = expected.regular_season + expected.cup_finals
                                      - Cardinality(expected.quarantined)
<1> DEFINE expected == GAME_INVENTORY[season]
           here == {g \in games : g.season = season}
           Found(type) == {g \in games : g.season = season /\ g.type = type /\ Scored(g)}
           R == KindOf(games, season, "regular_season")
           C == KindOf(games, season, "cup_final")
<1>1. /\ Cardinality(Found("regular_season"))
             = expected.regular_season - Cardinality(expected.quarantined)
      /\ Cardinality(Found("cup_final")) = expected.cup_finals
      /\ \A g \in games : g.id \notin expected.quarantined
  BY DEF inventory_problems
<1>2. /\ expected.regular_season \in Nat /\ expected.cup_finals \in Nat
      /\ IsFiniteSet(expected.quarantined) /\ Cardinality(expected.quarantined) \in Nat
      /\ Cardinality(Played(season, "regular_season") \ expected.quarantined)
            <= expected.regular_season - Cardinality(expected.quarantined)
      /\ Cardinality(Played(season, "cup_final")) <= expected.cup_finals
  BY EvaluationAssumption, FS_CardinalityType
<1> HIDE DEF expected
<1>3. /\ IsFiniteSet(R) /\ Cardinality(R) \in Nat
      /\ Cardinality(R) <= expected.regular_season - Cardinality(expected.quarantined)
  <2> DEFINE ids == IdsOf(season, "regular_season", expected.quarantined)
  <2>1. /\ IsFiniteSet(R) /\ Cardinality(R) \in Nat /\ Cardinality(ids) \in Nat
        /\ Cardinality(R) <= Cardinality(ids)
    <3>1. \A g \in games : g.id \notin expected.quarantined
      BY <1>1
    <3> QED BY ONLY <3>1, IsTable(games), NoMoreThanPlayed
  <2>2. Cardinality(ids) <= expected.regular_season - Cardinality(expected.quarantined)
    BY <1>2 DEF IdsOf
  <2> HIDE DEF R, ids
  <2> QED BY <1>2, <2>1, <2>2
<1>4. IsFiniteSet(C) /\ Cardinality(C) \in Nat /\ Cardinality(C) <= expected.cup_finals
  <2> DEFINE ids == IdsOf(season, "cup_final", {})
  <2>1. /\ IsFiniteSet(C) /\ Cardinality(C) \in Nat /\ Cardinality(ids) \in Nat
        /\ Cardinality(C) <= Cardinality(ids)
    BY ONLY IsTable(games), NoMoreThanPlayed
  <2>2. ids = Played(season, "cup_final")
    BY DEF IdsOf
  <2>3. Cardinality(ids) <= expected.cup_finals
    BY <1>2, <2>2
  <2> HIDE DEF C, ids
  <2> QED BY <1>2, <2>1, <2>3
<1>5. Found("regular_season") = R
  <2> DEFINE F == Found("regular_season")
  <2>1. F \in SUBSET R
    BY DEF KindOf
  <2>2. Cardinality(F) = expected.regular_season - Cardinality(expected.quarantined)
    BY <1>1
  <2> HIDE DEF F, R
  <2>3. Cardinality(F) <= Cardinality(R) /\ (Cardinality(R) = Cardinality(F) => R = F)
    BY <1>3, <2>1, FS_Subset
  <2>4. Cardinality(R) = Cardinality(F)
    BY <1>2, <1>3, <2>2, <2>3
  <2> QED BY <2>3, <2>4 DEF F
<1>6. Found("cup_final") = C
  <2> DEFINE F == Found("cup_final")
  <2>1. F \in SUBSET C
    BY DEF KindOf
  <2>2. Cardinality(F) = expected.cup_finals
    BY <1>1
  <2> HIDE DEF F, C
  <2>3. Cardinality(F) <= Cardinality(C) /\ (Cardinality(C) = Cardinality(F) => C = F)
    BY <1>4, <2>1, FS_Subset
  <2>4. Cardinality(C) = Cardinality(F)
    BY <1>2, <1>4, <2>2, <2>3
  <2> QED BY <2>3, <2>4 DEF F
<1>7. here = R \union C /\ R \intersect C = {}
  BY DEF History, HISTORY_GAME_TYPES, KindOf
<1>8. \A g \in here : Scored(g) /\ g.id \notin expected.quarantined
  BY <1>1, <1>5, <1>6, <1>7 DEF KindOf
<1>9. /\ Cardinality(R) = expected.regular_season - Cardinality(expected.quarantined)
      /\ Cardinality(C) = expected.cup_finals
  BY <1>1, <1>5, <1>6
<1>10. Cardinality(R \union C) = Cardinality(R) + Cardinality(C)
  <2> HIDE DEF R, C
  <2>1. Cardinality(R \union C) = Cardinality(R) + Cardinality(C) - Cardinality(R \intersect C)
    BY <1>3, <1>4, FS_Union
  <2>2. Cardinality(R \intersect C) = 0
    BY <1>7, FS_EmptySet
  <2> QED BY <1>3, <1>4, <2>1, <2>2
<1>11. Cardinality(here) = expected.regular_season + expected.cup_finals
                             - Cardinality(expected.quarantined)
  <2> HIDE DEF R, C, here
  <2> QED BY <1>2, <1>3, <1>4, <1>7, <1>9, <1>10
<1> QED BY <1>8, <1>11 DEF expected

(* What a run has read: rows of a table, all of them history.               *)
IsRead(games) == IsTable(games) /\ games = History(games)

(* What one read of a table returns.                                        *)
LEMMA ReadIsTable ==
  ASSUME NEW table, IsTable(table), NEW through \in {SELECTION_SEASON, TEST_SEASON}
  PROVE  LET games == load_team_game_history(table, through)
         IN  /\ IsRead(games) /\ IsTable(games) /\ games = History(games)
             /\ \A g \in games : g.season \in FIRST_HISTORY_SEASON..through
<1> DEFINE games == load_team_game_history(table, through)
<1>1. games \in SUBSET table /\ games = History(games) /\ \A g \in games : g.season <= through
  BY DEF load_team_game_history, History
<1>2. IsFiniteSet(games)
  BY <1>1, FS_Subset DEF IsTable
<1> HIDE DEF games
<1>3. IsTable(games)
  BY <1>1, <1>2 DEF IsTable
<1>4. \A g \in games : g.season \in Nat /\ g.season >= FIRST_HISTORY_SEASON
  BY <1>3, EvaluationAssumption DEF IsTable, IsGame
<1>5. \A g \in games : g.season \in FIRST_HISTORY_SEASON..through
  BY <1>1, <1>4, EvaluationAssumption
<1> QED BY <1>1, <1>3, <1>5 DEF games, IsRead

(* The second read, once accepted, is whole.                                *)
LEMMA SecondIsWhole ==
  ASSUME NEW table, IsTable(table),
         _load_dataset(load_team_game_history(table, TEST_SEASON), TEST_SEASON)
  PROVE  IsWhole(load_team_game_history(table, TEST_SEASON))
<1> DEFINE games == load_team_game_history(table, TEST_SEASON)
<1>1. /\ IsTable(games) /\ games = History(games)
      /\ \A g \in games : g.season \in FIRST_HISTORY_SEASON..TEST_SEASON
  BY ReadIsTable
<1>2. \A season \in FIRST_HISTORY_SEASON..TEST_SEASON : ~inventory_problems(games, season)
  BY DEF _load_dataset
<1> HIDE DEF games
<1>3. ASSUME NEW season \in FIRST_HISTORY_SEASON..TEST_SEASON
      PROVE  /\ \A g \in games : g.season = season =>
                    Scored(g) /\ g.id \notin GAME_INVENTORY[season].quarantined
             /\ Cardinality({g \in games : g.season = season}) =
                   GAME_INVENTORY[season].regular_season + GAME_INVENTORY[season].cup_finals
                   - Cardinality(GAME_INVENTORY[season].quarantined)
  <2>1. ~inventory_problems(games, season)
    BY <1>2
  <2> QED BY <1>1, <2>1, SeasonIsWhole
<1>4. IsWhole(games)
  BY <1>1, <1>3 DEF IsWhole
<1> QED BY <1>4 DEF games

(* What the first read, once accepted, shows of the selection's seasons.    *)
IsFirst(games) ==
  /\ IsRead(games)
  /\ \A g \in games : g.season \in Nat /\ g.season <= SELECTION_SEASON
  /\ \E g \in games : g.season = SELECTION_SEASON

(* An accepted first read has a game of the selection's season: the         *)
(* inventory has more games than it quarantines.                            *)
LEMMA FirstReachesSelection ==
  ASSUME NEW table, IsTable(table),
         _load_dataset(load_team_game_history(table, SELECTION_SEASON), SELECTION_SEASON)
  PROVE  IsFirst(load_team_game_history(table, SELECTION_SEASON))
<1> DEFINE games == load_team_game_history(table, SELECTION_SEASON)
           here == {g \in games : g.season = SELECTION_SEASON}
           quarantined == GAME_INVENTORY[SELECTION_SEASON].quarantined
           expected == GAME_INVENTORY[SELECTION_SEASON].regular_season
           finals == GAME_INVENTORY[SELECTION_SEASON].cup_finals
<1>1. /\ IsRead(games) /\ IsTable(games) /\ games = History(games)
      /\ \A g \in games : g.season \in FIRST_HISTORY_SEASON..SELECTION_SEASON
  BY ReadIsTable
<1>2. /\ SELECTION_SEASON \in FIRST_HISTORY_SEASON..SELECTION_SEASON
      /\ SELECTION_SEASON \in FIRST_HISTORY_SEASON..TEST_SEASON
  BY EvaluationAssumption
<1>3. ~inventory_problems(games, SELECTION_SEASON)
  BY <1>2 DEF _load_dataset
<1>4. Cardinality(here) = expected + finals - Cardinality(quarantined)
  <2> HIDE DEF games
  <2> QED BY <1>1, <1>2, <1>3, SeasonIsWhole
<1>5. /\ expected \in Nat /\ finals \in Nat /\ Cardinality(quarantined) \in Nat
      /\ Cardinality(quarantined) < expected
  BY <1>2, EvaluationAssumption, FS_CardinalityType
<1>6. here # {}
  <2> HIDE DEF here, expected, finals, quarantined
  <2>1. Cardinality(here) # 0
    BY <1>4, <1>5
  <2> QED BY <2>1, FS_EmptySet
<1>7. IsFirst(games)
  <2> HIDE DEF games
  <2> QED BY <1>1, <1>6, EvaluationAssumption DEF IsFirst
<1> QED BY <1>7 DEF games

(* The last season of the first read is the selection's, so the second read *)
(* repeats all that was selected on.                                        *)
LEMMA SameHistory ==
  ASSUME NEW selected_on, IsFirst(selected_on), NEW tested_on,
         _require_same_history(selected_on, tested_on)
  PROVE  /\ {g \in tested_on : g.season <= SELECTION_SEASON} = selected_on
         /\ tested_on # {}
<1> DEFINE seasons == {g.season : g \in selected_on}
<1>1. SELECTION_SEASON \in seasons /\ seasons \subseteq Nat
      /\ \A s \in seasons : s <= SELECTION_SEASON
  BY DEF IsFirst
<1>2. Max(seasons) = SELECTION_SEASON
  <2> HIDE DEF seasons
  <2>1. \E x \in seasons : \A y \in seasons : x >= y
    BY <1>1
  <2>2. Max(seasons) \in seasons /\ \A y \in seasons : Max(seasons) >= y
    BY <2>1 DEF Max
  <2>3. Max(seasons) \in Nat /\ SELECTION_SEASON \in Nat
        /\ Max(seasons) >= SELECTION_SEASON /\ Max(seasons) <= SELECTION_SEASON
    BY <1>1, <2>2
  <2> QED BY <2>3
<1> QED BY <1>2 DEF _require_same_history, IsFirst

-----------------------------------------------------------------------------
(* The Elo ratings.                                                         *)

(* Games that have an order: a table's, or some of them.                    *)
AreOrdered(games) ==
  /\ IsFiniteSet(games)
  /\ \A g \in games : g.id \in Int /\ g.date \in Int
  /\ \A g, h \in games : g.id = h.id => g = h

(* Of some games one is the latest.                                         *)
LEMMA LatestExists ==
  ASSUME NEW games, AreOrdered(games), games # {}
  PROVE  LatestGame(games) \in games
<1> DEFINE Later(g) == {h \in games : Before(g, h)}
           Sizes == {Cardinality(Later(g)) : g \in games}
<1>1. \A g \in games : IsFiniteSet(Later(g)) /\ Cardinality(Later(g)) \in Nat
  BY FS_Subset, FS_CardinalityType DEF AreOrdered
<1>2. PICK n \in Sizes : \A m \in Sizes : n <= m
  <2>1. Sizes \subseteq Nat /\ Sizes # {}
    <3> HIDE DEF Later
    <3> QED BY <1>1
  <2> HIDE DEF Sizes
  <2> QED BY <2>1, LeastExists
<1>3. PICK g \in games : n = Cardinality(Later(g))
  BY <1>2
<1>4. ASSUME NEW h \in games, h # g, ~Before(h, g)
      PROVE  FALSE
  <2>1. Before(g, h) /\ ~Before(h, h)
    BY <1>4 DEF AreOrdered, Before
  <2>2. \A x \in games : Before(h, x) => Before(g, x)
    BY <2>1 DEF AreOrdered, Before
  <2>3. Later(h) \subseteq Later(g) /\ h \in Later(g) /\ h \notin Later(h)
    BY <2>1, <2>2
  <2>4. Cardinality(Later(h)) <= Cardinality(Later(g)) /\ Cardinality(Later(h)) # Cardinality(Later(g))
    <3> HIDE DEF Later
    <3> QED BY <2>3, <1>1, FS_Subset
  <2>5. n <= Cardinality(Later(h))
    BY <1>2
  <2> HIDE DEF Later
  <2> QED BY <1>1, <1>3, <2>4, <2>5
<1> QED BY <1>4 DEF LatestGame

(* The ratings after the latest of the games that are fed.                  *)
AfterLatest(after, fed) ==
  IF fed = {} THEN {} ELSE update(after[fed \ {LatestGame(fed)}], LatestGame(fed))

(* The sets of games that are no more than n.                               *)
UpTo(games, n) == {fed \in SUBSET games : Cardinality(fed) <= n}

(* The recursion defines a function: one that is right up to n games gives  *)
(* one that is right up to one more.                                        *)
LEMMA RatingsAreDefined ==
  ASSUME NEW games, AreOrdered(games)
  PROVE  \E after : after = [fed \in SUBSET games |-> AfterLatest(after, fed)]
<1> DEFINE IsUpTo(after, n) == after = [fed \in UpTo(games, n) |-> AfterLatest(after, fed)]
           Bad == {n \in Nat : \A after : ~IsUpTo(after, n)}
<1>1. \A fed \in SUBSET games : AreOrdered(fed) /\ Cardinality(fed) \in Nat
  BY FS_Subset, FS_CardinalityType DEF AreOrdered
<1>2. Bad = {}
  <2> SUFFICES ASSUME Bad # {} PROVE FALSE
    OBVIOUS
  <2>1. PICK n \in Bad : \A m \in Bad : n <= m
    <3> HIDE DEF Bad
    <3>1. Bad \subseteq Nat
      BY DEF Bad
    <3> QED BY <3>1, LeastExists
  <2>2. n # 0
    <3> SUFFICES ASSUME n = 0 PROVE FALSE
      OBVIOUS
    <3>1. \A fed \in UpTo(games, 0) : fed = {}
      BY <1>1, FS_EmptySet DEF UpTo, AreOrdered
    <3>2. PICK after : after = [fed \in UpTo(games, 0) |-> {}]
      OBVIOUS
    <3>3. IsUpTo(after, 0)
      BY <3>1, <3>2 DEF AfterLatest
    <3> QED BY <2>1, <3>3
  <2>3. n - 1 \in Nat /\ n - 1 \notin Bad
    BY <2>1, <2>2
  <2>4. PICK before : IsUpTo(before, n - 1)
    BY <2>3
  <2>5. PICK after : after = [fed \in UpTo(games, n) |-> AfterLatest(before, fed)]
    OBVIOUS
  <2>6. ASSUME NEW fed \in UpTo(games, n), fed # {}
        PROVE  after[fed \ {LatestGame(fed)}] = before[fed \ {LatestGame(fed)}]
    <3>1. LatestGame(fed) \in fed /\ IsFiniteSet(fed) /\ fed \in SUBSET games
      BY <1>1, <2>6, LatestExists DEF UpTo, AreOrdered
    <3>2. PICK rest : rest = fed \ {LatestGame(fed)}
      OBVIOUS
    <3>3. Cardinality(rest) = Cardinality(fed) - 1 /\ Cardinality(fed) \in Nat /\ Cardinality(fed) <= n
      BY <1>1, <3>1, <3>2, FS_RemoveElement DEF UpTo
    <3>4. rest \in UpTo(games, n - 1) /\ rest \in UpTo(games, n)
      BY <2>3, <3>1, <3>2, <3>3 DEF UpTo
    <3>5. after[rest] = AfterLatest(before, rest)
      BY <2>5, <3>4
    <3>6. before[rest] = AfterLatest(before, rest)
      BY <2>4, <3>4
    <3> QED BY <3>2, <3>5, <3>6
  <2>7. \A fed \in UpTo(games, n) : AfterLatest(before, fed) = AfterLatest(after, fed)
    BY <2>6 DEF AfterLatest
  <2>8. IsUpTo(after, n)
    BY <2>5, <2>7
  <2> QED BY <2>1, <2>8
<1>3. PICK after : IsUpTo(after, Cardinality(games))
  <2>1. Cardinality(games) \in Nat
    BY <1>1
  <2> QED BY <1>2, <2>1
<1>4. UpTo(games, Cardinality(games)) = SUBSET games
  BY FS_Subset DEF UpTo, AreOrdered
<1> QED BY <1>3, <1>4

(* A game of the ratings update adds itself only.                           *)
LEMMA UpdateAdds ==
  ASSUME NEW ratings, NEW g, NEW ids, \A r \in ratings : r.value \subseteq ids
  PROVE  \A r \in update(ratings, g) : r.value \subseteq ids \union {g.id}
<1>1. \A team : pregame(ratings, team, g.season).value \subseteq ids
  BY DEF pregame
<1> QED BY <1>1 DEF update

(* A rating rests on no other games than those that were fed.               *)
LEMMA RatingsRestOnFed ==
  ASSUME NEW games, AreOrdered(games)
  PROVE  \A r \in RatingsAfter(games) : r.value \subseteq {g.id : g \in games}
<1> DEFINE Ids(fed) == {g.id : g \in fed}
<1>1. PICK f : f = [fed \in SUBSET games |-> AfterLatest(f, fed)]
  BY RatingsAreDefined
<1>2. PICK after : /\ after = [fed \in SUBSET games |-> AfterLatest(after, fed)]
                   /\ RatingsAfter(games) = after[games]
  BY <1>1 DEF RatingsAfter, AfterLatest
<1> DEFINE Sound(fed) == \A r \in after[fed] : r.value \subseteq Ids(fed)
           Bad == {fed \in SUBSET games : ~Sound(fed)}
           Sizes == {Cardinality(fed) : fed \in Bad}
<1>3. \A fed \in SUBSET games : AreOrdered(fed) /\ Cardinality(fed) \in Nat
  BY FS_Subset, FS_CardinalityType DEF AreOrdered
<1>4. Bad = {}
  <2> SUFFICES ASSUME Bad # {} PROVE FALSE
    OBVIOUS
  <2>1. PICK n \in Sizes : \A m \in Sizes : n <= m
    <3>1. Sizes \subseteq Nat /\ Sizes # {}
      <4> HIDE DEF Sound
      <4> QED BY <1>3
    <3> HIDE DEF Sizes
    <3> QED BY <3>1, LeastExists
  <2>2. PICK fed \in Bad : n = Cardinality(fed)
    BY <2>1
  <2>3. fed # {}
    BY <1>2, <2>2 DEF AfterLatest
  <2>4. PICK g : g = LatestGame(fed)
    OBVIOUS
  <2>5. g \in fed /\ IsFiniteSet(fed) /\ fed \in SUBSET games
    BY <1>3, <2>2, <2>3, <2>4, LatestExists DEF AreOrdered
  <2>6. Cardinality(fed \ {g}) < n /\ fed \ {g} \in SUBSET games
    <3>1. Cardinality(fed \ {g}) = Cardinality(fed) - 1
      BY <2>5, FS_RemoveElement
    <3>2. Cardinality(fed) \in Nat
      BY <1>3, <2>5
    <3> QED BY <2>2, <2>5, <3>1, <3>2
  <2>7. Sound(fed \ {g})
    <3> SUFFICES ASSUME ~Sound(fed \ {g}) PROVE FALSE
      OBVIOUS
    <3> HIDE DEF Sound
    <3>1. fed \ {g} \in Bad
      BY <2>6
    <3>2. Cardinality(fed \ {g}) \in Sizes /\ Cardinality(fed \ {g}) \in Nat /\ n \in Nat
      BY <1>3, <2>2, <2>6, <3>1
    <3> QED BY <2>1, <2>6, <3>2
  <2>8. after[fed] = update(after[fed \ {g}], g)
    BY <1>2, <2>3, <2>4, <2>5 DEF AfterLatest
  <2>9. Ids(fed \ {g}) \union {g.id} = Ids(fed)
    BY <2>5
  <2>10. \A r \in update(after[fed \ {g}], g) : r.value \subseteq Ids(fed \ {g}) \union {g.id}
    <3> HIDE DEF Ids
    <3> QED BY <2>7, UpdateAdds
  <2>11. Sound(fed)
    <3> HIDE DEF Ids
    <3> QED BY <2>8, <2>9, <2>10
  <2> QED BY <2>2, <2>11
<1> QED BY <1>2, <1>4

-----------------------------------------------------------------------------
(* The features.                                                            *)

(* What is known of the games of a read.                                    *)
LEMMA ReadFacts ==
  ASSUME NEW games, IsRead(games)
  PROVE  /\ RESULTS_CUTOFF_DAYS \in Nat /\ IsFiniteSet(games)
         /\ \A g \in games : /\ TeamGameRecord \subseteq DOMAIN g
                             /\ g.id \in Int /\ g.date \in Int /\ g.season \in Nat
                             /\ g.status = "final" /\ g.type \in HISTORY_GAME_TYPES
         /\ \A g, h \in games : g.id = h.id => g = h
         /\ \A g, h \in games : g.season < h.season => g.date + RESULTS_CUTOFF_DAYS <= h.date
<1>1. \A g \in games : IsGame(g) /\ g.status = "final" /\ g.type \in HISTORY_GAME_TYPES
  BY DEF IsRead, IsTable, History
<1>2. RESULTS_CUTOFF_DAYS \in Nat
  BY EvaluationAssumption
<1>3. \A g \in games : TeamGameRecord \subseteq DOMAIN g /\ g.id \in Int /\ g.date \in Int /\ g.season \in Nat
  BY <1>1, EvaluationAssumption DEF IsGame
<1>4. \A g, h \in games : g.season < h.season => g.date + RESULTS_CUTOFF_DAYS <= h.date
  BY <1>1, EvaluationAssumption DEF IsGame
<1> QED BY <1>1, <1>2, <1>3, <1>4 DEF IsRead, IsTable

(* The games that are old enough when t is predicted.                       *)
EarlierThan(t, games) == {g \in games : g.date <= t.date - RESULTS_CUTOFF_DAYS}

(* A row's cutoff does not depend on the other rows.                        *)
LEMMA CutoffOf ==
  ASSUME NEW t
  PROVE  _results_cutoff(t, NONE) = t.date - RESULTS_CUTOFF_DAYS
BY DEF _results_cutoff

(* The sweep for many rows gives a row what a sweep of its own would: the   *)
(* rows before it in the order have no later cutoffs.                       *)
LEMMA SweepOfMany ==
  ASSUME NEW games, NEW rows, NEW t \in rows,
         \A g \in games \union rows : g.id \in Int /\ g.date \in Int,
         RESULTS_CUTOFF_DAYS \in Nat,
         NEW cutoffs, \A row \in rows : cutoffs[row] = row.date - RESULTS_CUTOFF_DAYS
  PROVE  Sweep(games, rows, cutoffs, t) =
           RatingsAfter({g \in EarlierThan(t, games) : Scored(g)})
<1> DEFINE fed == {g \in games : /\ Scored(g)
                                 /\ \E other \in rows : ~Before(t, other) /\ g.date <= cutoffs[other]}
<1>1. ~Before(t, t)
  BY DEF Before
<1>2. \A other \in rows : ~Before(t, other) => other.date <= t.date
  BY DEF Before
<1>3. \A g \in games : (\E other \in rows : ~Before(t, other) /\ g.date <= cutoffs[other])
                         <=> g.date <= t.date - RESULTS_CUTOFF_DAYS
  BY <1>1, <1>2
<1>4. fed = {g \in EarlierThan(t, games) : Scored(g)}
  BY <1>3 DEF EarlierThan
<1> QED BY <1>4 DEF Sweep

(* What the row of t is made from.                                          *)
RatingsFor(t, games) == RatingsAfter({g \in EarlierThan(t, games) : Scored(g)})
KnownTo(t, games) == [team \in Teams(t) |-> {g \in EarlierThan(t, games) : g.season = t.season /\ team \in Teams(g)}]
DatesFor(t, games) == [team \in Teams(t) |-> {g.date : g \in {h \in games : h.season = t.season /\ team \in Teams(h)}}]

(* The row of a target among others, from the history that was read.        *)
LEMMA RowAmongMany ==
  ASSUME NEW games, IsRead(games), NEW t \in AllTargets(games)
  PROVE  build_team_features(games, AllTargets(games), NONE)[t.id]
           = TeamFeatureRow(t, RatingsFor(t, games), KnownTo(t, games), DatesFor(t, games))
<1> DEFINE targets == AllTargets(games)
           cutoffs == [x \in targets |-> _results_cutoff(x, NONE)]
<1>1. targets \in SUBSET games /\ games = History(games)
  BY DEF AllTargets, Targets, IsRead
<1>2. /\ RESULTS_CUTOFF_DAYS \in Nat
      /\ \A g \in games : g.id \in Int /\ g.date \in Int /\ g.status = "final"
      /\ \A g, h \in games : g.id = h.id => g = h
  BY ReadFacts
<1>3. \A row \in targets : cutoffs[row] = row.date - RESULTS_CUTOFF_DAYS
  BY CutoffOf
<1>4. (CHOOSE x \in targets : x.id = t.id) = t
  <2> HIDE DEF targets
  <2> QED BY <1>1, <1>2 DEF targets
<1>5. Sweep(History(games), targets, cutoffs, t) = RatingsFor(t, games)
  <2> HIDE DEF targets, cutoffs
  <2>1. t \in targets
    BY DEF targets
  <2>2. \A g \in games \union targets : g.id \in Int /\ g.date \in Int
    BY <1>1, <1>2
  <2> QED BY <1>1, <1>2, <1>3, <2>1, <2>2, SweepOfMany DEF RatingsFor
<1>6. \A team : Known(games, team, t.season, cutoffs[t])
                  = {g \in EarlierThan(t, games) : g.season = t.season /\ team \in Teams(g)}
  <2>1. cutoffs[t] = t.date - RESULTS_CUTOFF_DAYS
    BY <1>3
  <2> HIDE DEF cutoffs
  <2> QED BY <1>1, <2>1 DEF Known, team_history, EarlierThan
<1>7. \A team : schedule(games, team, t.season)
                  = {g.date : g \in {h \in games : h.season = t.season /\ team \in Teams(h)}}
  BY <1>2 DEF schedule
<1>8. [team \in Teams(t) |-> Known(games, team, t.season, cutoffs[t])] = KnownTo(t, games)
  <2> HIDE DEF cutoffs
  <2> QED BY <1>6 DEF KnownTo
<1>9. [team \in Teams(t) |-> schedule(games, team, t.season)] = DatesFor(t, games)
  BY <1>7 DEF DatesFor
<1>10. t.id \in {x.id : x \in targets}
  OBVIOUS
<1> DEFINE Row(x) == TeamFeatureRow(x, Sweep(History(games), targets, cutoffs, x),
                       [team \in Teams(x) |-> Known(games, team, x.season, cutoffs[x])],
                       [team \in Teams(x) |-> schedule(games, team, x.season)])
<1>11. build_team_features(games, targets, NONE)
         = [id \in {x.id : x \in targets} |-> Row(CHOOSE x \in targets : x.id = id)]
  BY DEF build_team_features
<1>12. build_team_features(games, targets, NONE)[t.id] = Row(t)
  <2> HIDE DEF targets, cutoffs, Row
  <2> QED BY <1>4, <1>10, <1>11
<1> QED BY <1>5, <1>8, <1>9, <1>12

(* What may be known of one game when t is predicted.                       *)
KnownAs(t, g) ==
  IF g.date <= t.date - RESULTS_CUTOFF_DAYS THEN g
  ELSE [g EXCEPT !.score = NONE, !.blank = Teams(g) \X METRICS, !.status = "scheduled"]

(* A hidden result leaves the game's day, season and teams, and takes it    *)
(* out of the history.                                                      *)
LEMMA KnownAsFacts ==
  ASSUME NEW t, NEW g, TeamGameRecord \subseteq DOMAIN g, g.status = "final"
  PROVE  LET k == KnownAs(t, g)
         IN  /\ k.date = g.date /\ k.season = g.season /\ Teams(k) = Teams(g)
             /\ k.status # "postponed"
             /\ g.date <= t.date - RESULTS_CUTOFF_DAYS => k = g
             /\ ~(g.date <= t.date - RESULTS_CUTOFF_DAYS) => k.status = "scheduled"
BY DEF KnownAs, TeamGameRecord, Teams

(* A target whose own result is hidden is the same target.                  *)
LEMMA HiddenFacts ==
  ASSUME NEW t, TeamGameRecord \subseteq DOMAIN t
  PROVE  /\ Hidden(t).id = t.id /\ Hidden(t).date = t.date /\ Hidden(t).season = t.season
         /\ Hidden(t).home = t.home /\ Hidden(t).away = t.away /\ Hidden(t).neutral = t.neutral
         /\ Teams(Hidden(t)) = Teams(t)
BY DEF Hidden, TeamGameRecord, Teams

(* The row of a game alone, from a schedule whose later results are hidden. *)
LEMMA RowAlone ==
  ASSUME NEW games, IsRead(games), NEW t \in games
  PROVE  build_team_features(KnowableFor(t, games), {Hidden(t)}, NONE)[t.id]
           = TeamFeatureRow(t, RatingsFor(t, games), KnownTo(t, games), DatesFor(t, games))
<1> DEFINE shown == KnowableFor(t, games)
           h == Hidden(t)
           cutoffs == [x \in {h} |-> _results_cutoff(x, NONE)]
           Row(x) == TeamFeatureRow(x, Sweep(History(shown), {h}, cutoffs, x),
                       [team \in Teams(x) |-> Known(shown, team, x.season, cutoffs[x])],
                       [team \in Teams(x) |-> schedule(shown, team, x.season)])
<1>1. /\ games = History(games) /\ RESULTS_CUTOFF_DAYS \in Nat
      /\ \A g \in games : /\ TeamGameRecord \subseteq DOMAIN g /\ g.status = "final"
                          /\ g.type \in HISTORY_GAME_TYPES /\ g.id \in Int /\ g.date \in Int
  BY ReadFacts DEF IsRead
<1>2. /\ h.id = t.id /\ h.date = t.date /\ h.season = t.season
      /\ h.home = t.home /\ h.away = t.away /\ h.neutral = t.neutral /\ Teams(h) = Teams(t)
  BY <1>1, HiddenFacts
<1>3. shown = {KnownAs(t, g) : g \in games}
  BY DEF KnowableFor, KnownAs
<1>4. \A g \in games : /\ KnownAs(t, g).date = g.date /\ KnownAs(t, g).season = g.season
                       /\ Teams(KnownAs(t, g)) = Teams(g) /\ KnownAs(t, g).status # "postponed"
                       /\ g.date <= t.date - RESULTS_CUTOFF_DAYS => KnownAs(t, g) = g
                       /\ ~(g.date <= t.date - RESULTS_CUTOFF_DAYS) => KnownAs(t, g).status = "scheduled"
  BY <1>1, KnownAsFacts
<1>5. cutoffs[h] = t.date - RESULTS_CUTOFF_DAYS
  BY <1>2, CutoffOf
<1> HIDE DEF shown, h, cutoffs, Row
<1>6. History(shown) = EarlierThan(t, games)
  <2>1. \A g \in games : KnownAs(t, g) \in History(shown) => g.date <= t.date - RESULTS_CUTOFF_DAYS
    BY <1>4 DEF History
  <2>2. History(shown) \subseteq EarlierThan(t, games)
    BY <1>3, <1>4, <2>1 DEF EarlierThan, History
  <2>3. EarlierThan(t, games) \subseteq History(shown)
    BY <1>1, <1>3, <1>4 DEF EarlierThan, History
  <2> QED BY <2>2, <2>3
<1>7. Sweep(History(shown), {h}, cutoffs, h) = RatingsFor(t, games)
  <2>1. EarlierThan(h, EarlierThan(t, games)) = EarlierThan(t, games)
    BY <1>2 DEF EarlierThan
  <2>2. \A g \in EarlierThan(t, games) \union {h} : g.id \in Int /\ g.date \in Int
    BY <1>1, <1>2 DEF EarlierThan
  <2>3. \A row \in {h} : cutoffs[row] = row.date - RESULTS_CUTOFF_DAYS
    BY <1>2, <1>5
  <2>4. PICK earlier : earlier = EarlierThan(t, games)
    OBVIOUS
  <2>5. Sweep(earlier, {h}, cutoffs, h) = RatingsAfter({g \in EarlierThan(h, earlier) : Scored(g)})
    <3>1. h \in {h} /\ \A g \in earlier \union {h} : g.id \in Int /\ g.date \in Int
      BY <2>2, <2>4
    <3> QED BY <1>1, <2>3, <3>1, SweepOfMany
  <2> QED BY <1>6, <2>1, <2>4, <2>5 DEF RatingsFor
<1>8. [team \in Teams(h) |-> Known(shown, team, h.season, cutoffs[h])] = KnownTo(t, games)
  BY <1>2, <1>5, <1>6 DEF Known, team_history, KnownTo, EarlierThan
<1>9. [team \in Teams(h) |-> schedule(shown, team, h.season)] = DatesFor(t, games)
  <2>1. \A team : schedule(shown, team, t.season)
                    = {g.date : g \in {x \in games : x.season = t.season /\ team \in Teams(x)}}
    BY <1>3, <1>4 DEF schedule
  <2> QED BY <1>2, <2>1 DEF DatesFor
<1>10. build_team_features(shown, {h}, NONE)
         = [id \in {x.id : x \in {h}} |-> Row(CHOOSE x \in {h} : x.id = id)]
  BY DEF build_team_features, cutoffs, Row
<1>11. build_team_features(shown, {h}, NONE)[t.id] = Row(h)
  <2>1. (CHOOSE x \in {h} : x.id = t.id) = h
    BY <1>2
  <2> QED BY <1>2, <1>10, <2>1
<1>12. Row(h) = TeamFeatureRow(h, RatingsFor(t, games), KnownTo(t, games), DatesFor(t, games))
  BY <1>7, <1>8, <1>9 DEF Row
<1>13. TeamFeatureRow(h, RatingsFor(t, games), KnownTo(t, games), DatesFor(t, games))
         = TeamFeatureRow(t, RatingsFor(t, games), KnownTo(t, games), DatesFor(t, games))
  BY <1>2 DEF TeamFeatureRow
<1> QED BY <1>11, <1>12, <1>13 DEF shown, h

(* The features of a read leak nothing: both sides are made from the same   *)
(* parts.                                                                   *)
LEMMA FeaturesAreSound ==
  ASSUME NEW games, IsRead(games)
  PROVE  FeaturesLeakNothing(games)
<1>1. ASSUME NEW t \in AllTargets(games)
      PROVE  build_team_features(games, AllTargets(games), NONE)[t.id]
               = build_team_features(KnowableFor(t, games), {Hidden(t)}, NONE)[t.id]
  <2>1. t \in games
    BY DEF AllTargets, Targets
  <2> QED BY <2>1, RowAmongMany, RowAlone
<1> QED BY <1>1 DEF FeaturesLeakNothing

-----------------------------------------------------------------------------
(* The predictions.                                                         *)

IdsIn(games) == {g.id : g \in games}

(* Some games of a read have an order.                                      *)
LEMMA EarlierAreOrdered ==
  ASSUME NEW games, IsRead(games), NEW some \in SUBSET games
  PROVE  AreOrdered(some)
<1>1. IsFiniteSet(some)
  BY ReadFacts, FS_Subset
<1> QED BY <1>1, ReadFacts DEF AreOrdered

(* A feature rests on games that were known.                                *)
LEMMA RowRestsOnEarlier ==
  ASSUME NEW games, IsRead(games), NEW t \in AllTargets(games)
  PROVE  RestsOn(build_team_features(games, AllTargets(games), NONE)[t.id])
           \subseteq IdsIn(EarlierThan(t, games))
<1> DEFINE ids == IdsIn(EarlierThan(t, games))
           ratings == RatingsFor(t, games)
           known == KnownTo(t, games)
           row == TeamFeatureRow(t, ratings, known, DatesFor(t, games))
           windows == [team \in Teams(t) |-> _window_values(known[team], team)]
<1>1. \A r \in ratings : r.value \subseteq ids
  <2> DEFINE fed == {g \in EarlierThan(t, games) : Scored(g)}
  <2>1. fed \in SUBSET games /\ IdsIn(fed) \subseteq ids
    BY DEF EarlierThan, IdsIn
  <2>2. ratings = RatingsAfter(fed)
    BY DEF RatingsFor
  <2> HIDE DEF fed, ratings, ids
  <2>3. AreOrdered(fed)
    BY <2>1, EarlierAreOrdered
  <2>4. \A r \in RatingsAfter(fed) : r.value \subseteq IdsIn(fed)
    BY <2>3, RatingsRestOnFed DEF IdsIn
  <2> QED BY <2>1, <2>2, <2>4
<1>2. \A team : pregame(ratings, team, t.season).value \subseteq ids
  <2> HIDE DEF ratings, ids
  <2> QED BY <1>1 DEF pregame
<1>3. \A team \in Teams(t) : known[team] \subseteq EarlierThan(t, games)
  BY DEF KnownTo
<1>4. ASSUME NEW team \in Teams(t), NEW f \in METRICS \X WINDOWS, windows[team][f] # NONE
      PROVE  windows[team][f] \subseteq ids
  <2>1. windows[team][f] = _rate(LastGames(known[team], f[2]), team, f[1])
    BY DEF _window_values
  <2>2. LastGames(known[team], f[2]) \subseteq EarlierThan(t, games)
    <3> HIDE DEF known
    <3> QED BY <1>3 DEF LastGames
  <2> HIDE DEF windows, known
  <2>3. windows[team][f] = {g.id : g \in {h \in LastGames(known[team], f[2]) : <<team, f[1]>> \notin h.blank}}
    BY <1>4, <2>1 DEF _rate
  <2> QED BY <2>2, <2>3 DEF IdsIn
<1>5. /\ row.elo_home = pregame(ratings, t.home, t.season)
      /\ row.elo_away = pregame(ratings, t.away, t.season)
      /\ row.windows = [f \in METRICS \X WINDOWS |-> _difference(windows[t.home][f], windows[t.away][f])]
  BY DEF TeamFeatureRow
<1> HIDE DEF ids, ratings, known, windows, row
<1>6. ASSUME NEW f \in DOMAIN row.windows, row.windows[f] # NONE
      PROVE  row.windows[f][1] \union row.windows[f][2] \subseteq ids
  <2>1. f \in METRICS \X WINDOWS /\ t.home \in Teams(t) /\ t.away \in Teams(t)
    BY <1>5 DEF Teams
  <2>2. /\ windows[t.home][f] # NONE /\ windows[t.away][f] # NONE
        /\ row.windows[f] = <<windows[t.home][f], windows[t.away][f]>>
    BY <1>5, <1>6, <2>1 DEF _difference
  <2> QED BY <1>4, <2>1, <2>2
<1>7. RestsOn(row) \subseteq ids
  BY <1>2, <1>5, <1>6 DEF RestsOn
<1> QED BY <1>7, RowAmongMany DEF row, ids, ratings, known

(* The labels that a model for season s is fitted to are of days before.    *)
LEMMA LabelsAreEarlier ==
  ASSUME NEW games, IsRead(games), NEW c, NEW s, NEW t \in Targets(games, s),
         NEW g \in _fit(c, s, games).rows
  PROVE  g \in AllTargets(games) /\ g \in EarlierThan(t, games)
<1>1. PICK year \in training_seasons(s, c.window) : g \in Targets(games, year)
  BY DEF _fit
<1>2. t \in games /\ t.season = s /\ s \in Nat /\ RESULTS_CUTOFF_DAYS \in Nat
  BY ReadFacts DEF Targets
<1>3. year \in FIRST_TRAINING_SEASON..(s - 1) /\ FIRST_TRAINING_SEASON \in Nat
  BY <1>1, EvaluationAssumption DEF training_seasons
<1>4. g \in games /\ g.season = year /\ year < s
  BY <1>1, <1>2, <1>3 DEF Targets
<1>5. g.date + RESULTS_CUTOFF_DAYS <= t.date /\ g.date \in Int /\ t.date \in Int
  BY <1>2, <1>4, ReadFacts
<1>6. g \in EarlierThan(t, games)
  BY <1>2, <1>4, <1>5 DEF EarlierThan
<1>7. g \in AllTargets(games)
  BY <1>1, <1>4 DEF AllTargets
<1> QED BY <1>6, <1>7

(* Elo rests on games that were known, of the season or before it.          *)
LEMMA EloRestsOnEarlier ==
  ASSUME NEW games, IsRead(games), NEW c, NEW s, NEW t \in Targets(games, s)
  PROVE  EloModel(_fit(c, s, games), {g \in games : g.season = s}, Targets(games, s), t)
           \subseteq IdsIn(EarlierThan(t, games))
<1> DEFINE targets == Targets(games, s)
           cutoffs == [row \in targets |-> row.date - RESULTS_CUTOFF_DAYS]
           fedTo == _fit(c, s, games).history \union {g \in games : g.season = s}
           fed == {g \in EarlierThan(t, fedTo) : Scored(g)}
<1>1. targets \subseteq games /\ fedTo \subseteq games
  BY DEF Targets, _fit
<1>2. fed \subseteq EarlierThan(t, games) /\ fed \in SUBSET games
  BY <1>1 DEF EarlierThan
<1>3. Sweep(fedTo, targets, cutoffs, t) = RatingsAfter(fed)
  <2>1. \A row \in targets : cutoffs[row] = row.date - RESULTS_CUTOFF_DAYS
    OBVIOUS
  <2> HIDE DEF targets, cutoffs, fedTo
  <2>2. t \in targets /\ RESULTS_CUTOFF_DAYS \in Nat
    BY ReadFacts DEF targets
  <2>3. \A g \in fedTo \union targets : g.id \in Int /\ g.date \in Int
    BY <1>1, ReadFacts
  <2> QED BY <2>1, <2>2, <2>3, SweepOfMany
<1>4. EloModel(_fit(c, s, games), {g \in games : g.season = s}, targets, t)
        = UNION {r.value : r \in {x \in Sweep(fedTo, targets, cutoffs, t) : x.team \in Teams(t)}}
  BY DEF EloModel
<1> HIDE DEF targets, cutoffs, fedTo, fed
<1>5. \A r \in RatingsAfter(fed) : r.value \subseteq IdsIn(fed)
  BY <1>2, EarlierAreOrdered, RatingsRestOnFed DEF IdsIn
<1>6. IdsIn(fed) \subseteq IdsIn(EarlierThan(t, games))
  BY <1>2 DEF IdsIn
<1>7. EloModel(_fit(c, s, games), {g \in games : g.season = s}, targets, t)
        \subseteq IdsIn(EarlierThan(t, games))
  BY <1>3, <1>4, <1>5, <1>6
<1> QED BY <1>7 DEF targets

(* The labels and the features that the other models use are known too.     *)
LEMMA SklearnRestsOnEarlier ==
  ASSUME NEW games, IsRead(games), NEW c, NEW s, NEW t \in Targets(games, s),
         NEW rows, rows = build_team_features(games, AllTargets(games), NONE)
  PROVE  /\ HomeRateModel(_fit(c, s, games)) \subseteq IdsIn(EarlierThan(t, games))
         /\ SklearnModel(_fit(c, s, games), rows, t) \subseteq IdsIn(EarlierThan(t, games))
<1> DEFINE labels == _fit(c, s, games).rows
           ids == IdsIn(EarlierThan(t, games))
<1>1. \A g \in labels : g \in AllTargets(games) /\ g \in EarlierThan(t, games)
  BY LabelsAreEarlier
<1>2. t \in AllTargets(games) /\ t \in games
  BY DEF AllTargets, Targets
<1>3. \A g \in labels : IdsIn(EarlierThan(g, games)) \subseteq ids
  <2> SUFFICES ASSUME NEW g \in labels PROVE EarlierThan(g, games) \subseteq EarlierThan(t, games)
    BY DEF IdsIn
  <2>1. g \in games /\ g.date <= t.date - RESULTS_CUTOFF_DAYS
    BY <1>1 DEF EarlierThan
  <2>2. \A x \in games : x.date \in Int /\ RESULTS_CUTOFF_DAYS \in Nat
    BY ReadFacts
  <2> HIDE DEF labels
  <2> QED BY <1>2, <2>1, <2>2 DEF EarlierThan
<1>4. IdsIn(labels) \subseteq ids
  BY <1>1 DEF IdsIn
<1> HIDE DEF labels, ids
<1>5. RestsOn(rows[t.id]) \subseteq ids
  BY <1>2, RowRestsOnEarlier DEF ids
<1>6. \A g \in labels : RestsOn(rows[g.id]) \subseteq ids
  BY <1>1, <1>3, RowRestsOnEarlier
<1>7. \A id \in IdsIn(labels) \union {t.id} : RestsOn(rows[id]) \subseteq ids
  BY <1>5, <1>6 DEF IdsIn
<1>8. HomeRateModel(_fit(c, s, games)) \subseteq ids
  BY <1>4 DEF HomeRateModel, labels, IdsIn
<1>9. SklearnModel(_fit(c, s, games), rows, t)
        = IdsIn(labels) \union UNION {RestsOn(rows[id]) : id \in IdsIn(labels) \union {t.id}}
  BY DEF SklearnModel, labels, IdsIn
<1>10. SklearnModel(_fit(c, s, games), rows, t) \subseteq ids
  BY <1>4, <1>7, <1>9
<1> QED BY <1>8, <1>10 DEF ids

(* No kind of model rests on what was not known.                            *)
LEMMA PredictionsAreSound ==
  ASSUME NEW games, IsRead(games), NEW seasons
  PROVE  PredictionsLeakNothing(games, seasons)
<1> SUFFICES ASSUME NEW rows \in {build_team_features(games, AllTargets(games), NONE)},
                    NEW c \in [spec : Range(Specs), window : Range(TrainingWindows)],
                    NEW s \in seasons,
                    NEW from \in {_predict_season(_fit(c, s, games), s, games, rows)},
                    NEW t \in DOMAIN from
             PROVE  from[t] \subseteq {g.id : g \in {h \in games : h.date <= t.date - RESULTS_CUTOFF_DAYS}}
  BY DEF PredictionsLeakNothing
<1> DEFINE model == _fit(c, s, games)
           ids == IdsIn(EarlierThan(t, games))
<1>1. /\ from = _predict_season(model, s, games, rows) /\ t \in Targets(games, s)
      /\ rows = build_team_features(games, AllTargets(games), NONE)
  BY DEF _predict_season
<1>2. /\ HomeRateModel(model) \subseteq ids
      /\ EloModel(model, {g \in games : g.season = s}, Targets(games, s), t) \subseteq ids
      /\ SklearnModel(model, rows, t) \subseteq ids
  BY <1>1, EloRestsOnEarlier, SklearnRestsOnEarlier
<1> HIDE DEF model, ids
<1>3. _predict_season(model, s, games, rows)[t]
        \in {HomeRateModel(model), SklearnModel(model, rows, t),
             EloModel(model, {g \in games : g.season = s}, Targets(games, s), t)}
  BY <1>1 DEF _predict_season
<1>4. _predict_season(model, s, games, rows)[t] \subseteq ids
  BY <1>2, <1>3
<1> QED BY <1>1, <1>4 DEF ids, IdsIn, EarlierThan

-----------------------------------------------------------------------------
(* The invariant of the runs.                                               *)

Phases == {"idle", "read", "selected", "tested", "saved"}

(* What may be tested, and what was published of it.                        *)
IsTested(s, games) ==
  /\ games # {}
  /\ IsRead(games) /\ IsWhole(games)
  /\ s \in Selections({g \in games : g.season <= SELECTION_SEASON})

IsSaved(s, games) == IsTested(s, games) /\ Artifact(s, games) \in artifacts

Typed ==
  /\ changes \in 0..MaxChanges /\ kills \in 0..MaxKills
  /\ phase \in [Runs -> Phases]
  /\ snapshot = [r \in Runs |-> snapshot[r]] /\ first = [r \in Runs |-> first[r]]
  /\ selection = [r \in Runs |-> selection[r]] /\ second = [r \in Runs |-> second[r]]

Tables == IsTable(database) /\ \A r \in Runs : snapshot[r] = NONE \/ IsTable(snapshot[r])

RunInv(r) ==
  /\ phase[r] = "idle" => first[r] = {}
  /\ phase[r] # "idle" => IsFirst(first[r])
  /\ phase[r] = "selected" => selection[r] \in Selections(first[r])
  /\ phase[r] \notin {"tested", "saved"} => second[r] = {}
  /\ phase[r] = "tested" => IsTested(selection[r], second[r])
  /\ phase[r] = "saved" => IsSaved(selection[r], second[r])

Reported ==
  report # NONE => \E s, games : IsSaved(s, games) /\ report = report_text(s, games)

EvaluationInv == Typed /\ Tables /\ (\A r \in Runs : RunInv(r)) /\ Reported

(* Every first database is a table of the world's games.                    *)
LEMMA EvaluationInitInv == EvaluationInit => EvaluationInv
<1> SUFFICES ASSUME EvaluationInit PROVE EvaluationInv
  OBVIOUS
<1>1. Typed
  BY EvaluationAssumption DEF EvaluationInit, Typed, Phases
<1>2. IsTable(database)
  <2>1. database \in FirstDatabases /\ database \in SUBSET World
    BY DEF EvaluationInit, World
  <2>2. IsFiniteSet(database)
    BY <2>1, EvaluationAssumption, FS_Subset
  <2>3. \A g \in database : IsGame(g)
    BY <2>1, EvaluationAssumption DEF IsGame
  <2> QED BY <2>1, <2>2, <2>3, EvaluationAssumption DEF IsTable
<1>3. Tables /\ (\A r \in Runs : RunInv(r)) /\ Reported
  BY <1>2 DEF EvaluationInit, Tables, RunInv, Reported
<1> QED BY <1>1, <1>3 DEF EvaluationInv

(* Artifacts are only added, so a saved evaluation stays saved.             *)
LEMMA SavedStays ==
  ASSUME artifacts \subseteq artifacts', NEW s, NEW games, IsSaved(s, games)
  PROVE  IsSaved(s, games)'
BY DEF IsSaved

(* A step of one run that adds no report.                                   *)
LEMMA OneRunMoves ==
  ASSUME EvaluationInv, NEW r \in Runs,
         NEW p \in Phases, phase' = [phase EXCEPT ![r] = p],
         NEW t, t = NONE \/ IsTable(t), snapshot' = [snapshot EXCEPT ![r] = t],
         NEW f, first' = [first EXCEPT ![r] = f],
         NEW s, selection' = [selection EXCEPT ![r] = s],
         NEW games, second' = [second EXCEPT ![r] = games],
         changes' = changes, database' = database, kills' \in 0..MaxKills,
         artifacts \subseteq artifacts',
         report' = report,
         p = "idle" => f = {},
         p # "idle" => IsFirst(f),
         p = "selected" => s \in Selections(f),
         p \notin {"tested", "saved"} => games = {},
         p = "tested" => IsTested(s, games),
         p = "saved" => IsTested(s, games) /\ Artifact(s, games) \in artifacts'
  PROVE  EvaluationInv'
<1>1. Typed'
  BY DEF EvaluationInv, Typed
<1>2. Tables'
  BY DEF EvaluationInv, Typed, Tables
<1>3. ASSUME NEW q \in Runs PROVE RunInv(q)'
  <2>1. CASE q = r
    <3>1. phase'[q] = p /\ first'[q] = f /\ selection'[q] = s /\ second'[q] = games
      BY <2>1 DEF EvaluationInv, Typed
    <3> QED BY <3>1 DEF RunInv, IsSaved
  <2>2. CASE q # r
    <3>1. /\ phase'[q] = phase[q] /\ first'[q] = first[q]
          /\ selection'[q] = selection[q] /\ second'[q] = second[q]
      BY <2>2 DEF EvaluationInv, Typed
    <3>2. RunInv(q)
      BY DEF EvaluationInv
    <3>3. phase[q] = "saved" => IsSaved(selection[q], second[q])'
      BY <3>1, <3>2, SavedStays DEF RunInv
    <3> QED BY <3>1, <3>2, <3>3 DEF RunInv
  <2> QED BY <2>1, <2>2
<1>4. Reported'
  BY SavedStays DEF EvaluationInv, Reported
<1> QED BY <1>1, <1>2, <1>3, <1>4 DEF EvaluationInv

(* A run that ends forgets what it read; what is published stays.           *)
LEMMA EndsInv ==
  ASSUME EvaluationInv, NEW r \in Runs, Ends(r),
         changes' = changes, database' = database, kills' \in 0..MaxKills,
         artifacts' = artifacts, report' = report
  PROVE  EvaluationInv'
<1>1. "idle" \in Phases
  BY DEF Phases
<1> QED BY <1>1, OneRunMoves DEF Ends

(* A first read that is accepted reaches the selection's season.            *)
LEMMA FirstReadInv ==
  ASSUME EvaluationInv, NEW r \in Runs, FirstRead(r)
  PROVE  EvaluationInv'
<1> DEFINE games == load_team_game_history(database, SELECTION_SEASON)
<1>1. IsTable(database)
  BY DEF EvaluationInv, Tables
<1>2. IsFirst(games)
  BY <1>1, FirstReachesSelection DEF FirstRead
<1>3. PICK from \in {database, NONE} : snapshot' = [snapshot EXCEPT ![r] = from]
  BY DEF FirstRead
<1>4. from = NONE \/ IsTable(from)
  BY <1>1
<1>5. phase' = [phase EXCEPT ![r] = "read"] /\ first' = [first EXCEPT ![r] = games]
  BY DEF FirstRead
<1>6. /\ phase[r] = "idle" /\ second[r] = {}
      /\ selection' = [selection EXCEPT ![r] = selection[r]]
      /\ second' = [second EXCEPT ![r] = second[r]]
      /\ changes' = changes /\ database' = database /\ kills' = kills
      /\ artifacts' = artifacts /\ report' = report /\ kills \in 0..MaxKills
  BY DEF FirstRead, EvaluationInv, RunInv, Typed
<1>7. "read" \in Phases
  BY DEF Phases
<1> HIDE DEF games
<1> QED BY <1>2, <1>3, <1>4, <1>5, <1>6, <1>7, OneRunMoves

(* The selection is one of those that its games allow.                      *)
LEMMA SelectInv ==
  ASSUME EvaluationInv, NEW r \in Runs, Select(r)
  PROVE  EvaluationInv'
<1>1. PICK s \in Selections(first[r]) : selection' = [selection EXCEPT ![r] = s]
  BY DEF Select
<1>2. /\ phase[r] = "read" /\ phase' = [phase EXCEPT ![r] = "selected"]
      /\ snapshot' = [snapshot EXCEPT ![r] = snapshot[r]]
      /\ first' = [first EXCEPT ![r] = first[r]]
      /\ second' = [second EXCEPT ![r] = second[r]]
      /\ changes' = changes /\ database' = database /\ kills' = kills
      /\ artifacts' = artifacts /\ report' = report /\ kills \in 0..MaxKills
  BY DEF Select, EvaluationInv, Typed
<1>3. /\ IsFirst(first[r]) /\ second[r] = {}
      /\ snapshot[r] = NONE \/ IsTable(snapshot[r])
  BY <1>2 DEF EvaluationInv, RunInv, Tables
<1>4. "selected" \in Phases
  BY DEF Phases
<1> QED BY <1>1, <1>2, <1>3, <1>4, OneRunMoves

(* What is tested is whole and extends what was selected on, whichever      *)
(* database the second read saw.                                            *)
LEMMA SecondReadInv ==
  ASSUME EvaluationInv, NEW r \in Runs, SecondRead(r)
  PROVE  EvaluationInv'
<1> DEFINE from == IF snapshot[r] = NONE THEN database ELSE snapshot[r]
           games == load_team_game_history(from, TEST_SEASON)
<1>1. phase[r] = "selected"
  BY DEF SecondRead
<1>2. /\ changes' = changes /\ database' = database /\ kills' = kills
      /\ artifacts' = artifacts /\ report' = report /\ kills \in 0..MaxKills
  BY DEF SecondRead, EvaluationInv, Typed
<1>3. CASE _load_dataset(games, TEST_SEASON) /\ _require_same_history(first[r], games)
  <2>1. /\ second' = [second EXCEPT ![r] = games]
        /\ phase' = [phase EXCEPT ![r] = "tested"]
        /\ snapshot' = [snapshot EXCEPT ![r] = snapshot[r]]
        /\ first' = [first EXCEPT ![r] = first[r]]
        /\ selection' = [selection EXCEPT ![r] = selection[r]]
    BY <1>3 DEF SecondRead, EvaluationInv, Typed
  <2>2. IsTable(from)
    BY DEF EvaluationInv, Tables
  <2>3. IsRead(games) /\ IsWhole(games)
    <3> HIDE DEF from
    <3> QED BY <1>3, <2>2, SecondIsWhole, ReadIsTable
  <2>4. /\ IsFirst(first[r]) /\ selection[r] \in Selections(first[r])
        /\ snapshot[r] = NONE \/ IsTable(snapshot[r])
    BY <1>1 DEF EvaluationInv, RunInv, Tables
  <2> HIDE DEF games
  <2>5. {g \in games : g.season <= SELECTION_SEASON} = first[r] /\ games # {}
    BY <1>3, <2>4, SameHistory
  <2>6. IsTested(selection[r], games)
    BY <2>3, <2>4, <2>5 DEF IsTested
  <2>7. "tested" \in Phases
    BY DEF Phases
  <2> QED BY <1>2, <2>1, <2>4, <2>6, <2>7, OneRunMoves
<1>4. CASE ~(_load_dataset(games, TEST_SEASON) /\ _require_same_history(first[r], games))
  <2>1. Ends(r)
    BY <1>4 DEF SecondRead
  <2> QED BY <1>2, <2>1, EndsInv
<1> QED BY <1>3, <1>4

(* The artifact is there, new or as an equal copy, before the run goes on.  *)
LEMMA SaveInv ==
  ASSUME EvaluationInv, NEW r \in Runs, Save(r)
  PROVE  EvaluationInv'
<1> DEFINE artifact == Artifact(selection[r], second[r])
           there == {a \in artifacts : a.name = artifact.name}
           same == \A a \in there : _same_artifact(artifact, a)
<1>1. /\ phase[r] = "tested"
      /\ IF same
         THEN /\ artifacts' = artifacts \union {artifact}
              /\ phase' = [phase EXCEPT ![r] = "saved"]
              /\ UNCHANGED <<snapshot, first, selection, second>>
         ELSE Ends(r) /\ UNCHANGED artifacts
  BY DEF Save
<1>2. /\ changes' = changes /\ database' = database /\ kills' = kills
      /\ report' = report /\ kills \in 0..MaxKills
  BY DEF Save, EvaluationInv, Typed
<1> HIDE DEF same
<1>3. CASE same
  <2>1. /\ snapshot' = [snapshot EXCEPT ![r] = snapshot[r]]
        /\ first' = [first EXCEPT ![r] = first[r]]
        /\ selection' = [selection EXCEPT ![r] = selection[r]]
        /\ second' = [second EXCEPT ![r] = second[r]]
        /\ phase' = [phase EXCEPT ![r] = "saved"]
    BY <1>1, <1>3 DEF EvaluationInv, Typed
  <2>2. /\ IsFirst(first[r]) /\ IsTested(selection[r], second[r])
        /\ snapshot[r] = NONE \/ IsTable(snapshot[r])
    BY <1>1 DEF EvaluationInv, RunInv, Tables
  <2>3. artifacts \subseteq artifacts' /\ artifact \in artifacts'
    BY <1>1, <1>3
  <2>4. "saved" \in Phases
    BY DEF Phases
  <2> QED BY <1>2, <2>1, <2>2, <2>3, <2>4, OneRunMoves
<1>4. CASE ~same
  BY <1>1, <1>2, <1>4, EndsInv
<1> QED BY <1>3, <1>4

(* The report names what the run has saved.                                 *)
LEMMA PublishInv ==
  ASSUME EvaluationInv, NEW r \in Runs, Publish(r)
  PROVE  EvaluationInv'
<1>1. /\ phase[r] = "saved" /\ Ends(r)
      /\ changes' = changes /\ database' = database /\ kills' = kills
      /\ artifacts' = artifacts
      /\ report' = IF report = NONE THEN report_text(selection[r], second[r]) ELSE report
  BY DEF Publish
<1>2. IsSaved(selection[r], second[r])
  BY <1>1 DEF EvaluationInv, RunInv
<1>3. Reported'
  <2>1. CASE report = NONE
    <3>1. IsSaved(selection[r], second[r]) /\ report' = report_text(selection[r], second[r])
      BY <1>1, <1>2, <2>1
    <3>2. PICK s, games : s = selection[r] /\ games = second[r]
      OBVIOUS
    <3>3. IsSaved(s, games)'
      BY <1>1, <3>1, <3>2, SavedStays
    <3> QED BY <3>1, <3>2, <3>3 DEF Reported, report_text
  <2>2. CASE report # NONE
    BY <1>1, <2>2, SavedStays DEF EvaluationInv, Reported
  <2> QED BY <2>1, <2>2
<1>4. Typed' /\ Tables'
  BY <1>1 DEF EvaluationInv, Typed, Tables, Ends, Phases
<1>5. ASSUME NEW q \in Runs PROVE RunInv(q)'
  <2>1. CASE q = r
    BY <1>1, <2>1 DEF EvaluationInv, Typed, Ends, RunInv
  <2>2. CASE q # r
    <3>1. /\ phase'[q] = phase[q] /\ first'[q] = first[q]
          /\ selection'[q] = selection[q] /\ second'[q] = second[q]
      BY <1>1, <2>2 DEF EvaluationInv, Typed, Ends
    <3>2. RunInv(q)
      BY DEF EvaluationInv
    <3> QED BY <1>1, <3>1, <3>2 DEF RunInv, IsSaved
  <2> QED BY <2>1, <2>2
<1> QED BY <1>3, <1>4, <1>5 DEF EvaluationInv

(* A kill ends the run.                                                     *)
LEMMA KillInv ==
  ASSUME EvaluationInv, NEW r \in Runs, Kill(r)
  PROVE  EvaluationInv'
<1>1. /\ Ends(r) /\ changes' = changes /\ database' = database
      /\ artifacts' = artifacts /\ report' = report /\ kills' = kills + 1 /\ kills < MaxKills
  BY DEF Kill
<1>2. kills' \in 0..MaxKills
  BY <1>1, EvaluationAssumption DEF EvaluationInv, Typed
<1> QED BY <1>1, <1>2, EndsInv

(* A change of the database leaves the runs alone.                          *)
LEMMA TableChanges ==
  ASSUME EvaluationInv, IsTable(database'), changes < MaxChanges, changes' = changes + 1,
         UNCHANGED <<runVars, artifacts, report, kills>>
  PROVE  EvaluationInv'
<1>1. Typed'
  BY EvaluationAssumption DEF EvaluationInv, Typed, runVars
<1>2. Tables' /\ (\A r \in Runs : RunInv(r)')
  BY DEF EvaluationInv, Tables, RunInv, IsSaved, runVars
<1>3. Reported'
  BY SavedStays DEF EvaluationInv, Reported
<1> QED BY <1>1, <1>2, <1>3 DEF EvaluationInv

(* A loaded game is a game of the world that the table lacked.              *)
LEMMA LoadGameInv ==
  ASSUME EvaluationInv, LoadGame
  PROVE  EvaluationInv'
<1>1. PICK g \in Late : (\A h \in database : h.id # g.id) /\ database' = database \union {g}
  BY DEF LoadGame
<1>2. g \in World
  BY DEF World
<1>3. IsGame(g)
  BY <1>2, EvaluationAssumption DEF IsGame
<1>4. IsTable(database)
  BY DEF EvaluationInv, Tables
<1>5. IsFiniteSet(database \union {g})
  BY <1>4, FS_AddElement DEF IsTable
<1>6. IsTable(database')
  BY <1>1, <1>3, <1>4, <1>5 DEF IsTable
<1> QED BY <1>6, TableChanges DEF LoadGame

(* A corrected score changes neither id, season nor type.                   *)
LEMMA CorrectScoreInv ==
  ASSUME EvaluationInv, CorrectScore
  PROVE  EvaluationInv'
<1>1. PICK g \in database : \E winner \in Teams(g) \ {g.score} :
        database' = (database \ {g}) \union {[g EXCEPT !.score = winner]}
  BY DEF CorrectScore
<1>2. PICK winner : database' = (database \ {g}) \union {[g EXCEPT !.score = winner]}
  BY <1>1
<1> DEFINE corrected == [g EXCEPT !.score = winner]
<1>3. IsTable(database)
  BY DEF EvaluationInv, Tables
<1>4. /\ TeamGameRecord \subseteq DOMAIN g
      /\ DOMAIN corrected = DOMAIN g
      /\ corrected.id = g.id /\ corrected.season = g.season /\ corrected.type = g.type
      /\ corrected.date = g.date
  BY <1>3 DEF IsTable, IsGame, TeamGameRecord
<1>5. IsGame(corrected)
  <2> HIDE DEF corrected
  <2> QED BY <1>3, <1>4 DEF IsTable, IsGame
<1>6. IsFiniteSet((database \ {g}) \union {corrected})
  BY <1>3, FS_RemoveElement, FS_AddElement DEF IsTable
<1>7. IsTable(database')
  <2> HIDE DEF corrected
  <2>1. database' = (database \ {g}) \union {corrected}
    BY <1>2 DEF corrected
  <2> QED BY <1>3, <1>4, <1>5, <1>6, <2>1 DEF IsTable
<1> QED BY <1>7, TableChanges DEF CorrectScore

(* Every step keeps the invariant.                                          *)
LEMMA EvaluationNextInv ==
  ASSUME EvaluationInv, [EvaluationNext]_evaluationVars
  PROVE  EvaluationInv'
<1>1. ASSUME NEW r \in Runs, Step(r) PROVE EvaluationInv'
  BY <1>1, FirstReadInv, SelectInv, SecondReadInv, SaveInv, PublishInv DEF Step
<1>2. ASSUME NEW r \in Runs, Kill(r) PROVE EvaluationInv'
  BY <1>2, KillInv
<1>3. CASE LoadGame \/ CorrectScore
  BY <1>3, LoadGameInv, CorrectScoreInv
<1>4. CASE UNCHANGED evaluationVars
  BY <1>4, SavedStays
     DEF evaluationVars, runVars, EvaluationInv, Typed, Tables, RunInv, Reported, IsSaved
<1> QED BY <1>1, <1>2, <1>3, <1>4 DEF EvaluationNext

(* A read that was accepted is not empty, and a report rests on what was    *)
(* tested and saved.                                                        *)
LEMMA InvIsSound == EvaluationInv => PublishedIsSound
<1> SUFFICES ASSUME EvaluationInv PROVE PublishedIsSound
  OBVIOUS
<1>1. EvaluationTypeOK
  <2>1. ASSUME NEW r \in Runs
        PROVE  /\ phase[r] \in {"idle", "read", "selected", "tested", "saved"}
               /\ (phase[r] = "idle") <=> (first[r] = {})
               /\ (phase[r] \in {"tested", "saved"}) <=> (second[r] # {})
    BY DEF EvaluationInv, Typed, RunInv, Phases, IsFirst, IsTested, IsSaved
  <2>2. changes \in 0..MaxChanges /\ kills \in 0..MaxKills
    BY DEF EvaluationInv, Typed
  <2> QED BY ONLY <2>1, <2>2 DEF EvaluationTypeOK
<1>2. ASSUME report # NONE
      PROVE  /\ IsWhole(report.dataset)
             /\ report.selection
                  \in Selections({g \in report.dataset : g.season <= SELECTION_SEASON})
             /\ Artifact(report.selection, report.dataset) \in artifacts
             /\ report.artifact = Artifact(report.selection, report.dataset).name
  <2>1. PICK s, games : IsSaved(s, games) /\ report = report_text(s, games)
    BY <1>2 DEF EvaluationInv, Reported
  <2>2. report.dataset = games /\ report.selection = s /\ report.artifact = Artifact(s, games).name
    BY <2>1 DEF report_text
  <2> QED BY <2>1, <2>2 DEF IsSaved, IsTested
<1> QED BY <1>1, <1>2 DEF PublishedIsSound

(* PublishedIsSound of Evaluation: a report rests on one whole history, its *)
(* selection is one that this history allows, and the artifact it names is  *)
(* there, for any games that may be loaded or corrected meanwhile and any   *)
(* overlap of runs and kills (ml/evaluation.py run_evaluation,              *)
(* ml/artifact.py).                                                         *)
THEOREM SoundTheorem == EvaluationSpec => []PublishedIsSound
BY EvaluationInitInv, EvaluationNextInv, InvIsSound, PTL DEF EvaluationSpec

(* NothingLeaks of Evaluation: no feature, label or rating that a run uses  *)
(* for a game rests on a result of less than two days before it, and the    *)
(* selection on none of the test season, for any games, candidates and      *)
(* training windows (ml/team_features.py _results_cutoff, _pregame_elo;     *)
(* ml/evaluation.py _predict_season).                                       *)
THEOREM LeakTheorem == EvaluationSpec => []NothingLeaks
<1>1. EvaluationInv => NothingLeaks
  <2> SUFFICES ASSUME EvaluationInv, NEW r \in Runs
               PROVE  /\ \A g \in first[r] : g.season < TEST_SEASON
                      /\ phase[r] = "read" => IsRead(first[r])
                      /\ phase[r] = "tested" => IsRead(second[r])
    BY FeaturesAreSound, PredictionsAreSound DEF NothingLeaks
  <2>1. RunInv(r)
    BY DEF EvaluationInv
  <2>2. \A g \in first[r] : g.season < TEST_SEASON
    BY <2>1, EvaluationAssumption DEF RunInv, IsFirst
  <2> QED BY <2>1, <2>2 DEF RunInv, IsFirst, IsTested
<1> QED BY <1>1, EvaluationInitInv, EvaluationNextInv, PTL DEF EvaluationSpec
=============================================================================
