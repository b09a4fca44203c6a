--------------------------- MODULE SnapshotCache ---------------------------
(***************************************************************************)
(* SnapshotCache (scraping/snapshot_cache.py, ADR 0022): the append-only   *)
(* store of the observations of one mutable page.  Write calls, readers    *)
(* and the recovery by hand run against one directory; every file system   *)
(* call is a step of its own.                                              *)
(*                                                                         *)
(* A file is named by the write call that created it, as in CacheWriter.   *)
(* A snapshot's name and its sidecar's fetched_at both come from the       *)
(* call's metadata, so the two agree exactly when both files are of calls  *)
(* with the same stamp.                                                    *)
(***************************************************************************)
EXTENDS Naturals, FiniteSetsExt

CONSTANTS
    Writers,        \* the write calls
    Stamp,          \* the fetched_at each call was given
    LastStamp,      \* the last timestamp there is, datetime.max
    Readers,        \* processes that call latest()
    None            \* no file

ASSUME StampAssumption ==
    /\ LastStamp \in Nat
    /\ Stamp \in [Writers -> 1..LastStamp]
    /\ None \notin Writers

VARIABLES
    body,           \* the file at each stamp's body path
    sidecar,        \* the file at each stamp's sidecar path
    temps,          \* calls whose temp names exist
    pc,             \* the next step of each write call
    reader,         \* each reader's step, and the stamps it still has to check
    seen            \* the stamp each reader's last latest() returned, 0 for None

vars == <<body, sidecar, temps, pc, reader, seen>>

Stamps == {Stamp[w] : w \in Writers}

Files == Writers \cup {None}

(* "unclean": an unlink of the finally block raised, or was interrupted. *)
Final == {"written", "failed", "interrupted", "unclean", "crashed"}

InTry == {"write_temps", "publish_sidecar", "publish_body"}

Steps == {"idle", "check_sidecar", "stat", "unlink", "clean_failed",
          "clean_written", "clean_interrupted"} \cup InTry

TypeOK ==
    /\ body \in [Stamps -> Files]
    /\ sidecar \in [Stamps -> Files]
    /\ temps \subseteq Writers
    /\ pc \in [Writers -> Steps \cup Final]
    /\ reader \in [Readers -> [step : {"idle", "checking", "raised"},
                               listed : SUBSET Stamps, todo : SUBSET Stamps]]
    /\ seen \in [Readers -> Stamps \cup {0}]

NotReading == [step |-> "idle", listed |-> {}, todo |-> {}]

Init ==
    /\ body = [t \in Stamps |-> None]
    /\ sidecar = [t \in Stamps |-> None]
    /\ temps = {}
    /\ pc = [w \in Writers |-> "idle"]
    /\ reader = [r \in Readers |-> NotReading]
    /\ seen = [r \in Readers |-> 0]

GoTo(w, step) == pc' = [pc EXCEPT ![w] = step]

readerVars == <<reader, seen>>

-----------------------------------------------------------------------------
(* write: two existence checks, then the try block. *)
CheckBody(w) ==
    /\ pc[w] = "idle"
    /\ GoTo(w, IF body[Stamp[w]] = None THEN "check_sidecar" ELSE "failed")
    /\ UNCHANGED <<body, sidecar, temps, readerVars>>

CheckSidecar(w) ==
    /\ pc[w] = "check_sidecar"
    /\ GoTo(w, IF sidecar[Stamp[w]] = None THEN "write_temps" ELSE "failed")
    /\ UNCHANGED <<body, sidecar, temps, readerVars>>

(* Both temp files, the body's read back. *)
WriteTemps(w) ==
    /\ pc[w] = "write_temps"
    /\ temps' = temps \cup {w}
    /\ GoTo(w, "publish_sidecar")
    /\ UNCHANGED <<body, sidecar, readerVars>>

(* Variant: the body goes first, as in the archive cache. *)
PublishSidecar_AfterBody(w) ==
    /\ pc[w] = "publish_sidecar"
    /\ IF body[Stamp[w]] = None
       THEN /\ body' = [body EXCEPT ![Stamp[w]] = w]
            /\ GoTo(w, "publish_body")
       ELSE /\ GoTo(w, "clean_failed")
            /\ UNCHANGED body
    /\ UNCHANGED <<sidecar, temps, readerVars>>

(* Variant: os.replace instead of a link. *)
PublishSidecar_Replaces(w) ==
    /\ pc[w] = "publish_sidecar"
    /\ sidecar' = [sidecar EXCEPT ![Stamp[w]] = w]
    /\ GoTo(w, "publish_body")
    /\ UNCHANGED <<body, temps, readerVars>>

PublishSidecar(w) ==
    /\ pc[w] = "publish_sidecar"
    /\ IF sidecar[Stamp[w]] = None
       THEN /\ sidecar' = [sidecar EXCEPT ![Stamp[w]] = w]
            /\ GoTo(w, "publish_body")
       ELSE /\ GoTo(w, "clean_failed")
            /\ UNCHANGED sidecar
    /\ UNCHANGED <<body, temps, readerVars>>

PublishBody(w) ==
    /\ pc[w] = "publish_body"
    /\ IF body[Stamp[w]] = None
       THEN /\ body' = [body EXCEPT ![Stamp[w]] = w]
            /\ GoTo(w, "clean_written")
       ELSE /\ GoTo(w, "stat")
            /\ UNCHANGED body
    /\ UNCHANGED <<sidecar, temps, readerVars>>

(* _remove_if_same_file on the published sidecar: stat, then unlink. *)
StatSidecar(w) ==
    /\ pc[w] = "stat"
    /\ GoTo(w, IF sidecar[Stamp[w]] = w THEN "unlink" ELSE "clean_failed")
    /\ UNCHANGED <<body, sidecar, temps, readerVars>>

UnlinkSidecar(w) ==
    /\ pc[w] = "unlink"
    /\ sidecar' = [sidecar EXCEPT ![Stamp[w]] = None]
    /\ GoTo(w, "clean_failed")
    /\ UNCHANGED <<body, temps, readerVars>>

(* The finally block. *)
AfterClean == [clean_written |-> "written", clean_failed |-> "failed",
               clean_interrupted |-> "interrupted"]

RemoveTemps(w) ==
    /\ pc[w] \in DOMAIN AfterClean
    /\ GoTo(w, AfterClean[pc[w]])
    /\ temps' = temps \ {w}
    /\ UNCHANGED <<body, sidecar, readerVars>>

-----------------------------------------------------------------------------
(* A file system call or the read-back verification raises an Exception: a *)
(* published sidecar is rolled back.                                       *)
IOError(w) ==
    /\ pc[w] \in InTry
    /\ GoTo(w, IF pc[w] = "publish_body" THEN "stat" ELSE "clean_failed")
    /\ temps' = IF pc[w] = "write_temps" THEN temps \cup {w} ELSE temps
    /\ UNCHANGED <<body, sidecar, readerVars>>

(* A KeyboardInterrupt, or an error of the rollback itself: no rollback,   *)
(* also when the snapshot has just been published.                         *)
Interrupt(w) ==
    /\ pc[w] \in InTry \cup {"stat", "unlink"} \cup DOMAIN AfterClean
    /\ GoTo(w, "clean_interrupted")
    /\ UNCHANGED <<body, sidecar, temps, readerVars>>

(* An unlink of the finally block raises, in a call that would have returned *)
(* as well: a temp name stays.                                              *)
CleanFails(w) ==
    /\ pc[w] \in DOMAIN AfterClean
    /\ GoTo(w, "unclean")
    /\ UNCHANGED <<body, sidecar, temps, readerVars>>

(* The process is killed. *)
Crash(w) ==
    /\ pc[w] \in InTry \cup {"stat", "unlink"} \cup DOMAIN AfterClean
    /\ GoTo(w, "crashed")
    /\ UNCHANGED <<body, sidecar, temps, readerVars>>

-----------------------------------------------------------------------------
(* incomplete_writes: the sidecars without a body; temp names are all listed. *)
OrphanSidecars == {t \in Stamps : sidecar[t] # None /\ body[t] = None}

DeleteLeftovers ==
    /\ temps # {} \/ OrphanSidecars # {}
    /\ temps' = {}
    /\ sidecar' = [t \in Stamps |-> IF t \in OrphanSidecars THEN None ELSE sidecar[t]]
    /\ UNCHANGED <<body, pc, readerVars>>

(* Variant: without waiting for the writers to end. *)
Recover_WhileWriting == DeleteLeftovers

(* Recovery by hand, with no writer running: delete the listed files. *)
Recover ==
    /\ \A w \in Writers : pc[w] \in Final \cup {"idle"}
    /\ DeleteLeftovers

-----------------------------------------------------------------------------
(* latest: glob the bodies, check every listed name's sidecar, oldest first, *)
(* then read the newest body.                                                *)
ListBodies(r) ==
    LET found == {t \in Stamps : body[t] # None} IN
    /\ reader[r].step = "idle"
    /\ IF found = {}
       THEN seen' = [seen EXCEPT ![r] = 0] /\ UNCHANGED reader
       ELSE /\ reader' = [reader EXCEPT ![r] =
                             [step |-> "checking", listed |-> found, todo |-> found]]
            /\ UNCHANGED seen
    /\ UNCHANGED <<body, sidecar, temps, pc>>

CheckSnapshot(r) ==
    LET t == Min(reader[r].todo) IN
    /\ reader[r].step = "checking" /\ reader[r].todo # {}
    /\ IF sidecar[t] # None /\ Stamp[sidecar[t]] = t
       THEN reader' = [reader EXCEPT ![r].todo = @ \ {t}]
       ELSE reader' = [reader EXCEPT ![r].step = "raised"]
    /\ UNCHANGED <<body, sidecar, temps, pc, seen>>

ReadNewest(r) ==
    /\ reader[r].step = "checking" /\ reader[r].todo = {}
    /\ seen' = [seen EXCEPT ![r] = Max(reader[r].listed)]
    /\ reader' = [reader EXCEPT ![r] = NotReading]
    /\ UNCHANGED <<body, sidecar, temps, pc>>

-----------------------------------------------------------------------------
Write(w) ==
    \/ CheckBody(w) \/ CheckSidecar(w) \/ WriteTemps(w)
    \/ PublishSidecar(w) \/ PublishBody(w)
    \/ StatSidecar(w) \/ UnlinkSidecar(w) \/ RemoveTemps(w)

Fault(w) == IOError(w) \/ Interrupt(w) \/ CleanFails(w) \/ Crash(w)

Latest(r) == ListBodies(r) \/ CheckSnapshot(r) \/ ReadNewest(r)

Next ==
    \/ \E w \in Writers : Write(w) \/ Fault(w)
    \/ \E r \in Readers : Latest(r)
    \/ Recover

Spec == Init /\ [][Next]_vars

-----------------------------------------------------------------------------
(* A body is never visible without the sidecar of its own call, also while  *)
(* another call with the same stamp is being refused or rolled back, after  *)
(* a kill, and after a recovery by hand; and a call that raised left no     *)
(* file of its own under any name, unless the raise came out of a rollback  *)
(* or of removing its temp names.                                           *)
StoreIsConsistent ==
    /\ TypeOK
    /\ \A t \in Stamps : body[t] # None => sidecar[t] = body[t]
    /\ \A w \in Writers : pc[w] = "failed" =>
         w \notin temps /\ \A t \in Stamps : body[t] # w /\ sidecar[t] # w

(* A reader never meets an inconsistent store, although it lists the bodies *)
(* first and looks at the sidecars later.                                   *)
ReaderNeverRaises == \A r \in Readers : reader[r].step # "raised"

(* The store is append-only: no step replaces or removes a snapshot, and a  *)
(* reader that asks again never gets an older observation than before.      *)
SnapshotsAreKept ==
    /\ [][\A t \in Stamps : body[t] # None =>
             body'[t] = body[t] /\ sidecar'[t] = sidecar[t]]_<<body, sidecar>>
    /\ [][\A r \in Readers : seen'[r] >= seen[r]]_seen
=============================================================================
