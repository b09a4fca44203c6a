---------------------------- MODULE CacheWriter ----------------------------
(***************************************************************************)
(* write_html_to_cache_safely (scraping/cache_writer.py): concurrent write *)
(* calls for one page of the archive cache.  Pages do not share files, so  *)
(* one page is enough.  Every file system call is a step of its own.       *)
(*                                                                         *)
(* A file is named by the call that created it: body = w says that the     *)
(* body path is a link to the temp file of call w, which is both its       *)
(* content and the identity os.path.samestat compares.                     *)
(***************************************************************************)
CONSTANTS
    Writers,        \* the write calls
    WithMetadata,   \* the calls that were given fetch metadata
    Old,            \* a file that was there before every call
    None            \* no file

ASSUME FilesAssumption ==
    /\ Writers # {} /\ WithMetadata \subseteq Writers
    /\ Old \notin Writers /\ None \notin Writers /\ Old # None

VARIABLES
    body,           \* the file at path_for_url(url)
    sidecar,        \* the file at metadata_path_for_url(url)
    temps,          \* the temp names that exist, <<"body" or "sidecar", call>>
    pc,             \* the next step of each call
    ending,         \* what a call does once its temp names are removed
    faulted         \* history: an I/O error, an interrupt or a kill happened

vars == <<body, sidecar, temps, pc, ending, faulted>>

Files == Writers \cup {Old, None}

(* "unclean": an unlink of the finally block raised, or was interrupted;     *)
(* `ending` still says what the call was about to do.                       *)
Final == {"written", "failed", "interrupted", "unclean", "crashed"}

Steps == {"check_body", "check_sidecar", "write_body", "write_sidecar",
          "publish_body", "publish_sidecar", "stat", "unlink", "clean"}

(* The steps inside the try block, where an exception reaches the rollback. *)
InTry == {"write_body", "write_sidecar", "publish_body", "publish_sidecar"}

TypeOK ==
    /\ body \in Files
    /\ sidecar \in Files
    /\ temps \subseteq {"body", "sidecar"} \X Writers
    /\ pc \in [Writers -> Steps \cup Final]
    /\ ending \in [Writers -> {"written", "failed", "interrupted"}]
    /\ faulted \in BOOLEAN

(* The page may be there already, with or without a sidecar, and an orphan  *)
(* sidecar is what remains when somebody deletes a body by hand.            *)
Init ==
    /\ body \in {Old, None} /\ sidecar \in {Old, None}
    /\ temps = {}
    /\ pc = [w \in Writers |-> "check_body"]
    /\ ending = [w \in Writers |-> "failed"]
    /\ faulted = FALSE

GoTo(w, step) == pc' = [pc EXCEPT ![w] = step]

(* Leave the try block: remove the temp names, then end as `how`. *)
CleanThen(w, how) ==
    /\ GoTo(w, "clean")
    /\ ending' = [ending EXCEPT ![w] = how]

(* Variant: every exception unlinks the final path, also a refused publish. *)
RaiseInTry_UnlinksAnyFile(w) ==
    IF pc[w] \in {"publish_body", "publish_sidecar"}
    THEN GoTo(w, "unlink") /\ UNCHANGED ending
    ELSE CleanThen(w, "failed")

(* An exception inside the try block: undo a published body, then re-raise. *)
RaiseInTry(w) ==
    IF pc[w] = "publish_sidecar"
    THEN GoTo(w, "stat") /\ UNCHANGED ending
    ELSE CleanThen(w, "failed")

-----------------------------------------------------------------------------
(* _refuse_existing: two existence checks, the second after the first. *)
CheckBody(w) ==
    /\ pc[w] = "check_body"
    /\ GoTo(w, IF body = None THEN "check_sidecar" ELSE "failed")
    /\ UNCHANGED <<body, sidecar, temps, ending, faulted>>

(* Variant: only the body is checked. *)
CheckSidecar_Skipped(w) ==
    /\ pc[w] = "check_sidecar"
    /\ GoTo(w, "write_body")
    /\ UNCHANGED <<body, sidecar, temps, ending, faulted>>

CheckSidecar(w) ==
    /\ pc[w] = "check_sidecar"
    /\ GoTo(w, IF sidecar = None THEN "write_body" ELSE "failed")
    /\ UNCHANGED <<body, sidecar, temps, ending, faulted>>

(* The body's temp file, written and read back. *)
WriteBodyTemp(w) ==
    /\ pc[w] = "write_body"
    /\ temps' = temps \cup {<<"body", w>>}
    /\ GoTo(w, IF w \in WithMetadata THEN "write_sidecar" ELSE "publish_body")
    /\ UNCHANGED <<body, sidecar, ending, faulted>>

WriteSidecarTemp(w) ==
    /\ pc[w] = "write_sidecar"
    /\ temps' = temps \cup {<<"sidecar", w>>}
    /\ GoTo(w, "publish_body")
    /\ UNCHANGED <<body, sidecar, ending, faulted>>

(* Variant: returns without publishing the sidecar. *)
PublishBody_Alone(w) ==
    /\ pc[w] = "publish_body"
    /\ IF body = None
       THEN body' = w /\ CleanThen(w, "written")
       ELSE RaiseInTry(w) /\ UNCHANGED body
    /\ UNCHANGED <<sidecar, temps, faulted>>

(* Variant: waits for the name to become free instead of refusing. *)
PublishBody_Waits(w) ==
    /\ pc[w] = "publish_body"
    /\ body = None
    /\ body' = w
    /\ IF w \in WithMetadata
       THEN GoTo(w, "publish_sidecar") /\ UNCHANGED ending
       ELSE CleanThen(w, "written")
    /\ UNCHANGED <<sidecar, temps, faulted>>

(* _publish gives the temp file its final name and refuses a name that exists. *)
PublishBody(w) ==
    /\ pc[w] = "publish_body"
    /\ IF body = None
       THEN /\ body' = w
            /\ IF w \in WithMetadata
               THEN GoTo(w, "publish_sidecar") /\ UNCHANGED ending
               ELSE CleanThen(w, "written")
       ELSE RaiseInTry(w) /\ UNCHANGED body
    /\ UNCHANGED <<sidecar, temps, faulted>>

PublishSidecar(w) ==
    /\ pc[w] = "publish_sidecar"
    /\ IF sidecar = None
       THEN sidecar' = w /\ CleanThen(w, "written")
       ELSE RaiseInTry(w) /\ UNCHANGED sidecar
    /\ UNCHANGED <<body, temps, faulted>>

(* _remove_if_same_file: compare the identity of the file at the path ... *)
StatBody(w) ==
    /\ pc[w] = "stat"
    /\ IF body = w
       THEN GoTo(w, "unlink") /\ UNCHANGED ending
       ELSE CleanThen(w, "failed")
    /\ UNCHANGED <<body, sidecar, temps, faulted>>

(* ... then unlink the path, whatever file is there by now. *)
UnlinkBody(w) ==
    /\ pc[w] = "unlink"
    /\ body' = None
    /\ CleanThen(w, "failed")
    /\ UNCHANGED <<sidecar, temps, faulted>>

(* The finally block: its two unlinks, which nobody else can see. *)
RemoveTemps(w) ==
    /\ pc[w] = "clean"
    /\ temps' = temps \ ({"body", "sidecar"} \X {w})
    /\ GoTo(w, ending[w])
    /\ UNCHANGED <<body, sidecar, ending, faulted>>

-----------------------------------------------------------------------------
(* A file system call or the read-back verification raises an Exception.   *)
(* A failed write may leave a partial temp file.                           *)
IOError(w) ==
    /\ pc[w] \in InTry
    /\ RaiseInTry(w)
    /\ temps' = temps \cup {t \in {<<"body", w>>} : pc[w] = "write_body"}
                     \cup {t \in {<<"sidecar", w>>} : pc[w] = "write_sidecar"}
    /\ faulted' = TRUE
    /\ UNCHANGED <<body, sidecar>>

(* A KeyboardInterrupt is not an Exception: the rollback is skipped and     *)
(* only the finally block runs, even if the page has just been published.   *)
(* An error of the rollback itself ends the same way.                       *)
Interrupt(w) ==
    /\ pc[w] \in InTry \cup {"stat", "unlink", "clean"}
    /\ CleanThen(w, "interrupted")
    /\ faulted' = TRUE
    /\ UNCHANGED <<body, sidecar, temps>>

(* An unlink of the finally block raises, in a call that would have returned *)
(* as well: the first one, and the other is not tried, or the second.       *)
CleanFails(w) ==
    /\ pc[w] = "clean"
    /\ temps' \in {temps, temps \ {<<"body", w>>}}
    /\ GoTo(w, "unclean")
    /\ faulted' = TRUE
    /\ UNCHANGED <<body, sidecar, ending>>

(* The process is killed: nothing more runs. *)
Crash(w) ==
    /\ pc[w] \in InTry \cup {"stat", "unlink", "clean"}
    /\ GoTo(w, "crashed")
    /\ faulted' = TRUE
    /\ UNCHANGED <<body, sidecar, temps, ending>>

-----------------------------------------------------------------------------
Work(w) ==
    \/ CheckBody(w) \/ CheckSidecar(w)
    \/ WriteBodyTemp(w) \/ WriteSidecarTemp(w)
    \/ PublishBody(w) \/ PublishSidecar(w)
    \/ StatBody(w) \/ UnlinkBody(w) \/ RemoveTemps(w)

Fault(w) == IOError(w) \/ Interrupt(w) \/ CleanFails(w) \/ Crash(w)

Next == \E w \in Writers : Work(w) \/ Fault(w)

Fairness == \A w \in Writers : WF_vars(Work(w))

Spec == Init /\ [][Next]_vars /\ Fairness

-----------------------------------------------------------------------------
(* A provenance sidecar never sits beside a body it does not describe: not *)
(* another call's, and not one that arrived under an orphan sidecar.  The  *)
(* publishes of two calls interleave freely with each other's rollback.    *)
SidecarDescribesBody ==
    body # None /\ sidecar # None => sidecar = body

(* A call that returned still has its whole page in the cache: no later    *)
(* publish and no other call's rollback took any part of it away.          *)
WrittenIsKept ==
    \A w \in Writers : pc[w] = "written" =>
        body = w /\ (w \in WithMetadata => sidecar = w)

(* A call that is over, unless it was killed, has left no temp name and, if  *)
(* it raised, nothing of the page: only when removing a temp name raised    *)
(* may temp names stay.  That raise may also stand for a return, and then   *)
(* the whole page is there; in place of another one, nothing of it is.      *)
(* After an interrupt, or an error of the rollback, the body may stay       *)
(* without its sidecar, never the sidecar without its body.                 *)
RaisedLeftNoHalf ==
    \A w \in Writers :
        /\ pc[w] \in {"written", "failed", "interrupted"} =>
              <<"body", w>> \notin temps /\ <<"sidecar", w>> \notin temps
        /\ pc[w] = "failed" \/ (pc[w] = "unclean" /\ ending[w] = "failed") =>
              body # w /\ sidecar # w
        /\ pc[w] = "unclean" /\ ending[w] = "written" =>
              body = w /\ (w \in WithMetadata => sidecar = w)
        /\ sidecar = w => body = w

(* Writers that refuse one another do not all give up: when every call is  *)
(* over and nothing failed under them, an orphan sidecar blocked them all  *)
(* or the page is there.                                                   *)
SomeoneWins ==
    (\A w \in Writers : pc[w] \in Final) /\ ~faulted =>
        sidecar = Old \/ body # None

(* The cache writer keeps the promises of the never-overwrite page store.  *)
Outcome(w) ==
    IF pc[w] \in {"written", "failed"} THEN pc[w]
    ELSE IF pc[w] \in Final THEN "abandoned"
    ELSE "pending"

Store == INSTANCE PageStore WITH outcome <- [w \in Writers |-> Outcome(w)]

ImplementsPageStore == Store!Spec

(* Every call ends, whatever the other calls do. *)
EveryCallEnds == \A w \in Writers : <>(pc[w] \in Final)
=============================================================================
