----------------------------- MODULE PageStore -----------------------------
(***************************************************************************)
(* What a never-overwrite page cache promises its callers, for one page.   *)
(*                                                                         *)
(* The page is a body and an optional provenance sidecar.  Each element of *)
(* Writers is one write call.  A call that is still pending may put its    *)
(* body into an empty slot, add its sidecar to its own body, and take its  *)
(* own body back as long as the sidecar is missing.  It then ends in one   *)
(* of three ways: it returns and the page is its own, it raises and left   *)
(* nothing, or it is abandoned: killed, interrupted, or stopped by an      *)
(* error while it cleaned up.                                              *)
(***************************************************************************)
CONSTANTS
    Writers,        \* the write calls
    WithMetadata,   \* the calls that were given fetch metadata to publish
    Old,            \* a file that was there before every call
    None            \* no file

VARIABLES
    body,           \* whose file is at the page's body path
    sidecar,        \* whose file is at the page's sidecar path
    outcome         \* how each call ended

vars == <<body, sidecar, outcome>>

Init ==
    /\ body \in {Old, None} /\ sidecar \in {Old, None}
    /\ outcome = [w \in Writers |-> "pending"]

PutBody(w) ==
    /\ outcome[w] = "pending"
    /\ body = None /\ sidecar = None
    /\ body' = w
    /\ UNCHANGED <<sidecar, outcome>>

PutSidecar(w) ==
    /\ outcome[w] = "pending"
    /\ w \in WithMetadata /\ body = w /\ sidecar = None
    /\ sidecar' = w
    /\ UNCHANGED <<body, outcome>>

TakeBack(w) ==
    /\ outcome[w] = "pending"
    /\ body = w /\ sidecar = None
    /\ body' = None
    /\ UNCHANGED <<sidecar, outcome>>

Owns(w) == body = w /\ (w \in WithMetadata => sidecar = w)

LeftNothing(w) == body # w /\ sidecar # w

End(w) ==
    /\ outcome[w] = "pending"
    /\ \E o \in {"written", "failed", "abandoned"} :
        /\ o = "written" => Owns(w)
        /\ o = "failed" => LeftNothing(w)
        /\ outcome' = [outcome EXCEPT ![w] = o]
    /\ UNCHANGED <<body, sidecar>>

Next == \E w \in Writers : PutBody(w) \/ PutSidecar(w) \/ TakeBack(w) \/ End(w)

Spec == Init /\ [][Next]_vars
=============================================================================
