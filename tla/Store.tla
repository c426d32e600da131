------------------------------- MODULE Store -------------------------------
(***************************************************************************)
(* The calls of Parquex.Store that take several looks at a namespace while *)
(* writers change it: read/2 (StoreRead) and list/2 (StoreList).  They     *)
(* share no state but the namespace, so one call is looked at at a time.   *)
(***************************************************************************)
EXTENDS StoreRead, StoreList

VARIABLE call  \* the call the caller makes, "read" or "list"

storeVars == <<call, vars, listVars>>

StoreInit ==
    /\ call \in {"read", "list"}
    /\ Init /\ ListInit
    /\ call = "read" => listBackend = "local" /\ files \cup links = {}
    /\ call = "list" => backend = "local"

StoreNext ==
    /\ \/ call = "read" /\ Next /\ UNCHANGED listVars
       \/ call = "list" /\ ListNext /\ UNCHANGED vars
    /\ UNCHANGED call

(* A call that can go on goes on: the caller waits for it. *)
StoreSpec ==
    /\ StoreInit /\ [][StoreNext]_storeVars
    /\ WF_storeVars(call = "read" /\ ReadStep /\ UNCHANGED <<listVars, call>>)
=============================================================================
