------------------------------- MODULE Dataset -------------------------------
(***************************************************************************)
(* What Parquex.Dataset.Writer promises to its caller, without buffers,    *)
(* partitions, limits or native writers: the rows given to write/2 appear  *)
(* in the dataset in parts that share no row; a part is whole from the     *)
(* moment it is visible and is never taken back; close/1 succeeds only     *)
(* when every row given is visible; after close/1 or cancel/1 no part      *)
(* appears any more; and after a failure or the death of the server at     *)
(* most the one part whose publication was under way.                      *)
(***************************************************************************)
EXTENDS Naturals, FiniteSets

VARIABLES
    taken,    \* how many rows have been given: they are numbered 1 .. taken
    visible,  \* the visible parts, each the set of its rows
    state     \* "open", "closed" (close/1 succeeded), "cancelled", "stopped", or
              \* "in_doubt": stopped with a part that may still appear

datasetVars == <<taken, visible, state>>

DatasetInit ==
    /\ taken = 0
    /\ visible = {}
    /\ state = "open"

\* write/2 is called with further rows
Take ==
    /\ state = "open"
    /\ taken' > taken
    /\ UNCHANGED <<visible, state>>

\* The parts that can be made of the rows not visible yet.
NewParts == (SUBSET ((1 .. taken) \ UNION visible)) \ {{}}

\* write/2 or close/1 completes a part of rows that were not visible before;
\* the step that cannot go on afterwards stops the writer as well.
Complete ==
    /\ state = "open"
    /\ \E part \in NewParts : visible' = visible \cup {part}
    /\ state' \in {"open", "stopped"}
    /\ UNCHANGED taken

\* close/1 answers {:ok, report}
Close ==
    /\ state = "open"
    /\ UNION visible = 1 .. taken
    /\ state' = "closed"
    /\ UNCHANGED <<taken, visible>>

\* cancel/1, an {:error, _} answer, or the end of the server
End ==
    /\ state = "open"
    /\ state' \in {"cancelled", "stopped", "in_doubt"}
    /\ UNCHANGED <<taken, visible>>

\* The part in doubt appears, or never will.
Settle ==
    /\ state = "in_doubt"
    /\ state' = "stopped"
    /\ \/ \E part \in NewParts : visible' = visible \cup {part}
       \/ UNCHANGED visible
    /\ UNCHANGED taken

DatasetNext == Take \/ Complete \/ Close \/ End \/ Settle

DatasetSpec == DatasetInit /\ [][DatasetNext]_datasetVars
=============================================================================
