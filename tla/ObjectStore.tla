----------------------------- MODULE ObjectStore -----------------------------
(***************************************************************************)
(* What a Parquex store promises to its callers, whichever backend holds   *)
(* the objects (docs/stores.md, "Replacement"):                            *)
(*   - a key is absent or holds the whole content of ONE writer;           *)
(*   - the key changes only when a writer publishes, at most once per      *)
(*     writer, or when the object is deleted;                              *)
(*   - a discarded writer never becomes visible;                           *)
(*   - content is fixed from the moment it is published.                   *)
(* The staged local writer (LocalWriter) and the multipart writer          *)
(* (MultipartWriter) are shown to implement this specification.            *)
(***************************************************************************)
EXTENDS Naturals

CONSTANTS
    Writers,    \* identities of open_writer calls; each is opened once
    Keys,       \* object keys of the store
    Absent      \* the value of a key that holds no object

VARIABLES
    objects,    \* objects[k]: the writer whose content k holds, or Absent
    status,     \* status[w]: unopened, open, published or discarded
    target,     \* target[w]: the key w was opened for, or Absent
    content     \* content[w]: what w has been given so far

vars == <<objects, status, target, content>>

(***************************************************************************)
(* Content is abstracted to the number of whole chunks it holds and        *)
(* whether a failed write left part of a chunk in it.                      *)
(***************************************************************************)
Content == [whole : Nat, torn : BOOLEAN]
NoContent == [whole |-> 0, torn |-> FALSE]

Init ==
    /\ objects = [k \in Keys |-> Absent]
    /\ status = [w \in Writers |-> "unopened"]
    /\ target = [w \in Writers |-> Absent]
    /\ content = [w \in Writers |-> NoContent]

Begin(w, k) ==
    /\ status[w] = "unopened"
    /\ status' = [status EXCEPT ![w] = "open"]
    /\ target' = [target EXCEPT ![w] = k]
    /\ UNCHANGED <<objects, content>>

Amend(w) ==
    /\ status[w] = "open"
    /\ content'[w] \in Content
    /\ content' = [content EXCEPT ![w] = content'[w]]
    /\ UNCHANGED <<objects, status, target>>

Publish(w) ==
    /\ status[w] = "open"
    /\ status' = [status EXCEPT ![w] = "published"]
    /\ objects' = [objects EXCEPT ![target[w]] = w]
    /\ UNCHANGED <<target, content>>

\* Several writers are discarded at once when the process that runs them dies.
Discard(W) ==
    /\ \A w \in W : status[w] = "open"
    /\ status' = [w \in Writers |-> IF w \in W THEN "discarded" ELSE status[w]]
    /\ UNCHANGED <<objects, target, content>>

Remove(k) ==
    /\ objects[k] # Absent
    /\ objects' = [objects EXCEPT ![k] = Absent]
    /\ UNCHANGED <<status, target, content>>

Next ==
    \/ \E w \in Writers : Amend(w) \/ Publish(w)
    \/ \E w \in Writers, k \in Keys : Begin(w, k)
    \/ \E W \in SUBSET Writers : Discard(W)
    \/ \E k \in Keys : Remove(k)

Spec == Init /\ [][Next]_vars
=============================================================================
