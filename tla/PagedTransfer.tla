--------------------------- MODULE PagedTransfer ---------------------------
(***************************************************************************)
(* What FatPagingFileIo promises the memory manager: a request, once       *)
(* begun, is completed once; it succeeds only when every page of every run *)
(* was transferred, and no page moves before it begins or after it ended.  *)
(***************************************************************************)
EXTENDS Integers, Sequences

CONSTANTS
    Requests,   \* requests that the memory manager may have open
    Shapes      \* the pages that a request has in each run of the file

VARIABLES state, need, moved

States == {"free", "busy", "ok", "error"}

Nothing(shape) == [k \in DOMAIN shape |-> 0]

Start ==
    /\ state = [r \in Requests |-> "free"]
    /\ need = [r \in Requests |-> <<>>]
    /\ moved = [r \in Requests |-> <<>>]

Begin(r) ==
    /\ state[r] # "busy"
    /\ state' = [state EXCEPT ![r] = "busy"]
    /\ \E shape \in Shapes :
          /\ need' = [need EXCEPT ![r] = shape]
          /\ moved' = [moved EXCEPT ![r] = Nothing(shape)]

\* More pages of run k have been transferred.
Move(r, k) ==
    /\ state[r] = "busy"
    /\ \E p \in moved[r][k]..need[r][k] : moved' = [moved EXCEPT ![r][k] = p]
    /\ UNCHANGED <<state, need>>

Complete(r) ==
    /\ state[r] = "busy"
    /\ \/ moved[r] = need[r] /\ state' = [state EXCEPT ![r] = "ok"]
       \/ state' = [state EXCEPT ![r] = "error"]
    /\ UNCHANGED <<need, moved>>

Step ==
    \E r \in Requests :
        \/ Begin(r) \/ Complete(r)
        \/ \E k \in DOMAIN need[r] : Move(r, k)

Spec == Start /\ [][Step]_<<state, need, moved>>
=============================================================================
