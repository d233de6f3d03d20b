--------------------------- MODULE PageAllocator ---------------------------
(***************************************************************************)
(* What a physical page manager promises to its callers (the PMM_API of    *)
(* kernel/module_api.h): a request for k contiguous pages is answered with *)
(* pages of managed memory that nobody holds, or with 0; a page given back *)
(* can be handed out again.  Nothing is said about which run is chosen or  *)
(* when a request may fail.                                                *)
(***************************************************************************)
EXTENDS Integers

CONSTANTS FirstPage,   \* the first page that may be handed out
          LastPage,    \* the last one
          Requests     \* the sizes callers ask for

VARIABLES held,        \* pages that callers hold
          reply        \* the answer to the last request: a page, or 0

Init == held = {} /\ reply = 0

Grant(k) ==
  \E s \in FirstPage..LastPage :
    /\ k > 0
    /\ s + k - 1 <= LastPage
    /\ (s..(s + k - 1)) \cap held = {}
    /\ held' = held \cup (s..(s + k - 1))
    /\ reply' = s

Refuse == reply' = 0 /\ UNCHANGED held

Release(p) ==
  /\ p \in held
  /\ held' = held \ {p}
  /\ UNCHANGED reply

Next ==
  \/ \E k \in Requests : Grant(k)
  \/ Refuse
  \/ \E p \in held : Release(p)

Spec == Init /\ [][Next]_<<held, reply>>
=============================================================================
