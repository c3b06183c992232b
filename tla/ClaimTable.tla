------------------------------ MODULE ClaimTable ------------------------------
(***************************************************************************)
(* What claiming work promises, without rows, queues, clocks or processes: *)
(* an item that was offered is claimed by one worker at a time and brought *)
(* to its end once, by a worker that still has the claim when it is done.  *)
(* A worker may be overtaken while it works, and may stop at any time.     *)
(* WorkLedger and BatchRuntime implement this specification.               *)
(***************************************************************************)

CONSTANTS Key,     \* items
          Worker,  \* workers
          NoOne    \* the owner of an item that nobody has claimed

VARIABLES item,    \* how far each item is
          owner,   \* who has the claim
          working  \* who is at work on what

vars == <<item, owner, working>>

Init ==
  /\ item = [k \in Key |-> "none"]
  /\ owner = [k \in Key |-> NoOne]
  /\ working = {}

Offer(k) ==
  /\ item[k] = "none"
  /\ item' = [item EXCEPT ![k] = "waiting"]
  /\ UNCHANGED <<owner, working>>

\* w claims an item that waits, or takes one over from its owner, and may be
\* at work on it at once.
Claim(w, k) ==
  /\ item[k] = "waiting" \/ (item[k] = "claimed" /\ owner[k] # w)
  /\ item' = [item EXCEPT ![k] = "claimed"]
  /\ owner' = [owner EXCEPT ![k] = w]
  /\ working' \in {working, working \cup {<<w, k>>}}

\* w turns to items it has claimed before.
Begin(w) ==
  /\ \E K \in SUBSET {k \in Key : item[k] = "claimed" /\ owner[k] = w} :
       working' = working \cup ({w} \X K)
  /\ UNCHANGED <<item, owner>>

\* The item comes to its end by the work of its owner.
Finish(w, k) ==
  /\ <<w, k>> \in working
  /\ item[k] = "claimed" /\ owner[k] = w
  /\ item' = [item EXCEPT ![k] = "over"]
  /\ owner' = [owner EXCEPT ![k] = NoOne]
  /\ working' = working \ {<<w, k>>}

\* The owner gives up its claim after work that failed: the item may be claimed
\* again.
GiveBack(w, k) ==
  /\ <<w, k>> \in working
  /\ item[k] = "claimed" /\ owner[k] = w
  /\ item' = [item EXCEPT ![k] = "waiting"]
  /\ owner' = [owner EXCEPT ![k] = NoOne]
  /\ working' = working \ {<<w, k>>}

\* Work is given up: its result would come too late, or its worker is gone.
Leave ==
  /\ working' \in SUBSET working
  /\ UNCHANGED <<item, owner>>

\* The claim of a worker that is not at work is taken back.
Release(k) ==
  /\ item[k] = "claimed" /\ <<owner[k], k>> \notin working
  /\ item' = [item EXCEPT ![k] = "waiting"]
  /\ owner' = [owner EXCEPT ![k] = NoOne]
  /\ UNCHANGED working

Next ==
  \/ Leave
  \/ \E k \in Key : Offer(k) \/ Release(k)
  \/ \E w \in Worker :
       Begin(w) \/ \E k \in Key : Claim(w, k) \/ Finish(w, k) \/ GiveBack(w, k)

Spec == Init /\ [][Next]_vars
=============================================================================
