----------------------------- MODULE StorageLease -----------------------------
(***************************************************************************)
(* The coordinator lease (crates/rollout-coordinator/src/lease.rs) and the *)
(* loop that lives on it (run.rs): processes boot, read the lease row of   *)
(* the run, claim it when it is absent or expired, renew it at every tick, *)
(* and fence themselves when they find that they were deposed.             *)
(*                                                                         *)
(* Every `.await` of the code is a step boundary: the clock is sampled,    *)
(* the row is read and the compare-and-swap is committed in three          *)
(* different steps, and other processes run in between.  One commit is     *)
(* atomic, which is what the embedded store provides (a single writer).    *)
(***************************************************************************)
EXTENDS Integers

CONSTANTS Coord,      \* coordinator processes (`me` is a fresh ULID per boot)
          None,       \* an absent row, or a local variable not yet set
          TTL,        \* lease_ttl() = coordinator_failure_timeout
          ClockSkew,  \* how far a host clock may run ahead of `clock`
          MaxClock    \* bound on the clock

LeaseRecord == [holder : Coord, epoch : Nat, expires : Nat]

ASSUME LeaseAssumption ==
  /\ TTL \in Nat
  /\ ClockSkew \in Nat
  /\ MaxClock \in Nat
  /\ None \notin LeaseRecord
  /\ None \notin Coord
  /\ None \notin Nat

VARIABLES clock,       \* true time, in ticks
          lease,       \* the coordinator_lease row: a LeaseRecord or None
          epochRow,    \* the epoch row: a natural number or None
          stage,       \* where each process is
          now,         \* the last clock sample each process took
          seen,        \* the lease row each process read last
          adopted,     \* the epoch each process serves under (start_epoch)
          fenceEvent   \* the coordinator_fenced event each process emitted

leaseVars == <<clock, lease, epochRow, stage, now, seen, adopted, fenceEvent>>

(***************************************************************************)
(* down      not started               sampled  try_acquire read the clock *)
(* claim     try_acquire read the row  serving  between two renew ticks    *)
(* held      the tick read its own row renewing renew read the clock       *)
(* observe   renew returned false      fenced   emitted and aborted        *)
(* exited    left without serving      crashed  killed                     *)
(***************************************************************************)
Booting == {"sampled", "claim"}
Serving == {"serving", "held", "renewing", "observe"}
Stopped == {"fenced", "exited", "crashed"}

FenceEvent == [stale : Nat, observed : Nat]

LeaseTypeOK ==
  /\ clock \in Nat
  /\ lease \in LeaseRecord \cup {None}
  /\ epochRow \in Nat \cup {None}
  /\ stage \in [Coord -> {"down"} \cup Booting \cup Serving \cup Stopped]
  /\ now \in [Coord -> Nat]
  /\ seen \in [Coord -> LeaseRecord \cup {None}]
  /\ adopted \in [Coord -> Nat \cup {None}]
  /\ fenceEvent \in [Coord -> FenceEvent \cup {None}]

LeaseInit ==
  /\ clock = 0
  /\ lease = None
  /\ epochRow = None
  /\ stage = [c \in Coord |-> "down"]
  /\ now = [c \in Coord |-> 0]
  /\ seen = [c \in Coord |-> None]
  /\ adopted = [c \in Coord |-> None]
  /\ fenceEvent = [c \in Coord |-> None]

-----------------------------------------------------------------------------
(* commit_claim: one transaction that swaps the lease row and, on a win,   *)
(* stamps the epoch row.                                                   *)

\* Slip: the row is written without a comparison.
CasWinsBlindly(expected) == TRUE

\* Slip: only holder and epoch are compared, so a renewal goes unnoticed.
CasWinsOnIdentity(expected) ==
  IF lease = None \/ expected = None
  THEN lease = expected
  ELSE lease.holder = expected.holder /\ lease.epoch = expected.epoch

\* cas_bytes compares the whole row with the bytes the caller expects.
CasWins(expected) == lease = expected

WriteClaim(next) ==
  /\ lease' = next
  /\ epochRow' = next.epoch

\* Slip: a steal keeps the epoch of the row it replaces.
ClaimRecordSameEpoch(c) ==
  [holder |-> c,
   epoch |-> IF seen[c] = None THEN 0 ELSE seen[c].epoch,
   expires |-> now[c] + TTL]

\* The record try_acquire builds from the row it read.
ClaimRecord(c) ==
  [holder |-> c,
   epoch |-> IF seen[c] = None THEN 0 ELSE seen[c].epoch + 1,
   expires |-> now[c] + TTL]

\* The record renew builds: the holder and the epoch stay.
RenewRecord(c) ==
  [holder |-> seen[c].holder, epoch |-> seen[c].epoch, expires |-> now[c] + TTL]

\* try_acquire may claim an absent row, or one whose expiry has passed.
MayClaim(c, row) == row = None \/ now[c] > row.expires

-----------------------------------------------------------------------------
(* The environment.                                                        *)

Tick ==
  /\ clock < MaxClock
  /\ clock' = clock + 1
  /\ UNCHANGED <<lease, epochRow, stage, now, seen, adopted, fenceEvent>>

\* A process is killed between any two steps.
Crash(c) ==
  /\ stage[c] \in Booting \cup Serving
  /\ stage' = [stage EXCEPT ![c] = "crashed"]
  /\ UNCHANGED <<clock, lease, epochRow, now, seen, adopted, fenceEvent>>

\* A host clock reads at least the true time and at most ClockSkew more.
SampleClock(c) ==
  \E t \in clock .. clock + ClockSkew : now' = [now EXCEPT ![c] = t]

-----------------------------------------------------------------------------
(* Boot: replay_and_serve calls try_acquire once.                          *)

Boot(c) ==
  /\ stage[c] = "down"
  /\ SampleClock(c)
  /\ stage' = [stage EXCEPT ![c] = "sampled"]
  /\ UNCHANGED <<clock, lease, epochRow, seen, adopted, fenceEvent>>

\* get_bytes of the lease row: claim it, or leave it to its live holder.
ReadLease(c) ==
  /\ stage[c] = "sampled"
  /\ seen' = [seen EXCEPT ![c] = lease]
  /\ stage' = [stage EXCEPT
                ![c] = IF MayClaim(c, lease) THEN "claim" ELSE "exited"]
  /\ UNCHANGED <<clock, lease, epochRow, now, adopted, fenceEvent>>

\* commit_claim wins: the process adopts the epoch and serves.
ClaimWon(c) ==
  /\ stage[c] = "claim"
  /\ CasWins(seen[c])
  /\ WriteClaim(ClaimRecord(c))
  /\ adopted' = [adopted EXCEPT ![c] = ClaimRecord(c).epoch]
  /\ stage' = [stage EXCEPT ![c] = "serving"]
  /\ UNCHANGED <<clock, now, seen, fenceEvent>>

\* commit_claim loses: the row moved since it was read.
ClaimLost(c) ==
  /\ stage[c] = "claim"
  /\ ~CasWins(seen[c])
  /\ stage' = [stage EXCEPT ![c] = "exited"]
  /\ UNCHANGED <<clock, lease, epochRow, now, seen, adopted, fenceEvent>>

\* A storage error ends the boot.  The commit may have taken effect although
\* its answer was lost: the row then names a process that never serves.
ClaimError(c) ==
  /\ stage[c] = "claim"
  /\ \/ CasWins(seen[c]) /\ WriteClaim(ClaimRecord(c))
     \/ UNCHANGED <<lease, epochRow>>
  /\ stage' = [stage EXCEPT ![c] = "exited"]
  /\ UNCHANGED <<clock, now, seen, adopted, fenceEvent>>

-----------------------------------------------------------------------------
(* The renew loop.  A tick whose read fails changes nothing and waits for  *)
(* the next tick.                                                          *)

\* fence_old_coordinator, then std::process::abort().
Fence(c, stale, observed) ==
  /\ fenceEvent' = [fenceEvent EXCEPT ![c] = [stale |-> stale, observed |-> observed]]
  /\ stage' = [stage EXCEPT ![c] = "fenced"]

\* Slip: a row held by another process is skipped like a failed read.
RenewDeposedIgnored(c) ==
  /\ stage[c] = "serving"
  /\ lease # None
  /\ lease.holder # c
  /\ UNCHANGED leaseVars

\* current() shows another holder: the process was deposed.
RenewDeposed(c) ==
  /\ stage[c] = "serving"
  /\ lease # None
  /\ lease.holder # c
  /\ Fence(c, adopted[c], lease.epoch)
  /\ UNCHANGED <<clock, lease, epochRow, now, seen, adopted>>

\* current() shows the process itself.
RenewRead(c) ==
  /\ stage[c] = "serving"
  /\ lease # None
  /\ lease.holder = c
  /\ seen' = [seen EXCEPT ![c] = lease]
  /\ stage' = [stage EXCEPT ![c] = "held"]
  /\ UNCHANGED <<clock, lease, epochRow, now, adopted, fenceEvent>>

\* renew() samples the clock before it opens its transaction.
RenewSample(c) ==
  /\ stage[c] = "held"
  /\ SampleClock(c)
  /\ stage' = [stage EXCEPT ![c] = "renewing"]
  /\ UNCHANGED <<clock, lease, epochRow, seen, adopted, fenceEvent>>

RenewWon(c) ==
  /\ stage[c] = "renewing"
  /\ CasWins(seen[c])
  /\ WriteClaim(RenewRecord(c))
  /\ stage' = [stage EXCEPT ![c] = "serving"]
  /\ UNCHANGED <<clock, now, seen, adopted, fenceEvent>>

RenewLost(c) ==
  /\ stage[c] = "renewing"
  /\ ~CasWins(seen[c])
  /\ stage' = [stage EXCEPT ![c] = "observe"]
  /\ UNCHANGED <<clock, lease, epochRow, now, seen, adopted, fenceEvent>>

\* renew() returned an error, with or without effect: wait for the next tick.
RenewError(c) ==
  /\ stage[c] = "renewing"
  /\ \/ CasWins(seen[c]) /\ WriteClaim(RenewRecord(c))
     \/ UNCHANGED <<lease, epochRow>>
  /\ stage' = [stage EXCEPT ![c] = "serving"]
  /\ UNCHANGED <<clock, now, seen, adopted, fenceEvent>>

\* After a lost renew: read the row once more for the event.  A failed read
\* reports the process's own epoch as the observed one.
Observe(c) ==
  /\ stage[c] = "observe"
  /\ \/ lease # None /\ Fence(c, seen[c].epoch, lease.epoch)
     \/ Fence(c, seen[c].epoch, seen[c].epoch)
  /\ UNCHANGED <<clock, lease, epochRow, now, seen, adopted>>

-----------------------------------------------------------------------------
Acquire(c) == ReadLease(c) \/ ClaimWon(c) \/ ClaimLost(c) \/ ClaimError(c)

RenewLoop(c) ==
  \/ RenewDeposed(c) \/ RenewRead(c) \/ RenewSample(c)
  \/ RenewWon(c) \/ RenewLost(c) \/ RenewError(c) \/ Observe(c)

LeaseNext ==
  \/ Tick
  \/ \E c \in Coord : Boot(c) \/ Acquire(c) \/ RenewLoop(c) \/ Crash(c)

LeaseSpec == LeaseInit /\ [][LeaseNext]_leaseVars

\* tokio keeps polling the tasks of a live process, so a boot and a renew
\* loop that can move do move.  Nobody is forced to boot or to crash.
LeaseFairness ==
  \A c \in Coord : WF_leaseVars(Acquire(c)) /\ WF_leaseVars(RenewLoop(c))

LeaseFairSpec == LeaseSpec /\ LeaseFairness

-----------------------------------------------------------------------------
(* Properties.                                                             *)

\* lease.rs:113 "lease-epoch == ledger-epoch": the two rows are always in step.
LeaseEpochIsLedgerEpoch ==
  epochRow = IF lease = None THEN None ELSE lease.epoch

\* Two processes never serve under one epoch, whatever the interleaving of
\* their reads and swaps and whatever their clocks say.
OneCoordinatorPerEpoch ==
  \A c, d \in Coord :
    c # d /\ adopted[c] # None /\ adopted[d] # None => adopted[c] # adopted[d]

\* A serving process is either the holder on record, at the epoch on record,
\* or strictly behind it: it can never be mistaken for its successor.
ServingIsHolderOrBehind ==
  \A c \in Coord :
    adopted[c] # None =>
      /\ lease # None
      /\ \/ lease.holder = c /\ lease.epoch = adopted[c]
         \/ lease.holder # c /\ lease.epoch > adopted[c]

\* A process aborts only when it really was deposed; a failed or ambiguous
\* renew alone never kills the coordinator of the run.
FencedOnlyIfDeposed ==
  \A c \in Coord :
    stage[c] \in {"observe", "fenced"} => lease # None /\ lease.holder # c

\* The event names the epoch the process served under, and an observed epoch
\* that is no older than it and no newer than the row.
FenceEventInRange ==
  \A c \in Coord :
    fenceEvent[c] # None =>
      /\ fenceEvent[c].stale = adopted[c]
      /\ fenceEvent[c].stale <= fenceEvent[c].observed
      /\ fenceEvent[c].observed <= lease.epoch

\* The lease changes hands only after the expiry on record has passed, even
\* though the claimer looked at the row and the clock in earlier steps and
\* the holder may have renewed since.
StealOnlyAfterExpiry ==
  [][lease # None /\ lease'.holder # lease.holder
       => clock + ClockSkew > lease.expires]_leaseVars

\* Once deposed, a process never gets the lease back.
DeposedNeverReturns ==
  [][\A c \in Coord :
       adopted[c] # None /\ lease.holder # c => lease'.holder # c]_leaseVars

\* A deposed process stops: it does not serve beside its successor forever.
DeposedEventuallyStops ==
  \A c \in Coord :
    (stage[c] \in Serving /\ lease.holder # c) ~> (stage[c] \in Stopped)

-----------------------------------------------------------------------------
(* The inductive invariant behind the safety properties.                   *)

\* Only a process that ran its claim can be on record, and if it adopted an
\* epoch it is the one on record.
HolderHasClaimed ==
  lease # None =>
    /\ stage[lease.holder] \notin {"down"} \cup Booting
    /\ adopted[lease.holder] \in {lease.epoch, None}

\* A process adopts its epoch exactly when its claim is won.
AdoptedWhenServing ==
  \A c \in Coord :
    /\ stage[c] \in Serving \cup {"fenced"} => adopted[c] # None
    /\ stage[c] \in {"down"} \cup Booting => adopted[c] = None

\* What a claim is about to swap out had expired on the claimer's clock.
ClaimSawExpired ==
  \A c \in Coord :
    /\ now[c] <= clock + ClockSkew
    /\ stage[c] = "claim" /\ seen[c] # None => now[c] > seen[c].expires

\* What a renewal is about to swap out is the process's own record, and it is
\* still in place unless another process took over.
RenewSawOwn ==
  \A c \in Coord :
    stage[c] \in {"held", "renewing", "observe"} =>
      /\ seen[c] # None
      /\ seen[c].holder = c
      /\ seen[c].epoch = adopted[c]
      /\ stage[c] # "observe" => lease = seen[c] \/ lease.holder # c

\* The conjunction that every step of the system preserves.
LeaseInv ==
  /\ LeaseTypeOK
  /\ LeaseEpochIsLedgerEpoch
  /\ OneCoordinatorPerEpoch
  /\ ServingIsHolderOrBehind
  /\ FencedOnlyIfDeposed
  /\ FenceEventInRange
  /\ HolderHasClaimed
  /\ AdoptedWhenServing
  /\ ClaimSawExpired
  /\ RenewSawOwn

-----------------------------------------------------------------------------
(* StorageLease implements EpochSuccession.                                *)

Succession == INSTANCE EpochSuccession WITH
  epoch <- IF lease = None THEN -1 ELSE lease.epoch,
  holder <- IF lease = None THEN None ELSE lease.holder,
  spent <- {c \in Coord : stage[c] \notin {"down"} \cup Booting}

\* Every lease transition is a succession to a new epoch by a new process.
ImplementsSuccession == Succession!Spec
=============================================================================
