---------------------------- MODULE Reservations ----------------------------
(***************************************************************************)
(* The reservation table of one state: pkg/store/reservations.go and the   *)
(* three admin handlers in front of it.                                    *)
(*                                                                         *)
(* A row of resource_reservations is keyed by (state, address_glob, holder,*)
(* apply_id); one state is modelled and an apply has one holder, so the    *)
(* table is a function of the apply and the glob.  The row keeps its mode  *)
(* and its lease.                                                          *)
(*                                                                         *)
(* Time.  The code only ever compares expires_at with now(), so the model  *)
(* keeps the difference ttl = expires_at - now(), cut off at Expired: a    *)
(* row with ttl = Expired satisfies expires_at < now() and can be purged,  *)
(* a row with ttl > 0 satisfies expires_at > now() and can be renewed, and *)
(* ttl = 0 is the boundary, where it can be neither.  Time is unbounded    *)
(* and the state space is finite.                                          *)
(*                                                                         *)
(* Each statement below is one transaction.  AcquireReservations locks the *)
(* states row (SELECT ... FOR UPDATE) for its whole length; release and    *)
(* renew are single statements and take effect atomically.                 *)
(***************************************************************************)
EXTENDS Integers, FiniteSets

CONSTANTS
  Apply,            \* apply-run identities
  Glob,             \* address globs that may be requested
  Intersects(_,_),  \* globsIntersect on Glob
  MaxLease          \* longest lease, in ticks

(* globsIntersect does not depend on the order of its arguments.           *)
ASSUME IntersectsSymmetric ==
  \A g, h \in Glob : Intersects(g, h) \in BOOLEAN /\ (Intersects(g, h) <=> Intersects(h, g))

ASSUME MaxLeaseAssumption == MaxLease \in Nat \ {0}

(* Two requests for one glob meet.                                         *)
ASSUME IntersectsReflexive == \A g \in Glob : Intersects(g, g)

VARIABLE resv       \* resv[a][g]: the row of apply a for glob g, or NoRow

Mode    == {"read", "write"}
Expired == -1
Lease   == 1..MaxLease
Row     == [mode : Mode, ttl : Expired..MaxLease]
NoRow   == [mode |-> "none", ttl |-> Expired]

(* A request: the mode wanted for some of the globs, "none" for the rest.  *)
Want == [Glob -> Mode \cup {"none"}]

Present(a, g)   == resv[a][g] # NoRow
Purgeable(a, g) == Present(a, g) /\ resv[a][g].ttl = Expired
Renewable(a, g) == Present(a, g) /\ resv[a][g].ttl > 0
\* Mutant of Live: a row blocks others for as long as it exists.
LiveWhilePresent(a, g) == Present(a, g)
Live(a, g)      == Present(a, g) /\ resv[a][g].ttl # Expired

(* The rows a list call shows: expires_at > now().                         *)
ListActiveReservations == {p \in Apply \X Glob : Renewable(p[1], p[2])}

-----------------------------------------------------------------------------
ReservationsInit == resv = [a \in Apply |-> [g \in Glob |-> NoRow]]

(* Conflict matrix: read/read is compatible, everything else on            *)
(* intersecting globs is not.                                              *)
ModesConflict(m, n) == ~ (m = "read" /\ n = "read")

Blockers(a, want) ==
  {p \in Apply \X Glob :
     /\ p[1] # a
     /\ Live(p[1], p[2])
     /\ \E g \in Glob : /\ want[g] # "none"
                        /\ ModesConflict(want[g], resv[p[1]][p[2]].mode)
                        /\ Intersects(g, p[2])}

(* AcquireReservations, success: purge every expired row of the state,     *)
(* find no blocker among the rest, upsert each wanted row with a fresh     *)
(* lease.  A conflict rolls the purge back and changes nothing; so does an *)
(* empty request.                                                          *)
AcquireEffect(a, want, lease) ==
  resv' = [b \in Apply |-> [g \in Glob |->
             IF b = a /\ want[g] # "none" THEN [mode |-> want[g], ttl |-> lease]
             ELSE IF Purgeable(b, g) THEN NoRow
             ELSE resv[b][g]]]

AcquireReservations(a, want, lease) ==
  /\ \E g \in Glob : want[g] # "none"
  /\ Blockers(a, want) = {}
  /\ AcquireEffect(a, want, lease)

(* RenewReservations: extend every row of the apply that has not expired.  *)
RenewReservations(a, lease) ==
  resv' = [resv EXCEPT ![a] = [g \in Glob |->
             IF Renewable(a, g) THEN [resv[a][g] EXCEPT !.ttl = lease] ELSE resv[a][g]]]

(* ReleaseReservations: delete every row of the apply, expired or not.     *)
ReleaseReservations(a) ==
  resv' = [resv EXCEPT ![a] = [g \in Glob |-> NoRow]]

(* One unit of time passes for every row.                                  *)
TickRow(r) == IF r.ttl > Expired THEN [r EXCEPT !.ttl = @ - 1] ELSE r
Tick == resv' = [a \in Apply |-> [g \in Glob |-> TickRow(resv[a][g])]]

ReservationsNext ==
  \/ \E a \in Apply, want \in Want, lease \in Lease : AcquireReservations(a, want, lease)
  \/ \E a \in Apply, lease \in Lease : RenewReservations(a, lease)
  \/ \E a \in Apply : ReleaseReservations(a)
  \/ Tick

ReservationsSpec == ReservationsInit /\ [][ReservationsNext]_resv

-----------------------------------------------------------------------------
(* Properties                                                              *)

(* Every row is a well-formed row of the table or absent.                  *)
ReservationsTypeOK == resv \in [Apply -> [Glob -> Row \cup {NoRow}]]

(* The table never holds two rows of different applies on intersecting     *)
(* globs unless both are reads: the guarantee AcquireReservations' comment *)
(* makes ("the transaction has safely claimed all specified subgraphs").   *)
(* It covers expired rows too: a row that can still be renewed, or that    *)
(* its owner still believes in, has no conflicting successor.              *)
NoConflictingRows ==
  \A a, b \in Apply : \A g, h \in Glob :
    (/\ a # b
     /\ Present(a, g) /\ Present(b, h)
     /\ Intersects(g, h))
    => resv[a][g].mode = "read" /\ resv[b][h].mode = "read"

(* A lease is honoured: a row whose lease has not run out disappears only  *)
(* when its own apply's rows are all released, never through another       *)
(* apply's acquire or through time.                                        *)
LeaseHonoured ==
  \A a \in Apply : \A g \in Glob :
    (Live(a, g) /\ ~ Present(a, g)') => \A h \in Glob : ~ Present(a, h)'

LeasesHonoured == [][LeaseHonoured]_resv
=============================================================================
