------------------------------- MODULE Outbox -------------------------------
(***************************************************************************)
(* The outbox: rows written in the transaction they announce, and drainers *)
(* that claim them under a lease, deliver them and settle them. A drainer  *)
(* may stop anywhere; another process may run a drainer at the same time.  *)
(***************************************************************************)
EXTENDS Naturals, Sequences, FiniteSets, SequencesExt

CONSTANTS
    Events,         \* rows that may be written
    Poison,         \* those no drainer can deliver (an unknown eventType)
    Drainers,       \* processes that drain
    MaxAttempts,    \* OUTBOX_MAX_ATTEMPTS
    BatchSize,      \* OUTBOX_BATCH_SIZE
    MaxGlitches,    \* bound: deliveries and updates that fail, or are slow, for a time
    MaxStops        \* bound: crashes, and errors that end a cycle

ASSUME OutboxAssumption ==
    /\ Poison \subseteq Events
    /\ MaxAttempts \in Nat \ {0} /\ BatchSize \in Nat \ {0}
    /\ MaxGlitches \in Nat /\ MaxStops \in Nat

None == "none"      \* no row, no token, no lease
ASSUME DrainersAssumption == None \notin Drainers

VARIABLES
    rows,           \* committed events in the order of createdAt
    status, attempts, token, lease,     \* the columns of a row
    tries,          \* history: failed tries of a row, up to MaxAttempts
    drainer,        \* each drainer's cycle
    delivered,      \* events some socket has been sent
    glitches, stops

outboxVars == <<rows, status, attempts, tries, token, lease, drainer, delivered, glitches, stops>>
columns == <<status, attempts, tries, token, lease>>
-----------------------------------------------------------------------------
AtRest == [pc |-> "rest", batch |-> <<>>, claimed |-> <<>>]

OutboxInit ==
    /\ rows = <<>>
    /\ status = [e \in Events |-> None]
    /\ attempts = [e \in Events |-> 0]
    /\ tries = [e \in Events |-> 0]
    /\ token = [e \in Events |-> None]
    /\ lease = [e \in Events |-> None]
    /\ drainer = [d \in Drainers |-> AtRest]
    /\ delivered = {}
    /\ glitches = 0 /\ stops = 0

InHand(d, e) ==
    \E r \in ToSet(drainer[d].batch) \cup ToSet(drainer[d].claimed) : r.event = e
-----------------------------------------------------------------------------
(* enqueueEvent, in the writer's transaction. A key that is there already *)
(* is a replay and writes nothing.                                        *)
Enqueue(e) ==
    /\ status[e] = None
    /\ rows' = Append(rows, e)
    /\ status' = [status EXCEPT ![e] = "PENDING"]
    /\ UNCHANGED <<attempts, tries, token, lease, drainer, delivered, glitches, stops>>

(* OUTBOX_LEASE_MS pass since the claimer's cycle began; that its claimer  *)
(* is still at work by then does not go on for ever.                       *)
LeaseExpires(e) ==
    /\ lease[e] = "held"
    /\ lease' = [lease EXCEPT ![e] = "expired"]
    /\ IF InHand(token[e], e) THEN glitches < MaxGlitches /\ glitches' = glitches + 1
       ELSE UNCHANGED glitches
    /\ UNCHANGED <<rows, status, attempts, tries, token, drainer, delivered, stops>>

(* A lease is compared with the time the cycle began: one that runs out   *)
(* later is not free for this cycle.                                      *)
FreeUnlessClaimed(e) == status[e] = "PENDING" /\ lease[e] = None
Free(e) == status[e] = "PENDING" /\ lease[e] \in {None, "expired"}

FreeRows == {e \in Events : Free(e)}
Before(e, f) == \E i, j \in DOMAIN rows : i < j /\ rows[i] = e /\ rows[j] = f

(* The oldest of the free rows, in their order.                           *)
IsOldest(order) ==
    /\ \A m, n \in DOMAIN order : m < n => Before(order[m], order[n])
    /\ \A n \in DOMAIN order, e \in FreeRows \ Range(order) : Before(order[n], e)

BatchRow(e) == [event |-> e, attempts |-> attempts[e], lapsed |-> lease[e] = "expired"]

(* As many of the oldest free rows as a batch takes.                      *)
ReadBatch(d) ==
    LET size == IF Cardinality(FreeRows) < BatchSize THEN Cardinality(FreeRows) ELSE BatchSize
    IN
    /\ drainer[d] = AtRest /\ FreeRows # {}
    /\ \E order \in [1..size -> FreeRows] :
          /\ IsOldest(order)
          /\ drainer' = [drainer EXCEPT ![d] =
                [AtRest EXCEPT !.pc = "claiming", !.batch = [n \in 1..size |-> BatchRow(order[n])]]]
    /\ UNCHANGED <<rows, delivered, glitches, stops>> /\ UNCHANGED columns

Claimable(r) ==
    /\ status[r.event] = "PENDING"
    /\ lease[r.event] = None \/ (r.lapsed /\ lease[r.event] = "expired")

(* The compare-and-set of one row of the batch. A row another drainer has *)
(* claimed since cannot lapse before this cycle began.                    *)
Claim(d) ==
    LET r == drainer[d].batch[1] IN
    /\ drainer[d].batch # <<>>
    /\ drainer' = [c \in Drainers |->
          IF c = d
          THEN [pc |-> IF Len(drainer[d].batch) = 1 THEN "delivering" ELSE "claiming",
                batch |-> Tail(drainer[d].batch),
                claimed |-> IF Claimable(r) THEN Append(drainer[d].claimed, r)
                            ELSE drainer[d].claimed]
          ELSE [drainer[c] EXCEPT !.batch =
                   [n \in DOMAIN @ |-> IF @[n].event = r.event /\ Claimable(r)
                                       THEN [@[n] EXCEPT !.lapsed = FALSE] ELSE @[n]]]]
    /\ IF Claimable(r)
       THEN /\ token' = [token EXCEPT ![r.event] = d]
            /\ lease' = [lease EXCEPT ![r.event] = "held"]
       ELSE UNCHANGED <<token, lease>>
    /\ UNCHANGED <<rows, status, attempts, tries, delivered, glitches, stops>>

EndCycle(d) ==
    /\ drainer[d].pc = "delivering" /\ drainer[d].claimed = <<>>
    /\ drainer' = [drainer EXCEPT ![d] = AtRest]
    /\ UNCHANGED <<rows, delivered, glitches, stops>> /\ UNCHANGED columns

Deliver(d) ==
    /\ drainer[d].pc = "delivering" /\ drainer[d].claimed # <<>>
    /\ drainer[d].claimed[1].event \notin Poison
    /\ delivered' = delivered \cup {drainer[d].claimed[1].event}
    /\ drainer' = [drainer EXCEPT ![d].pc = "delivered"]
    /\ UNCHANGED <<rows, glitches, stops>> /\ UNCHANGED columns

(* deliverEvent throws, or the update to SENT does: the same catch.        *)
DeliveryThrows(d) ==
    /\ \/ drainer[d].pc = "delivering" /\ drainer[d].claimed # <<>>
       \/ drainer[d].pc = "delivered"
    /\ IF drainer[d].claimed[1].event \in Poison THEN UNCHANGED glitches
       ELSE glitches < MaxGlitches /\ glitches' = glitches + 1
    /\ drainer' = [drainer EXCEPT ![d].pc = "failed"]
    /\ UNCHANGED <<rows, delivered, stops>> /\ UNCHANGED columns

StillMineAlways(d, e) == TRUE
StillMine(d, e) == token[e] = d

NextInCycle(d) ==
    drainer' = [drainer EXCEPT ![d].pc = "delivering", ![d].claimed = Tail(@)]

MarkSent(d) ==
    LET e == drainer[d].claimed[1].event IN
    /\ drainer[d].pc = "delivered"
    /\ NextInCycle(d)
    /\ IF StillMine(d, e)
       THEN /\ status' = [status EXCEPT ![e] = "SENT"]
            /\ token' = [token EXCEPT ![e] = None] /\ lease' = [lease EXCEPT ![e] = None]
       ELSE UNCHANGED <<status, token, lease>>
    /\ UNCHANGED <<rows, attempts, tries, delivered, glitches, stops>>

EnoughOneEarly(n) == n + 1 >= MaxAttempts
Enough(n) == n >= MaxAttempts

Counted(r) == r.attempts + 1

(* The count is the one the batch was read with, plus one.                *)
RecordFailure(d) ==
    LET e == drainer[d].claimed[1].event
        n == Counted(drainer[d].claimed[1]) IN
    /\ drainer[d].pc = "failed"
    /\ NextInCycle(d)
    /\ IF StillMine(d, e)
       THEN /\ attempts' = [attempts EXCEPT ![e] = n]
            /\ tries' = [tries EXCEPT ![e] = IF @ < MaxAttempts THEN @ + 1 ELSE @]
            /\ status' = [status EXCEPT ![e] = IF Enough(n) THEN "FAILED" ELSE @]
            /\ token' = [token EXCEPT ![e] = None] /\ lease' = [lease EXCEPT ![e] = None]
       ELSE UNCHANGED columns
    /\ UNCHANGED <<rows, delivered, glitches, stops>>

(* The process dies, or an update inside the catch throws: the cycle is   *)
(* over and its claims wait for their leases.                             *)
Stop(d) ==
    /\ drainer[d] # AtRest /\ stops < MaxStops
    /\ stops' = stops + 1
    /\ drainer' = [drainer EXCEPT ![d] = AtRest]
    /\ UNCHANGED <<rows, delivered, glitches>> /\ UNCHANGED columns
-----------------------------------------------------------------------------
Cycle(d) ==
    \/ ReadBatch(d) \/ Claim(d) \/ EndCycle(d) \/ Deliver(d) \/ DeliveryThrows(d)
    \/ MarkSent(d) \/ RecordFailure(d)

OutboxNext ==
    \/ \E e \in Events : Enqueue(e) \/ LeaseExpires(e)
    \/ \E d \in Drainers : Cycle(d) \/ Stop(d)

(* The drainer runs every second, and leases run out. *)
OutboxSpec ==
    /\ OutboxInit /\ [][OutboxNext]_outboxVars
    /\ \A d \in Drainers : WF_outboxVars(Cycle(d))
    /\ \A e \in Events : WF_outboxVars(LeaseExpires(e))
-----------------------------------------------------------------------------
(* The types of the state; a settled row is not claimed, and a claimed row *)
(* has a lease.                                                            *)
OutboxTypeOK ==
    /\ ToSet(rows) = {e \in Events : status[e] # None}
    /\ status \in [Events -> {None, "PENDING", "SENT", "FAILED"}]
    /\ attempts \in [Events -> 0 .. MaxAttempts]
    /\ token \in [Events -> Drainers \cup {None}]
    /\ lease \in [Events -> {None, "held", "expired"}]
    /\ \A e \in Events : /\ token[e] = None <=> lease[e] = None
                         /\ token[e] # None => status[e] = "PENDING"
    /\ delivered \subseteq Events
    /\ \A d \in Drainers : drainer[d].pc \in {"rest", "claiming", "delivering", "delivered", "failed"}

(* The count a drainer writes may be older than the row, so that it goes  *)
(* down; it never runs ahead of the tries, and no event is parked before  *)
(* it has really been tried MaxAttempts times.                            *)
NeverParkedEarly ==
    \A e \in Events : /\ attempts[e] <= tries[e]
                      /\ status[e] = "FAILED" => tries[e] = MaxAttempts

(* The state is typed, and nothing is parked that was not tried enough. *)
OutboxInv == OutboxTypeOK /\ NeverParkedEarly

(* The drainers implement what the outbox promises. *)
Promise == INSTANCE EventDelivery WITH
    owed <- {e \in Events : status[e] = "PENDING"},
    parked <- {e \in Events : status[e] = "FAILED"}
ImplementsDelivery == Promise!DSpec

(* Whatever stops, fails or is slow for a time, and although two drainers *)
(* may set each other's counts back, every event is sent or parked in the *)
(* end; one that nobody can deliver does not spin.                        *)
EventsAreSettled == \A e \in Events : status[e] = "PENDING" ~> status[e] \in {"SENT", "FAILED"}
=============================================================================
