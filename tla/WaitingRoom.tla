---------------------------- MODULE WaitingRoom ----------------------------
(***************************************************************************)
(* The virtual waiting room of ONE event: the Redis keys wr:config,        *)
(* wr:active, wr:queue and wr:token, the Lua scripts that change them, the *)
(* service methods that call the scripts, and the RabbitMQ messages that   *)
(* bring a slot back (src/src/waiting-room).  Keys of different events     *)
(* never meet, so one event stands for all.                                *)
(*                                                                         *)
(* A Lua script is one step.  A service method or consumer is one step per *)
(* await that separates two commands on the keys of this module; reads     *)
(* that follow one another inside one handler are taken at one instant.    *)
(***************************************************************************)
EXTENDS Naturals, FiniteSets, SequencesExt

CONSTANTS
    Users,        \* users who may enter the room
    Configs,      \* what an enabling configureRoom may store
    TokenTTL,     \* life of a token, and delay of its token-expire message
    MaxFaults,    \* bound: crashes and lost publishes, 0 = none happens
    MaxJoins,     \* bound: join calls
    MaxReserves,  \* bound: reserveTicket calls
    MaxFreed      \* bound: slot-freed messages in flight per user

ASSUME WaitingRoomAssumption ==
    /\ IsFiniteSet(Users)
    /\ Configs \subseteq [maxConcurrent: Nat \ {0}, maxQueueSize: Nat \ {0}]
    /\ TokenTTL \in Nat \ {0}
    /\ MaxFaults \in Nat /\ MaxJoins \in Nat /\ MaxReserves \in Nat /\ MaxFreed \in Nat

VARIABLES
    config,     \* wr:config: enabled, maxConcurrent, maxQueueSize
    draining,   \* keys a disabling configureRoom still has to delete
    active,     \* wr:active: users holding a slot
    queue,      \* wr:queue: the sorted set, in the order of its scores
    instant,    \* users in the queue since the current millisecond
    token,      \* wr:token: remaining life of the user's token, 0 = no key
    expire,     \* delayed wr.slot.token-expire messages: delays left, per user
    freed,      \* messages waiting in wr.slot-lifecycle, per user
    calls,      \* freeSlotAndAdvance calls in progress, per user and caller
    leaving,    \* where the user's leave() call is
    reserving,  \* users whose reserveTicket has validated the token
    holding,    \* users with a reservation that is neither paid nor released
    joins,      \* join calls made so far
    reserves,   \* reserveTicket calls made so far
    faults      \* crashes and lost publishes so far

roomVars == <<config, draining, active, queue, instant, token>>
msgVars  == <<expire, freed, calls>>
userVars == <<leaving, reserving, holding, joins, reserves>>
vars == <<roomVars, msgVars, userVars, faults>>

-----------------------------------------------------------------------------
(* Types *)

\* Who calls freeSlotAndAdvance: the two handlers of WrSlotLifecycleConsumer
\* and the release consumer of the bookings.
Callers == {"slot", "expire", "release"}
CallState == {"idle", "checked", "advanced"}
LeaveState == {"idle", "zrem", "srem", "deltoken", "checked"}

Config == [enabled: BOOLEAN, maxConcurrent: Nat, maxQueueSize: Nat]

\* No two members of a sorted set are equal.
Distinct(q) == \A i, j \in DOMAIN q : q[i] = q[j] => i = j

TypeOK ==
    /\ config \in Config
    /\ draining \subseteq {"queue", "active"}
    /\ active \subseteq Users
    /\ queue \in Seq(Users) /\ Distinct(queue)
    /\ instant \subseteq Users
    /\ token \in [Users -> 0..TokenTTL]
    /\ expire \in [Users -> SUBSET (0..TokenTTL)]
    /\ freed \in [Users -> Nat]
    /\ calls \in [Users -> [Callers -> CallState]]
    /\ leaving \in [Users -> LeaveState]
    /\ reserving \subseteq Users
    /\ holding \subseteq Users
    /\ joins \in Nat /\ reserves \in Nat /\ faults \in Nat

\* A room nobody has configured: wr:config does not exist.
Init ==
    /\ config = [enabled |-> FALSE, maxConcurrent |-> 0, maxQueueSize |-> 0]
    /\ draining = {}
    /\ active = {}
    /\ queue = << >>
    /\ instant = {}
    /\ token = [u \in Users |-> 0]
    /\ expire = [u \in Users |-> {}]
    /\ freed = [u \in Users |-> 0]
    /\ calls = [u \in Users |-> [c \in Callers |-> "idle"]]
    /\ leaving = [u \in Users |-> "idle"]
    /\ reserving = {}
    /\ holding = {}
    /\ joins = 0 /\ reserves = 0 /\ faults = 0

\* A process dies, or a publish nobody awaits is lost.
Fault == faults < MaxFaults /\ faults' = faults + 1

-----------------------------------------------------------------------------
(* configureRoom, called by an admin or by the organizer.                  *)
(* Two overlapping calls are left out: a call starts when none is under way. *)

Enable ==
    /\ draining = {}
    /\ \E c \in Configs :
          config' = [enabled |-> TRUE, maxConcurrent |-> c.maxConcurrent,
                     maxQueueSize |-> c.maxQueueSize]
    /\ UNCHANGED <<draining, active, queue, instant, token, msgVars, userVars, faults>>

Disable ==
    /\ draining = {}
    /\ config' = [config EXCEPT !.enabled = FALSE]
    /\ draining' = {"queue", "active"}
    /\ UNCHANGED <<active, queue, instant, token, msgVars, userVars, faults>>

\* drainQueue sends both DELs on one connection, so Redis runs them in order.
DrainQueueKey ==
    /\ "queue" \in draining
    /\ queue' = << >> /\ instant' = {}
    /\ draining' = draining \ {"queue"}
    /\ UNCHANGED <<config, active, token, msgVars, userVars, faults>>

\* Mutant: the DELs may run in either order.
DrainActiveKeyUnordered ==
    /\ "active" \in draining
    /\ active' = {}
    /\ draining' = draining \ {"active"}
    /\ UNCHANGED <<config, queue, instant, token, msgVars, userVars, faults>>

DrainActiveKey ==
    /\ draining = {"active"}
    /\ active' = {}
    /\ draining' = {}
    /\ UNCHANGED <<config, queue, instant, token, msgVars, userVars, faults>>

-----------------------------------------------------------------------------
(* join: JOIN_OR_QUEUE_SCRIPT, and the delayed message it schedules.       *)
(* (SOLD_OUT returns before the script and changes nothing here.)          *)

\* Mutants: the message is due before the token has expired, or later.
ScheduleExpiryEarly(u, delay) ==
    expire' = [expire EXCEPT ![u] = @ \cup {delay - 1}] /\ UNCHANGED faults

ScheduleExpiryLate(u, delay) ==
    expire' = [expire EXCEPT ![u] = @ \cup {delay + 1}] /\ UNCHANGED faults

\* publishDelayed is not awaited: a crash or a closed channel loses it.
ScheduleExpiry(u, delay) ==
    \/ expire' = [expire EXCEPT ![u] = @ \cup {delay}] /\ UNCHANGED faults
    \/ Fault /\ UNCHANGED expire

Joining(u) ==
    /\ joins < MaxJoins
    /\ joins' = joins + 1
    /\ UNCHANGED <<config, draining, freed, calls, leaving, reserving, holding,
                   reserves>>

JoinDisabled(u) ==
    /\ Joining(u)
    /\ ~config.enabled
    /\ UNCHANGED <<active, queue, instant, token, expire, faults>>

\* The user still holds a live token: it is returned, and a second expiry
\* message is scheduled for what is left of its life.
JoinReconnect(u) ==
    /\ Joining(u)
    /\ config.enabled
    /\ u \in active /\ token[u] > 0
    /\ ScheduleExpiry(u, token[u])
    /\ UNCHANGED <<active, queue, instant, token>>

\* From here on the script has taken a user with an expired token out of active.
Others(u) == active \ {u}
Reevaluated(u) == config.enabled /\ ~(u \in active /\ token[u] > 0)

JoinAlreadyQueued(u) ==
    /\ Joining(u)
    /\ Reevaluated(u)
    /\ u \in Range(queue)
    /\ active' = Others(u)
    /\ UNCHANGED <<queue, instant, token, expire, faults>>

JoinGranted(u) ==
    /\ Joining(u)
    /\ Reevaluated(u)
    /\ u \notin Range(queue)
    /\ Cardinality(Others(u)) < config.maxConcurrent
    /\ active' = Others(u) \cup {u}
    /\ token' = [token EXCEPT ![u] = TokenTTL]
    /\ ScheduleExpiry(u, TokenTTL)
    /\ UNCHANGED <<queue, instant>>

JoinFull(u) ==
    /\ Joining(u)
    /\ Reevaluated(u)
    /\ u \notin Range(queue)
    /\ Cardinality(Others(u)) >= config.maxConcurrent
    /\ Len(queue) >= config.maxQueueSize
    /\ active' = Others(u)
    /\ UNCHANGED <<queue, instant, token, expire, faults>>

\* ZADD with the millisecond at which the service called the script.  Members
\* with equal scores stand in the order of their names, which is left open: a
\* newcomer may come to stand before others of its own millisecond.
LinesUp(u) ==
    \E i \in 1..Len(queue) + 1 :
        /\ queue' = InsertAt(queue, i, u)
        /\ \/ i = Len(queue) + 1 /\ instant' = {u}
           \/ (\A j \in i..Len(queue) : queue[j] \in instant) /\ instant' = instant \cup {u}

\* Mutant: the user with the expired token is not taken out of active.
JoinEnqueuedInside(u) ==
    /\ Joining(u)
    /\ Reevaluated(u)
    /\ u \notin Range(queue)
    /\ Cardinality(Others(u)) >= config.maxConcurrent
    /\ Len(queue) < config.maxQueueSize
    /\ LinesUp(u)
    /\ UNCHANGED <<active, token, expire, faults>>

JoinEnqueued(u) ==
    /\ Joining(u)
    /\ Reevaluated(u)
    /\ u \notin Range(queue)
    /\ Cardinality(Others(u)) >= config.maxConcurrent
    /\ Len(queue) < config.maxQueueSize
    /\ active' = Others(u)
    /\ LinesUp(u)
    /\ UNCHANGED <<token, expire, faults>>

Join(u) ==
    \/ JoinDisabled(u)
    \/ JoinReconnect(u)
    \/ JoinAlreadyQueued(u)
    \/ JoinGranted(u)
    \/ JoinFull(u)
    \/ JoinEnqueued(u)

-----------------------------------------------------------------------------
(* freeSlotAndAdvance *)

\* Mutants: one user too many; the latest arrival first; free without calling
\* anybody; a turn whose expiry nobody schedules.
AdvanceFromOverfull(rest) ==
    IF Cardinality(rest) <= config.maxConcurrent /\ queue # << >>
    THEN /\ active' = rest \cup {Head(queue)}
         /\ queue' = Tail(queue) /\ instant' = instant \ {Head(queue)}
         /\ token' = [token EXCEPT ![Head(queue)] = TokenTTL]
         /\ ScheduleExpiry(Head(queue), TokenTTL)
    ELSE /\ active' = rest
         /\ UNCHANGED <<queue, instant, token, expire, faults>>

AdvanceFromLatest(rest) ==
    IF Cardinality(rest) < config.maxConcurrent /\ queue # << >>
    THEN /\ active' = rest \cup {Last(queue)}
         /\ queue' = Front(queue) /\ instant' = instant \ {Last(queue)}
         /\ token' = [token EXCEPT ![Last(queue)] = TokenTTL]
         /\ ScheduleExpiry(Last(queue), TokenTTL)
    ELSE /\ active' = rest
         /\ UNCHANGED <<queue, instant, token, expire, faults>>

AdvanceFromNobody(rest) ==
    /\ active' = rest
    /\ UNCHANGED <<queue, instant, token, expire, faults>>

AdvanceFromUnscheduled(rest) ==
    IF Cardinality(rest) < config.maxConcurrent /\ queue # << >>
    THEN /\ active' = rest \cup {Head(queue)}
         /\ queue' = Tail(queue) /\ instant' = instant \ {Head(queue)}
         /\ token' = [token EXCEPT ![Head(queue)] = TokenTTL]
         /\ UNCHANGED <<expire, faults>>
    ELSE /\ active' = rest
         /\ UNCHANGED <<queue, instant, token, expire, faults>>

\* ADVANCE_QUEUE_SCRIPT after its SREM has left the set `rest`: nobody moves
\* when the room is still full or nobody waits, otherwise the head of the
\* queue gets a slot and a token, and its expiry is scheduled.
AdvanceFrom(rest) ==
    IF Cardinality(rest) < config.maxConcurrent /\ queue # << >>
    THEN /\ active' = rest \cup {Head(queue)}
         /\ queue' = Tail(queue) /\ instant' = instant \ {Head(queue)}
         /\ token' = [token EXCEPT ![Head(queue)] = TokenTTL]
         /\ ScheduleExpiry(Head(queue), TokenTTL)
    ELSE /\ active' = rest
         /\ UNCHANGED <<queue, instant, token, expire, faults>>

\* The HGET of `enabled` that precedes the script: a disabled room drops the call.
CallStarts(u, c) ==
    calls' = IF config.enabled THEN [calls EXCEPT ![u][c] = "checked"] ELSE calls

\* The script; the caller is then done, and acknowledges its message.  A
\* process that may die waits in "advanced" until the acknowledgement.
CallAdvance(u, c) ==
    /\ calls[u][c] = "checked"
    /\ AdvanceFrom(active \ {u})
    /\ calls' = [calls EXCEPT ![u][c] = IF faults < MaxFaults THEN "advanced" ELSE "idle"]
    /\ UNCHANGED <<config, draining, freed, userVars>>

CallAck(u, c) ==
    /\ calls[u][c] = "advanced"
    /\ calls' = [calls EXCEPT ![u][c] = "idle"]
    /\ UNCHANGED <<roomVars, expire, freed, userVars, faults>>

\* The process dies before the acknowledgement and the broker delivers the
\* message again: it is back in its queue.
CallCrash(u, c) ==
    /\ Fault
    /\ calls[u][c] # "idle"
    /\ calls' = [calls EXCEPT ![u][c] = "idle"]
    /\ freed' = IF c = "slot" THEN [freed EXCEPT ![u] = @ + 1] ELSE freed
    /\ expire' = IF c = "expire" THEN [expire EXCEPT ![u] = @ \cup {0}] ELSE expire
    /\ holding' = IF c = "release" THEN holding \cup {u} ELSE holding
    /\ UNCHANGED <<roomVars, leaving, reserving, joins, reserves>>

-----------------------------------------------------------------------------
(* WrSlotLifecycleConsumer and the release consumer of the bookings        *)

\* handleSlotEvent
SlotEvent(u) ==
    /\ freed[u] > 0
    /\ calls[u]["slot"] = "idle"
    /\ freed' = [freed EXCEPT ![u] = @ - 1]
    /\ CallStarts(u, "slot")
    /\ UNCHANGED <<roomVars, expire, userVars, faults>>

\* handleTokenExpire: dropped when the user has no slot or the token lives,
\* otherwise the slot is to be freed.
TokenExpire(u) ==
    /\ 0 \in expire[u]
    /\ calls[u]["expire"] = "idle"
    /\ expire' = [expire EXCEPT ![u] = @ \ {0}]
    /\ IF u \in active /\ token[u] = 0
       THEN CallStarts(u, "expire")
       ELSE UNCHANGED calls
    /\ UNCHANGED <<roomVars, freed, userVars, faults>>

\* handleReleaseTicket, its last lines: the hold ended unpaid.
HoldReleased(u) ==
    /\ u \in holding
    /\ calls[u]["release"] = "idle"
    /\ holding' = holding \ {u}
    /\ CallStarts(u, "release")
    /\ UNCHANGED <<roomVars, expire, freed, leaving, reserving, joins, reserves, faults>>

-----------------------------------------------------------------------------
(* leave *)

LeaveQueue(u) ==
    /\ leaving[u] = "idle"
    /\ queue' = RemoveFirst(queue, u) /\ instant' = instant \ {u}
    /\ leaving' = [leaving EXCEPT ![u] = "zrem"]
    /\ UNCHANGED <<config, draining, active, token, msgVars, reserving, holding,
                   joins, reserves, faults>>

LeaveActive(u) ==
    /\ leaving[u] = "zrem"
    /\ active' = active \ {u}
    /\ leaving' = [leaving EXCEPT ![u] = "srem"]
    /\ UNCHANGED <<config, draining, queue, instant, token, msgVars, reserving, holding,
                   joins, reserves, faults>>

LeaveToken(u) ==
    /\ leaving[u] = "srem"
    /\ token' = [token EXCEPT ![u] = 0]
    /\ leaving' = [leaving EXCEPT ![u] = "deltoken"]
    /\ UNCHANGED <<config, draining, active, queue, instant, msgVars, reserving, holding,
                   joins, reserves, faults>>

\* Mutant: leave forgets to call the next user.
LeaveCheckOnly(u) ==
    /\ leaving[u] = "deltoken"
    /\ leaving' = [leaving EXCEPT ![u] = "idle"]
    /\ UNCHANGED <<roomVars, msgVars, reserving, holding, joins, reserves, faults>>

\* freeSlotAndAdvance(''), its HGET ...
LeaveCheck(u) ==
    /\ leaving[u] = "deltoken"
    /\ leaving' = [leaving EXCEPT ![u] = IF config.enabled THEN "checked" ELSE "idle"]
    /\ UNCHANGED <<roomVars, msgVars, reserving, holding, joins, reserves, faults>>

\* ... and its script, which frees nobody.
LeaveAdvance(u) ==
    /\ leaving[u] = "checked"
    /\ AdvanceFrom(active)
    /\ leaving' = [leaving EXCEPT ![u] = "idle"]
    /\ UNCHANGED <<config, draining, freed, calls, reserving, holding, joins,
                   reserves>>

\* The process serving the HTTP request dies; nobody repeats the rest.
LeaveCrash(u) ==
    /\ Fault
    /\ leaving[u] # "idle"
    /\ leaving' = [leaving EXCEPT ![u] = "idle"]
    /\ UNCHANGED <<roomVars, msgVars, reserving, holding, joins, reserves>>

-----------------------------------------------------------------------------
(* reserveTicket and finalizePaymentWebhook, as far as the room sees them  *)

\* validateToken: while the room is enabled the caller must show the token
\* stored for it.
ReserveValidate(u) ==
    /\ u \notin reserving
    /\ reserves < MaxReserves
    /\ config.enabled => token[u] > 0
    /\ reserving' = reserving \cup {u}
    /\ reserves' = reserves + 1
    /\ UNCHANGED <<roomVars, msgVars, leaving, holding, joins, faults>>

\* publishSlotFreed is not awaited either.
PublishSlotFreed(u) ==
    \/ freed[u] < MaxFreed /\ freed' = [freed EXCEPT ![u] = @ + 1] /\ UNCHANGED faults
    \/ Fault /\ UNCHANGED freed

\* The stock script has granted the hold; a room that is enabled gets the
\* token deleted and the slot announced as free.
ReserveDone(u) ==
    /\ u \in reserving
    /\ u \notin holding
    /\ reserving' = reserving \ {u}
    /\ holding' = holding \cup {u}
    /\ IF config.enabled
       THEN /\ token' = [token EXCEPT ![u] = 0]
            /\ PublishSlotFreed(u)
       ELSE UNCHANGED <<token, freed, faults>>
    /\ UNCHANGED <<config, draining, active, queue, instant, expire, calls, leaving, joins,
                   reserves>>

\* Not enough stock, or a reservation of the same ticket type is still held.
ReserveRefused(u) ==
    /\ u \in reserving
    /\ reserving' = reserving \ {u}
    /\ UNCHANGED <<roomVars, msgVars, leaving, holding, joins, reserves, faults>>

\* The payment of the hold is confirmed; the slot is announced as free again.
PaymentDone(u) ==
    /\ u \in holding
    /\ holding' = holding \ {u}
    /\ PublishSlotFreed(u)
    /\ UNCHANGED <<roomVars, expire, calls, leaving, reserving, joins, reserves>>

-----------------------------------------------------------------------------
(* WrDisconnectConsumer removes a user from the queue, never from active,  *)
(* when no socket of the user was open for a minute.                       *)

DisconnectCleanup(u) ==
    /\ u \in Range(queue)
    /\ queue' = RemoveFirst(queue, u) /\ instant' = instant \ {u}
    /\ UNCHANGED <<config, draining, active, token, msgVars, userVars, faults>>

\* One unit of time: Redis and the delayed exchange count down together.
Tick ==
    /\ token' = [u \in Users |-> IF token[u] = 0 THEN 0 ELSE token[u] - 1]
    /\ expire' = [u \in Users |-> {IF d = 0 THEN 0 ELSE d - 1 : d \in expire[u]}]
    /\ instant' = {}
    /\ UNCHANGED <<config, draining, active, queue, freed, calls, userVars, faults>>

-----------------------------------------------------------------------------

Consumer(u) ==
    \/ SlotEvent(u)
    \/ TokenExpire(u)
    \/ HoldReleased(u)
    \/ \E c \in Callers : CallAdvance(u, c) \/ CallAck(u, c) \/ CallCrash(u, c)

Leave(u) ==
    \/ LeaveQueue(u)
    \/ LeaveActive(u)
    \/ LeaveToken(u)
    \/ LeaveCheck(u)
    \/ LeaveAdvance(u)
    \/ LeaveCrash(u)

Reserve(u) ==
    \/ ReserveValidate(u)
    \/ ReserveDone(u)
    \/ ReserveRefused(u)
    \/ PaymentDone(u)

Configure == Enable \/ Disable \/ DrainQueueKey \/ DrainActiveKey

Next ==
    \/ Configure
    \/ Tick
    \/ \E u \in Users :
          Join(u) \/ Consumer(u) \/ Leave(u) \/ Reserve(u) \/ DisconnectCleanup(u)

Spec == Init /\ [][Next]_vars

\* What the deployment keeps doing: time passes, RabbitMQ delivers what is
\* queued, a handler that has started goes on.  Nothing makes a user join,
\* leave or reserve, or an admin reconfigure.
Fairness ==
    /\ WF_vars(Tick)
    /\ WF_vars(DrainQueueKey) /\ WF_vars(DrainActiveKey)
    /\ \A u \in Users :
          /\ WF_vars(SlotEvent(u)) /\ WF_vars(TokenExpire(u))
          /\ \A c \in Callers : WF_vars(CallAdvance(u, c))
          /\ WF_vars(LeaveActive(u)) /\ WF_vars(LeaveToken(u))
          /\ WF_vars(LeaveCheck(u)) /\ WF_vars(LeaveAdvance(u))

FairSpec == Spec /\ Fairness

-----------------------------------------------------------------------------
(* Properties *)

\* Nobody waits and is served at once: the scripts keep wr:queue and
\* wr:active disjoint although leave, cleanup and drain take members out of
\* each with separate commands.
WaitingOrServed == Range(queue) \cap active = {}

\* A step that lets somebody in leaves no more users inside than
\* maxConcurrent, whichever of the handlers takes the step and however many
\* of them are between their reads and their script.
AdmissionWithinCapacity ==
    [][active' \ active # {} => Cardinality(active') <= config'.maxConcurrent]_vars

\* Once drainQueue has run, a disabled room stays empty, even when a
\* freeSlotAndAdvance that read enabled = '1' runs its script after it.
DisabledRoomEmpty ==
    ~config.enabled /\ draining = {} => active = {} /\ queue = << >>

\* Every slot is on its way back: a live token has an expiry message that is
\* not due before it, and a slot without a token has a message or a call
\* pending that frees it.  (Not under crashes: see the README.)
SlotComesBack ==
    \A u \in active :
        \/ "active" \in draining
        \/ token[u] > 0 /\ \E d \in expire[u] : d >= token[u]
        \/ token[u] = 0 /\ \/ expire[u] # {}
                           \/ \E c \in Callers : calls[u][c] = "checked"

\* Leave calls that have given a slot back and not yet called the next user.
Leavers == {u \in Users : leaving[u] \in {"srem", "deltoken", "checked"}}

\* While somebody waits, no slot is free that is not about to be handed on.
WorkConserving ==
    config.enabled /\ draining = {} /\ queue # << >> =>
        Cardinality(active) + Cardinality(Leavers) >= config.maxConcurrent

\* A slot whose token is gone is freed, or its user gets a new token.
ExpiredSlotReleased ==
    \A u \in Users :
        (u \in active /\ token[u] = 0) ~> (u \notin active \/ token[u] > 0)

\* A user in the queue does not stay there for ever (join calls are bounded,
\* so newcomers cannot push in for ever).
QueueServed == \A u \in Users : (u \in Range(queue)) ~> (u \notin Range(queue))

\* What WrSlotLifecycleConsumer says of handleTokenExpire: a slot is taken
\* from its user only if the token has run out.
ExpiryFreesOnlyExpired ==
    [][\A u \in Users :
          /\ calls[u]["expire"] = "checked" /\ calls'[u]["expire"] # "checked"
          /\ u \in active /\ u \notin active'
          => token[u] = 0]_vars

\* The room is an admission desk.
Desk == INSTANCE Admission WITH
    People <- Users, open <- config.enabled, capacity <- config.maxConcurrent,
    limit <- config.maxQueueSize, inside <- active, line <- queue, together <- instant
ImplementsAdmission == Desk!Spec

=============================================================================
