---------------------------- MODULE TrustedClock ----------------------------
(***************************************************************************)
(* The time by which a runtime expires authorizations.  The agent fetches  *)
(* a nonce from the worker, the master answers it with its time, and the   *)
(* worker anchors that time to the boot clock, durably.  Readers take the  *)
(* anchor and the boot clock in two steps.  Calls time out with handlers   *)
(* still running, writes fail, the worker is killed, the host reboots.     *)
(* The unit of time is a tick of the boot clock; Milli of them make the    *)
(* unit of the anchors.  The master's time is taken to be correct.         *)
(***************************************************************************)
EXTENDS Integers, FiniteSets

CONSTANTS
    Milli,          \* ticks in a millisecond
    MaxRoundTrip,   \* longest round trip accepted, in ticks
    MaxReal,        \* time at which the instance ends
    Readers,        \* callers of Now
    Handlers,       \* requests the worker may be serving at once
    MaxFaults,      \* failed writes, kills and reboots
    MaxCancels      \* requests cancelled before they take the worker's mutex

ClockAssumption ==
    /\ {Milli, MaxRoundTrip, MaxReal, MaxFaults, MaxCancels} \subseteq Nat
    /\ Milli > 0 /\ MaxReal >= Milli /\ IsFiniteSet(Handlers)

NoAnchor == [boot |-> 0, nano |-> 0, ms |-> 0]
NoCall == [phase |-> "idle", nonce |-> 0, ms |-> 0]
NoHandler == [phase |-> "idle", nonce |-> 0, ms |-> 0, needs |-> FALSE]
Unread == [ms |-> 0, boot |-> 0, real |-> 0]

VARIABLES
    real,       \* true time
    boot, born, \* the running boot of the host, and when it began
    disk,       \* anchor in the runtime journal
    saved,      \* anchor in memory
    request,    \* anchor of the lower bound, in memory only
    nonce, started,  \* the answer that is awaited (0: none), and the boot clock when it was asked for
    call,       \* the agent's pass
    handler,    \* POST /v1/time, per request being served
    available,  \* the desired configuration is applied
    reader,     \* per reader, the anchor it has loaded; boot -1 between calls
    reading,    \* per reader, the last result of Now, and when its boot clock was read
    faults, cancels

clockVars == <<saved, request, nonce, started, disk>>
readVars == <<reader, reading>>
vars == <<real, boot, born, clockVars, call, handler, available, readVars, faults, cancels>>

Ceil(ticks) == (ticks + Milli - 1) \div Milli
Floor(ticks) == ticks \div Milli

\* The master's time.UnixMilli, and CLOCK_BOOTTIME of the node
MasterMilli == Floor(real)
At == [boot |-> boot, nano |-> real - born]

\* Mutant: an anchor of another boot is good as long as the boot clock is past it.
TrustedAnyBoot(at, a) == a # NoAnchor /\ at.nano >= a.nano

Trusted(at, a) == a # NoAnchor /\ at.boot = a.boot /\ at.nano >= a.nano

\* Mutant: a millisecond that has begun does not count.
ExtrapolatedFloor(at, a) == a.ms + Floor(at.nano - a.nano)

\* now
Extrapolated(at, a) == a.ms + Ceil(at.nano - a.nano)

\* RequestTime
RequestTime == request.ms + Floor(At.nano - request.nano)

Init ==
    /\ real = Milli /\ boot = 1 /\ born = 0
    /\ disk = NoAnchor /\ saved = NoAnchor /\ request = NoAnchor
    /\ nonce = 0 /\ started = [boot |-> 1, nano |-> 0]
    /\ call = NoCall /\ handler = [h \in Handlers |-> NoHandler]
    /\ available = FALSE
    /\ reader = [c \in Readers |-> [NoAnchor EXCEPT !.boot = -1]]
    /\ reading = [c \in Readers |-> Unread]
    /\ faults = 0 /\ cancels = 0

Tick ==
    /\ real < MaxReal /\ real' = real + 1
    /\ UNCHANGED <<boot, born, clockVars, call, handler, available, readVars, faults, cancels>>

-----------------------------------------------------------------------------
(* SynchronizeTime: the nonce, the master's answer, the post               *)

Nonces == 1..Cardinality(Handlers) + 2
NonceFree(n) == n # nonce /\ n # call.nonce /\ \A h \in Handlers : handler[h].nonce # n

\* Clock.Begin; a nonce is new
Begin ==
    /\ call = NoCall
    /\ LET n == CHOOSE m \in Nonces : NonceFree(m)
       IN  nonce' = n /\ call' = [phase |-> "asked", nonce |-> n, ms |-> 0]
    /\ started' = At
    /\ UNCHANGED <<real, boot, born, saved, request, disk, handler, available, readVars, faults, cancels>>

Synchronize ==
    /\ call.phase = "asked"
    /\ call' = [call EXCEPT !.phase = "answered", !.ms = MasterMilli]
    /\ UNCHANGED <<real, boot, born, clockVars, handler, available, readVars, faults, cancels>>

\* Mutant: whether the configuration waits for time is looked up after the answer was taken.
NeedsTimeAfter == FALSE

\* The worker begins to serve POST /v1/time: it had no time.
NeedsTime == ~Trusted(At, saved)

Post(h) ==
    /\ call.phase = "answered" /\ handler[h] = NoHandler
    /\ handler' = [handler EXCEPT ![h] = [phase |-> "accept", nonce |-> call.nonce, ms |-> call.ms, needs |-> NeedsTime]]
    /\ call' = NoCall
    /\ UNCHANGED <<real, boot, born, clockVars, available, readVars, faults, cancels>>

\* A call is lost or takes too long; its handler may still run.
Abandon ==
    /\ call # NoCall /\ call' = NoCall
    /\ UNCHANGED <<real, boot, born, clockVars, handler, available, readVars, faults, cancels>>

-----------------------------------------------------------------------------
(* Clock.Accept, under the clock's mutex                                   *)

Acceptable(h) ==
    /\ nonce # 0 /\ handler[h].nonce = nonce
    /\ At.boot = started.boot /\ At.nano - started.nano <= MaxRoundTrip

\* Mutant: the time goes back to the master's.
StampAnew(h) == handler[h].ms + Ceil(At.nano - started.nano)

\* The whole round trip counts, and the time never goes back.
Stamp(h) ==
    LET fresh == handler[h].ms + Ceil(At.nano - started.nano)
        known == {fresh, saved.ms} \cup (IF Trusted(At, saved) THEN {Extrapolated(At, saved)} ELSE {})
    IN  CHOOSE s \in known : \A k \in known : k <= s

Anchor(h) == [boot |-> boot, nano |-> At.nano, ms |-> Stamp(h)]

\* Mutant: the lower bound is anchored like the upper one.
RequestAnchorUpper(h) == Anchor(h)

RequestAnchor(h) == [boot |-> boot, nano |-> At.nano, ms |-> handler[h].ms]

\* The handler goes on to restore the configuration if it waits for time.
Accept(h) ==
    /\ handler[h].phase = "accept" /\ Acceptable(h)
    /\ disk' = Anchor(h) /\ saved' = Anchor(h) /\ request' = RequestAnchor(h)
    /\ nonce' = 0
    /\ handler' = [handler EXCEPT ![h] =
                     IF @.needs /\ ~available THEN [NoHandler EXCEPT !.phase = "apply"] ELSE NoHandler]
    /\ UNCHANGED <<real, boot, born, started, call, available, readVars, faults, cancels>>

\* The answer is refused.  One to the awaited nonce uses it up.
Refuse(h) ==
    /\ handler[h].phase = "accept" /\ ~Acceptable(h)
    /\ nonce' = IF handler[h].nonce = nonce THEN 0 ELSE nonce
    /\ handler' = [handler EXCEPT ![h] = NoHandler]
    /\ UNCHANGED <<real, boot, born, saved, request, started, disk, call, available, readVars, faults, cancels>>

\* Mutant: memory has the anchor before the journal.
SavedWhenWriteFails(h) == Anchor(h)

\* What memory holds when WriteClock has failed
SavedUnwritten(h) == saved

WriteFails(h) ==
    /\ handler[h].phase = "accept" /\ Acceptable(h)
    /\ faults < MaxFaults /\ faults' = faults + 1
    /\ saved' = SavedUnwritten(h)
    /\ nonce' = 0 /\ handler' = [handler EXCEPT ![h] = NoHandler]
    /\ UNCHANGED <<real, boot, born, request, started, disk, call, available, readVars, cancels>>

\* Worker.Apply of the desired configuration; a cancelled request does not get that far.
Apply(h) ==
    /\ handler[h].phase = "apply"
    /\ handler' = [handler EXCEPT ![h] = NoHandler]
    /\ \/ available' = Trusted(At, saved) /\ UNCHANGED cancels
       \/ cancels < MaxCancels /\ cancels' = cancels + 1 /\ UNCHANGED available
    /\ UNCHANGED <<real, boot, born, clockVars, call, readVars, faults>>

-----------------------------------------------------------------------------
(* Clock.Now: the anchor first, then the boot clock                        *)

Load(c) ==
    /\ reader[c].boot = -1
    /\ reader' = [reader EXCEPT ![c] = saved]
    /\ UNCHANGED <<real, boot, born, clockVars, call, handler, available, reading, faults, cancels>>

Read(c) ==
    /\ reader[c].boot # -1
    /\ reader' = [reader EXCEPT ![c].boot = -1, ![c].nano = 0, ![c].ms = 0]
    /\ reading' = [reading EXCEPT ![c] =
                     IF Trusted(At, reader[c])
                     THEN [ms |-> Extrapolated(At, reader[c]), boot |-> boot, real |-> real] ELSE @]
    /\ UNCHANGED <<real, boot, born, clockVars, call, handler, available, faults, cancels>>

-----------------------------------------------------------------------------
(* Faults                                                                  *)

\* Mutant: the lower bound outlives the process.
StartedWithRequest(anchor, instant) ==
    /\ saved' = anchor /\ nonce' = 0 /\ started' = instant
    /\ handler' = [h \in Handlers |-> NoHandler]
    /\ available' = Trusted(instant, anchor)
    /\ reader' = [c \in Readers |-> [NoAnchor EXCEPT !.boot = -1]]
    /\ call' = NoCall
    /\ UNCHANGED <<real, request, reading, cancels>>

\* The worker starts with the anchor of its journal: Run applies the desired configuration if the
\* clock lets it.
Started(anchor, instant) ==
    /\ saved' = anchor /\ request' = NoAnchor /\ nonce' = 0 /\ started' = instant
    /\ handler' = [h \in Handlers |-> NoHandler]
    /\ available' = Trusted(instant, anchor)
    /\ reader' = [c \in Readers |-> [NoAnchor EXCEPT !.boot = -1]]
    /\ call' = NoCall
    /\ UNCHANGED <<real, reading, cancels>>

Restart ==
    /\ faults < MaxFaults /\ faults' = faults + 1
    /\ \/ Started(disk, At) /\ UNCHANGED disk
       \/ \E h \in Handlers :   \* killed in Accept, with the anchor written
             /\ handler[h].phase = "accept" /\ Acceptable(h)
             /\ disk' = Anchor(h) /\ Started(Anchor(h), At)
    /\ UNCHANGED <<boot, born>>

Reboot ==
    /\ faults < MaxFaults /\ faults' = faults + 1
    /\ boot' = boot + 1 /\ born' = real
    /\ Started(disk, [boot |-> boot + 1, nano |-> 0])
    /\ UNCHANGED disk

-----------------------------------------------------------------------------
Next ==
    \/ Tick \/ Begin \/ Synchronize \/ Abandon \/ Restart \/ Reboot
    \/ \E h \in Handlers : Post(h) \/ Accept(h) \/ Refuse(h) \/ WriteFails(h) \/ Apply(h)
    \/ \E c \in Readers : Load(c) \/ Read(c)

Spec == Init /\ [][Next]_vars

-----------------------------------------------------------------------------
(* Properties                                                              *)

Anchors == [boot: 0..boot, nano: 0..MaxReal, ms: 0..2 * MaxReal]

TypeOK ==
    /\ real \in Milli..MaxReal /\ born \in 0..real /\ boot \in 1..MaxFaults + 1
    /\ {disk, saved, request} \subseteq Anchors /\ request.boot \in {0, boot}
    /\ nonce \in {0} \cup Nonces /\ available \in BOOLEAN
    /\ call \in [phase: {"idle", "asked", "answered"}, nonce: {0} \cup Nonces, ms: 0..MaxReal]
    /\ \A h \in Handlers : handler[h].phase \in {"idle", "accept", "apply"}

\* A reading is never behind the true time at which its boot clock was read: whatever the delay of
\* the answer, the rounding, the boot and the anchor that a concurrent Accept replaced.
NeverLate ==
    \A c \in Readers : reading[c] # Unread => reading[c].ms >= Floor(reading[c].real)

\* RequestTime is a lower bound of the true time, and a tight one: a stale answer would let a
\* request live longer than it may.
RequestTimeTight ==
    Trusted(At, request) => RequestTime \in MasterMilli - Ceil(MaxRoundTrip) - 1..MasterMilli

\* The time that a caller sees never goes back while the host is up, also when the worker is
\* killed, when a write fails and when a later answer is the faster one.
Monotone == \A c \in Readers : reading'[c].boot = reading[c].boot => reading'[c].ms >= reading[c].ms
ReadingsMonotone == [][Monotone]_vars

\* What waits for time after a reboot is restored by the handler that brings time, without a
\* new deployment, unless the agent gives the call up in between.
RestoredWithTime ==
    (cancels = 0 /\ Trusted(At, saved) /\ \A h \in Handlers : handler[h] = NoHandler) => available
=============================================================================
