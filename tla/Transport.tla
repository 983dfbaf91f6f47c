------------------------------ MODULE Transport -----------------------------
(***************************************************************************)
(* The shared SSH route of SshConnectionManager (src/ssh/connection.rs):   *)
(* how concurrent callers acquire it (ensure_connected_transport_only),    *)
(* how exactly one of them (re)connects while the others wait for a        *)
(* notification, how a cached or an active health probe vouches for it,    *)
(* how a failed operation retires the route it ran on, and how close()     *)
(* ends all of it.                                                         *)
(*                                                                         *)
(* One action is one stretch of code between two awaits at which another   *)
(* task can run.  The session mutex is held across an await only by a ping *)
(* and by a channel open; every other critical section under it is one     *)
(* action guarded by SessionFree.  Dropping a future (budget, shutdown)    *)
(* runs the destructors of what it holds: DropCall.                        *)
(***************************************************************************)
EXTENDS Naturals, FiniteSets

CONSTANTS
    Tasks,          \* concurrent users of the manager
    Recovery,       \* the one that is main.rs's recovery loop
    MaxAttempts,    \* reconnect_retries + 1
    MaxFaults,      \* bound: how often the environment misbehaves
    UseJump,        \* a jump host is configured
    HasElevation,   \* a su or sudo password is configured
    NoTask          \* nobody holds the lock

ASSUME TransportAssumption ==
    /\ MaxAttempts \in Nat \ {0}
    /\ MaxFaults \in Nat
    /\ UseJump \in BOOLEAN
    /\ HasElevation \in BOOLEAN
    /\ NoTask \notin Tasks
    /\ Recovery \in Tasks

VARIABLES
    route,          \* session: the ActiveRoute, or NoRoute
    nextGen,        \* next_generation
    frozen,         \* remote_platform: the OnceLock
    probeOk,        \* last_health_probe_ok_at while its TTL lasts: a generation, 0 if none
    isConnecting,   \* is_connecting
    waiters,        \* connect_notify: enabled Notified futures not woken yet
    sessionLock,    \* who holds the session mutex across an await
    probeLock,      \* health_probe_lock
    closer,         \* progress of close()
    pc,             \* where each task is
    gen,            \* the generation each task captured, 0 if none
    plat,           \* the platform its connect candidate identified as
    attempt,        \* connect_with_retry's attempt
    succeeded,      \* the owner's connect attempt returned Ok
    faults,         \* environment failures so far
    blamed,         \* history: generations some failure was observed on
    lastGen         \* history: generation of the latest published route

managerVars == <<route, nextGen, frozen, probeOk, isConnecting, waiters,
                 sessionLock, probeLock, closer>>
taskVars == <<pc, gen, plat, attempt, succeeded>>
auxVars == <<faults, blamed, lastGen>>
vars == <<managerVars, taskVars, auxVars>>

Platforms == {"posix", "routeros"}

NoPlatform == "none"

NoRoute == [gen |-> 0, closed |-> FALSE, platform |-> NoPlatform]

RouteType == [gen : Nat, closed : BOOLEAN, platform : Platforms \cup {NoPlatform}]

DialPcs == {"dial_jump", "auth_jump", "tunnel", "dial_target", "auth_target"}

(* Places where the task owns the connect attempt (holds ConnectAttemptGuard). *)
OwnerPcs == {"own_check", "own_stale", "own_invalidate", "publish", "own_return"} \cup DialPcs

(* Places inside bounded_transport: what it runs can be dropped there. *)
CallPcs == {"ensure", "closed_invalidate", "fresh", "lock_probe", "fresh_locked",
            "probe", "pinging", "probe_invalidate", "recheck", "mark",
            "check", "register", "exchange", "wait"} \cup OwnerPcs

(* Places where a task that acquired the route uses it. *)
OpPcs == {"ready", "opening", "running", "op_invalidate"}

Pcs == {"idle"} \cup CallPcs \cup OpPcs

(* Places where the task holds health_probe_lock. *)
ProbePcs == {"fresh_locked", "probe", "pinging", "probe_invalidate", "mark"}

TypeOK ==
    /\ route \in RouteType
    /\ nextGen \in Nat \ {0}
    /\ frozen \in Platforms \cup {NoPlatform}
    /\ probeOk \in Nat
    /\ isConnecting \in BOOLEAN
    /\ waiters \subseteq Tasks
    /\ sessionLock \in Tasks \cup {NoTask}
    /\ probeLock \in Tasks \cup {NoTask}
    /\ closer \in {"open", "flagged", "cancelled", "done"}
    /\ pc \in [Tasks -> Pcs]
    /\ gen \in [Tasks -> Nat]
    /\ plat \in [Tasks -> Platforms \cup {NoPlatform}]
    /\ attempt \in [Tasks -> 1..MaxAttempts]
    /\ succeeded \in [Tasks -> BOOLEAN]
    /\ faults \in Nat
    /\ blamed \subseteq Nat
    /\ lastGen \in Nat

Init ==
    /\ route = NoRoute
    /\ nextGen = 1
    /\ frozen = NoPlatform
    /\ probeOk = 0
    /\ isConnecting = FALSE
    /\ waiters = {}
    /\ sessionLock = NoTask
    /\ probeLock = NoTask
    /\ closer = "open"
    /\ pc = [t \in Tasks |-> "idle"]
    /\ gen = [t \in Tasks |-> 0]
    /\ plat = [t \in Tasks |-> NoPlatform]
    /\ attempt = [t \in Tasks |-> 1]
    /\ succeeded = [t \in Tasks |-> FALSE]
    /\ faults = 0
    /\ blamed = {}
    /\ lastGen = 0

-----------------------------------------------------------------------------

Connected == route.gen # 0

(* is_connected: a route is installed and neither of its handles is closed. *)
Live == Connected /\ ~route.closed

LiveGeneration(g) == Live /\ route.gen = g

ShuttingDown == closer # "open"

TokenCancelled == closer \in {"cancelled", "done"}

SessionFree == sessionLock = NoTask

Goto(t, label) == pc' = [pc EXCEPT ![t] = label]

Capture(t, g) == gen' = [gen EXCEPT ![t] = g]

MayFail == faults < MaxFaults

Fault == faults' = faults + 1

RemoveRouteIf(condition) ==
    /\ SessionFree
    /\ IF condition
         THEN route' = NoRoute /\ probeOk' = 0
         ELSE UNCHANGED <<route, probeOk>>

(* Mutant: whatever route is installed is removed. *)
InvalidateAny(g) == RemoveRouteIf(g \in Nat)

(* invalidate_session_inner(Some(g)): only the route it names is removed. *)
Invalidate(g) == RemoveRouteIf(route.gen = g)

(* is_health_probe_fresh; TTL expiry clears probeOk, see ProbeExpires. *)
Fresh(g) == LiveGeneration(g) /\ probeOk = g

-----------------------------------------------------------------------------
(* ensure_connected_transport_only and ensure_transport_inner               *)

(* Mutant: bounded_transport does not ask whether the manager shuts down. *)
EnsureConnectedAnyway(t) ==
    /\ pc[t] = "idle"
    /\ Goto(t, "ensure")
    /\ UNCHANGED <<managerVars, gen, plat, attempt, succeeded, auxVars>>

(* A caller enters the budgeted acquisition; it is refused after shutdown. *)
EnsureConnected(t) ==
    /\ pc[t] = "idle"
    /\ ~ShuttingDown
    /\ Goto(t, "ensure")
    /\ UNCHANGED <<managerVars, gen, plat, attempt, succeeded, auxVars>>

EnsureLookReusing(t, passively) ==
    /\ pc[t] = "ensure"
    /\ SessionFree
    /\ \/ /\ ShuttingDown
          /\ Goto(t, "idle") /\ Capture(t, 0)
          /\ UNCHANGED attempt
       \/ /\ ~ShuttingDown /\ ~Connected
          /\ Goto(t, "check") /\ Capture(t, 0)
          /\ attempt' = [attempt EXCEPT ![t] = 1]
       \/ /\ ~ShuttingDown /\ Connected /\ route.closed
          /\ Goto(t, "closed_invalidate") /\ Capture(t, route.gen)
          /\ UNCHANGED attempt
       \/ /\ ~ShuttingDown /\ Live /\ passively
          /\ Goto(t, "ready") /\ Capture(t, 0)
          /\ UNCHANGED attempt
       \/ /\ ~ShuttingDown /\ Live /\ ~passively
          /\ Goto(t, "fresh") /\ Capture(t, route.gen)
          /\ UNCHANGED attempt
    /\ UNCHANGED <<managerVars, plat, succeeded, auxVars>>

(* Mutant: RouterOS routes are probed like any other. *)
EnsureLookProbingAll(t) == EnsureLookReusing(t, FALSE)

(* The head of the loop: one look at the route decides how to go on. *)
EnsureLook(t) == EnsureLookReusing(t, route.platform = "routeros")

(* Mutant: the generation named is never that of the dead route. *)
InvalidateClosedOther(t) ==
    /\ pc[t] = "closed_invalidate"
    /\ Invalidate(nextGen)
    /\ Goto(t, "ensure")
    /\ UNCHANGED <<nextGen, frozen, isConnecting, waiters, sessionLock, probeLock,
                   closer, gen, plat, attempt, succeeded, auxVars>>

InvalidateClosed(t) ==
    /\ pc[t] = "closed_invalidate"
    /\ Invalidate(gen[t])
    /\ Goto(t, "ensure")
    /\ UNCHANGED <<nextGen, frozen, isConnecting, waiters, sessionLock, probeLock,
                   closer, gen, plat, attempt, succeeded, auxVars>>

(* A recent successful probe of the same generation makes a new one needless. *)
CheckFresh(t) ==
    /\ pc[t] = "fresh"
    /\ SessionFree
    /\ Goto(t, IF Fresh(gen[t]) THEN "ready" ELSE "lock_probe")
    /\ UNCHANGED <<managerVars, gen, plat, attempt, succeeded, auxVars>>

LockProbe(t) ==
    /\ pc[t] = "lock_probe"
    /\ probeLock = NoTask
    /\ probeLock' = t
    /\ Goto(t, "fresh_locked")
    /\ UNCHANGED <<route, nextGen, frozen, probeOk, isConnecting, waiters,
                   sessionLock, closer, gen, plat, attempt, succeeded, auxVars>>

(* Whoever held the probe lock before may have probed this generation. *)
CheckFreshLocked(t) ==
    /\ pc[t] = "fresh_locked"
    /\ SessionFree
    /\ IF Fresh(gen[t])
         THEN Goto(t, "ready") /\ probeLock' = NoTask
         ELSE Goto(t, "probe") /\ UNCHANGED probeLock
    /\ UNCHANGED <<route, nextGen, frozen, probeOk, isConnecting, waiters,
                   sessionLock, closer, gen, plat, attempt, succeeded, auxVars>>

(* run_health_probe up to the ping, sent with the session mutex held. *)
ProbeBegin(t) ==
    /\ pc[t] = "probe"
    /\ SessionFree
    /\ IF LiveGeneration(gen[t])
         THEN Goto(t, "pinging") /\ sessionLock' = t
         ELSE Goto(t, "probe_invalidate") /\ UNCHANGED sessionLock
    /\ UNCHANGED <<route, nextGen, frozen, probeOk, isConnecting, waiters,
                   probeLock, closer, gen, plat, attempt, succeeded, auxVars>>

(* The ping returned Ok, which russh also does when the transport died. *)
ProbeAnswered(t) ==
    /\ pc[t] = "pinging"
    /\ sessionLock' = NoTask
    /\ Goto(t, IF route.closed THEN "probe_invalidate" ELSE "mark")
    /\ UNCHANGED <<route, nextGen, frozen, probeOk, isConnecting, waiters,
                   probeLock, closer, gen, plat, attempt, succeeded, auxVars>>

(* The ping failed or timed out. *)
ProbeFailed(t) ==
    /\ pc[t] = "pinging"
    /\ MayFail /\ Fault
    /\ sessionLock' = NoTask
    /\ blamed' = blamed \cup {gen[t]}
    /\ Goto(t, "probe_invalidate")
    /\ UNCHANGED <<route, nextGen, frozen, probeOk, isConnecting, waiters,
                   probeLock, closer, gen, plat, attempt, succeeded, lastGen>>

InvalidateProbed(t) ==
    /\ pc[t] = "probe_invalidate"
    /\ Invalidate(gen[t])
    /\ probeLock' = NoTask
    /\ Goto(t, "recheck")
    /\ UNCHANGED <<nextGen, frozen, isConnecting, waiters, sessionLock,
                   closer, gen, plat, attempt, succeeded, auxVars>>

(* A newer owner may already have recovered: look again instead of connecting. *)
Recheck(t) ==
    /\ pc[t] = "recheck"
    /\ SessionFree
    /\ Capture(t, 0)
    /\ IF Live
         THEN Goto(t, "ensure") /\ UNCHANGED attempt
         ELSE Goto(t, "check") /\ attempt' = [attempt EXCEPT ![t] = 1]
    /\ UNCHANGED <<managerVars, plat, succeeded, auxVars>>

MarkProbeOkIf(t, current) ==
    /\ pc[t] = "mark"
    /\ SessionFree
    /\ probeLock' = NoTask
    /\ IF current
         THEN probeOk' = gen[t] /\ Goto(t, "ready")
         ELSE UNCHANGED probeOk /\ Goto(t, "ensure")
    /\ UNCHANGED <<route, nextGen, frozen, isConnecting, waiters, sessionLock,
                   closer, gen, plat, attempt, succeeded, auxVars>>

(* Mutant: any live route is taken for the one that was probed. *)
MarkProbeOkAny(t) == MarkProbeOkIf(t, Live)

(* mark_health_probe_ok: a late answer vouches for no other generation. *)
MarkProbeOk(t) == MarkProbeOkIf(t, LiveGeneration(gen[t]))

-----------------------------------------------------------------------------
(* connect_with_retry, connect_transport_only and do_connect                *)

RetryIf(t, again) ==
    IF again
      THEN Goto(t, "check") /\ attempt' = [attempt EXCEPT ![t] = @ + 1]
      ELSE Goto(t, "idle") /\ attempt' = [attempt EXCEPT ![t] = 1]

(* An attempt failed: connect_with_retry sleeps and tries again, or gives up. *)
AttemptFailed(t) == RetryIf(t, attempt[t] < MaxAttempts)

ConnectCheck(t) ==
    /\ pc[t] = "check"
    /\ SessionFree
    /\ \/ ShuttingDown /\ AttemptFailed(t)
       \/ ~ShuttingDown /\ Live /\ Goto(t, "ready") /\ UNCHANGED attempt
       \/ ~ShuttingDown /\ ~Live /\ Goto(t, "register") /\ UNCHANGED attempt
    /\ UNCHANGED <<managerVars, gen, plat, succeeded, auxVars>>

(* notified.enable(): from here on notify_waiters reaches this task. *)
RegisterWaiter(t) ==
    /\ pc[t] = "register"
    /\ waiters' = waiters \cup {t}
    /\ Goto(t, "exchange")
    /\ UNCHANGED <<route, nextGen, frozen, probeOk, isConnecting, sessionLock,
                   probeLock, closer, gen, plat, attempt, succeeded, auxVars>>

(* compare_exchange on is_connecting: one task owns the attempt, others wait. *)
ClaimConnect(t) ==
    /\ pc[t] = "exchange"
    /\ isConnecting' = TRUE
    /\ Goto(t, IF isConnecting THEN "wait" ELSE "own_check")
    /\ UNCHANGED <<route, nextGen, frozen, probeOk, waiters, sessionLock,
                   probeLock, closer, gen, plat, attempt, succeeded, auxVars>>

(* The owner finished: its waiters look at what it left behind. *)
WaiterWakes(t) ==
    /\ pc[t] = "wait"
    /\ t \notin waiters
    /\ SessionFree
    /\ IF ~ShuttingDown /\ Live
         THEN Goto(t, "ready") /\ UNCHANGED attempt
         ELSE AttemptFailed(t)
    /\ UNCHANGED <<managerVars, gen, plat, succeeded, auxVars>>

(* Owner: the first check may precede another owner's publication. *)
OwnerCheck(t) ==
    /\ pc[t] = "own_check"
    /\ SessionFree
    /\ \/ /\ ShuttingDown
          /\ Goto(t, "own_return") /\ UNCHANGED succeeded
       \/ /\ ~ShuttingDown /\ Live
          /\ Goto(t, "own_return") /\ succeeded' = [succeeded EXCEPT ![t] = TRUE]
       \/ /\ ~ShuttingDown /\ ~Live
          /\ Goto(t, "own_stale") /\ UNCHANGED succeeded
    /\ UNCHANGED <<managerVars, gen, plat, attempt, auxVars>>

FirstDial == IF UseJump THEN "dial_jump" ELSE "dial_target"

NameStaleIf(t, condition) ==
    /\ pc[t] = "own_stale"
    /\ SessionFree
    /\ Capture(t, route.gen)
    /\ Goto(t, IF condition THEN "own_invalidate" ELSE FirstDial)
    /\ UNCHANGED <<managerVars, plat, attempt, succeeded, auxVars>>

(* Mutant: the dead route is left installed while the new one is dialled. *)
OwnerStaleKept(t) == NameStaleIf(t, FALSE)

(* Owner: name the dead route, if one is still installed. *)
OwnerStale(t) == NameStaleIf(t, Connected)

OwnerInvalidate(t) ==
    /\ pc[t] = "own_invalidate"
    /\ Invalidate(gen[t])
    /\ Goto(t, FirstDial)
    /\ Capture(t, 0)
    /\ UNCHANGED <<nextGen, frozen, isConnecting, waiters, sessionLock, probeLock,
                   closer, plat, attempt, succeeded, auxVars>>

(* Jump host: TCP and handshake, authentication, direct-tcpip tunnel. *)
DialJumpStage(t) ==
    /\ \/ pc[t] = "dial_jump" /\ Goto(t, "auth_jump")
       \/ pc[t] = "auth_jump" /\ Goto(t, "tunnel")
       \/ pc[t] = "tunnel" /\ Goto(t, "dial_target")
    /\ UNCHANGED <<managerVars, gen, plat, attempt, succeeded, auxVars>>

(* Target transport up; its identification string fixes the platform.  The *)
(* same host identifying differently later is an environment fault.        *)
DialTarget(t, p) ==
    /\ pc[t] = "dial_target"
    /\ IF frozen \in {NoPlatform, p}
         THEN UNCHANGED faults
         ELSE MayFail /\ Fault
    /\ plat' = [plat EXCEPT ![t] = p]
    /\ Goto(t, "auth_target")
    /\ UNCHANGED <<managerVars, gen, attempt, succeeded, blamed, lastGen>>

(* finish_connect up to the publication locks: an authenticated candidate  *)
(* takes the next generation, unless elevation is impossible on RouterOS.  *)
AuthenticateTarget(t) ==
    /\ pc[t] = "auth_target"
    /\ IF plat[t] = "routeros" /\ HasElevation
         THEN /\ Goto(t, "own_return")
              /\ plat' = [plat EXCEPT ![t] = NoPlatform]
              /\ UNCHANGED <<gen, nextGen>>
         ELSE /\ Goto(t, "publish")
              /\ Capture(t, nextGen)
              /\ nextGen' = nextGen + 1
              /\ UNCHANGED plat
    /\ UNCHANGED <<route, frozen, probeOk, isConnecting, waiters, sessionLock,
                   probeLock, closer, attempt, succeeded, auxVars>>

(* Any stage of dialling fails or times out; what was open is disconnected. *)
DialFails(t) ==
    /\ pc[t] \in DialPcs
    /\ MayFail /\ Fault
    /\ Goto(t, "own_return")
    /\ plat' = [plat EXCEPT ![t] = NoPlatform]
    /\ UNCHANGED <<managerVars, gen, attempt, succeeded, blamed, lastGen>>

PlatformChanged(t) == frozen \notin {NoPlatform, plat[t]}

PublishUnless(t, refused) ==
    /\ pc[t] = "publish"
    /\ SessionFree
    /\ IF refused
         THEN UNCHANGED <<route, probeOk, frozen, succeeded, lastGen>>
         ELSE /\ frozen' = (IF frozen = NoPlatform THEN plat[t] ELSE frozen)
              /\ route' = [gen |-> gen[t], closed |-> FALSE, platform |-> plat[t]]
              /\ probeOk' = 0
              /\ succeeded' = [succeeded EXCEPT ![t] = TRUE]
              /\ lastGen' = gen[t]
    /\ Goto(t, "own_return")
    /\ Capture(t, 0)
    /\ plat' = [plat EXCEPT ![t] = NoPlatform]
    /\ UNCHANGED <<nextGen, isConnecting, waiters, sessionLock, probeLock, closer,
                   attempt, faults, blamed>>

(* Mutant: the shutdown flag is not looked at under the locks. *)
PublishAfterShutdown(t) == PublishUnless(t, PlatformChanged(t))

(* Mutant: a host that now identifies differently is accepted. *)
PublishAnyPlatform(t) == PublishUnless(t, ShuttingDown)

(* finish_connect under the session and probe locks. *)
Publish(t) == PublishUnless(t, ShuttingDown \/ PlatformChanged(t))

ReturnWaking(t, woken) ==
    /\ pc[t] = "own_return"
    /\ isConnecting' = FALSE
    /\ waiters' = waiters \ woken
    /\ Capture(t, 0)
    /\ succeeded' = [succeeded EXCEPT ![t] = FALSE]
    /\ IF succeeded[t]
         THEN Goto(t, "ready") /\ UNCHANGED attempt
         ELSE AttemptFailed(t)
    /\ UNCHANGED <<route, nextGen, frozen, probeOk, sessionLock, probeLock,
                   closer, plat, auxVars>>

(* Mutant: the guard clears the flag without waking anybody else. *)
OwnerReturnSilently(t) == ReturnWaking(t, {t})

(* ConnectAttemptGuard is dropped: the flag is cleared, then waiters wake. *)
OwnerReturn(t) == ReturnWaking(t, waiters)

DropCallReleasing(t, owned) ==
    /\ pc[t] \in CallPcs
    /\ Goto(t, "idle")
    /\ sessionLock' = (IF sessionLock = t THEN NoTask ELSE sessionLock)
    /\ probeLock' = (IF probeLock = t THEN NoTask ELSE probeLock)
    /\ isConnecting' = (isConnecting /\ ~owned)
    /\ waiters' = (IF owned THEN {} ELSE waiters \ {t})
    /\ Capture(t, 0)
    /\ plat' = [plat EXCEPT ![t] = NoPlatform]
    /\ attempt' = [attempt EXCEPT ![t] = 1]
    /\ succeeded' = [succeeded EXCEPT ![t] = FALSE]
    /\ UNCHANGED <<route, nextGen, frozen, probeOk, closer, blamed, lastGen>>

(* Mutant: without ConnectAttemptGuard a cancelled owner keeps the flag. *)
DropCallLeaking(t) == DropCallReleasing(t, FALSE)

(* The future is dropped at an await: locks, guard and candidate go with it. *)
DropCall(t) == DropCallReleasing(t, pc[t] \in OwnerPcs)

(* bounded_transport's 30 seconds (10 for startup readiness) are over. *)
BudgetElapses(t) == MayFail /\ Fault /\ DropCall(t)

(* bounded_transport's biased select sees the shutdown token first. *)
ShutdownCancels(t) == TokenCancelled /\ UNCHANGED faults /\ DropCall(t)

-----------------------------------------------------------------------------
(* Using the route: open_channel_attempt_detailed and what follows it       *)

(* Readiness and recovery only wanted the transport. *)
Release(t) ==
    /\ pc[t] = "ready"
    /\ Goto(t, "idle") /\ Capture(t, 0)
    /\ attempt' = [attempt EXCEPT ![t] = 1]
    /\ UNCHANGED <<managerVars, plat, succeeded, auxVars>>

(* The session mutex is held while the channel is being opened; the         *)
(* generation is known even when the open fails.                           *)
OpenChannel(t) ==
    /\ pc[t] = "ready"
    /\ t # Recovery
    /\ SessionFree
    /\ attempt' = [attempt EXCEPT ![t] = 1]
    /\ IF ShuttingDown \/ ~Connected
         THEN Goto(t, "idle") /\ Capture(t, 0) /\ UNCHANGED sessionLock
         ELSE /\ Capture(t, route.gen)
              /\ IF route.closed
                   THEN Goto(t, "op_invalidate") /\ UNCHANGED sessionLock
                   ELSE Goto(t, "opening") /\ sessionLock' = t
    /\ UNCHANGED <<route, nextGen, frozen, probeOk, isConnecting, waiters,
                   probeLock, closer, plat, succeeded, auxVars>>

ChannelOpened(t) ==
    /\ pc[t] = "opening"
    /\ sessionLock' = NoTask
    /\ Goto(t, "running")
    /\ UNCHANGED <<route, nextGen, frozen, probeOk, isConnecting, waiters,
                   probeLock, closer, gen, plat, attempt, succeeded, auxVars>>

(* A failure costs the environment a fault unless the route is gone already. *)
OperationFault(t) ==
    IF LiveGeneration(gen[t])
      THEN MayFail /\ Fault /\ blamed' = blamed \cup {gen[t]}
      ELSE UNCHANGED faults /\ blamed' = blamed \cup {gen[t]}

(* The open is refused, times out, or is interrupted by shutdown. *)
ChannelRefused(t) ==
    /\ pc[t] = "opening"
    /\ sessionLock' = NoTask
    /\ IF TokenCancelled THEN UNCHANGED <<faults, blamed>> ELSE OperationFault(t)
    /\ Goto(t, "op_invalidate")
    /\ UNCHANGED <<route, nextGen, frozen, probeOk, isConnecting, waiters,
                   probeLock, closer, gen, plat, attempt, succeeded, lastGen>>

OperationDone(t) ==
    /\ pc[t] = "running"
    /\ Goto(t, "idle") /\ Capture(t, 0)
    /\ UNCHANGED <<managerVars, plat, attempt, succeeded, auxVars>>

(* The operation times out, loses its channel or its exit status. *)
OperationFailed(t) ==
    /\ pc[t] = "running"
    /\ OperationFault(t)
    /\ Goto(t, "op_invalidate")
    /\ UNCHANGED <<managerVars, gen, plat, attempt, succeeded, lastGen>>

(* invalidate_session_for_generation with the operation's own generation. *)
InvalidateAfterOperation(t) ==
    /\ pc[t] = "op_invalidate"
    /\ Invalidate(gen[t])
    /\ Goto(t, "idle") /\ Capture(t, 0)
    /\ UNCHANGED <<nextGen, frozen, isConnecting, waiters, sessionLock, probeLock,
                   closer, plat, attempt, succeeded, auxVars>>

-----------------------------------------------------------------------------
(* Environment and shutdown                                                 *)

(* The target or the jump transport of the current route dies. *)
TransportDies ==
    /\ Live
    /\ MayFail /\ Fault
    /\ route' = [route EXCEPT !.closed = TRUE]
    /\ blamed' = blamed \cup {route.gen}
    /\ UNCHANGED <<nextGen, frozen, probeOk, isConnecting, waiters, sessionLock,
                   probeLock, closer, taskVars, lastGen>>

(* health_probe_ttl passes since the last successful probe. *)
ProbeExpires ==
    /\ probeOk # 0
    /\ probeOk' = 0
    /\ UNCHANGED <<route, nextGen, frozen, isConnecting, waiters, sessionLock,
                   probeLock, closer, taskVars, auxVars>>

(* close(): shutting_down is stored, then the token is cancelled ... *)
CloseBegins ==
    /\ \/ closer = "open" /\ closer' = "flagged"
       \/ closer = "flagged" /\ closer' = "cancelled"
    /\ UNCHANGED <<route, nextGen, frozen, probeOk, isConnecting, waiters,
                   sessionLock, probeLock, taskVars, auxVars>>

(* ... and the route is taken out under the locks. *)
CloseTakesRoute ==
    /\ closer = "cancelled"
    /\ SessionFree
    /\ closer' = "done"
    /\ route' = NoRoute
    /\ probeOk' = 0
    /\ UNCHANGED <<nextGen, frozen, isConnecting, waiters, sessionLock, probeLock,
                   taskVars, auxVars>>

-----------------------------------------------------------------------------

Ensuring(t) ==
    \/ EnsureLook(t) \/ InvalidateClosed(t) \/ CheckFresh(t) \/ LockProbe(t)
    \/ CheckFreshLocked(t) \/ ProbeBegin(t) \/ ProbeAnswered(t)
    \/ InvalidateProbed(t) \/ Recheck(t) \/ MarkProbeOk(t)

Connecting(t) ==
    \/ ConnectCheck(t) \/ RegisterWaiter(t) \/ ClaimConnect(t) \/ WaiterWakes(t)
    \/ OwnerCheck(t) \/ OwnerStale(t) \/ OwnerInvalidate(t) \/ DialJumpStage(t)
    \/ \E p \in Platforms : DialTarget(t, p)
    \/ AuthenticateTarget(t) \/ Publish(t) \/ OwnerReturn(t)

Operating(t) ==
    \/ Release(t) \/ OpenChannel(t) \/ ChannelOpened(t)
    \/ OperationDone(t) \/ InvalidateAfterOperation(t)

Failing(t) ==
    \/ ProbeFailed(t) \/ DialFails(t) \/ ChannelRefused(t) \/ OperationFailed(t)
    \/ BudgetElapses(t)

(* What a scheduled task does by itself, neither starting nor failing. *)
Progress(t) == Ensuring(t) \/ Connecting(t) \/ Operating(t)

Closing == CloseBegins \/ CloseTakesRoute

(* Everybody has returned and the process exits. *)
Stopped ==
    /\ closer = "done"
    /\ \A t \in Tasks : pc[t] = "idle"
    /\ UNCHANGED vars

Next ==
    \/ \E t \in Tasks :
          EnsureConnected(t) \/ Progress(t) \/ Failing(t) \/ ShutdownCancels(t)
    \/ TransportDies
    \/ ProbeExpires
    \/ Closing
    \/ Stopped

Spec == Init /\ [][Next]_vars

(***************************************************************************)
(* Tokio polls a ready task and its mutexes are FIFO, so a task whose next *)
(* step keeps becoming possible takes it (strong fairness); the recovery   *)
(* loop calls ensure_connected_transport_only every five seconds; a        *)
(* cancelled token is observed at the next poll; close() once begun goes   *)
(* on.  No failure and no budget timeout is assumed to happen, and no task *)
(* but the recovery loop is assumed to call.                               *)
(***************************************************************************)
Fairness ==
    /\ \A t \in Tasks : SF_vars(Progress(t)) /\ WF_vars(ShutdownCancels(t))
    /\ WF_vars(EnsureConnected(Recovery))
    /\ WF_vars(ShuttingDown /\ Closing)

FairSpec == Spec /\ Fairness

-----------------------------------------------------------------------------
(* Safety                                                                   *)

(* is_connecting is set exactly while one task is inside the guarded part   *)
(* of connect_transport_only, however that task leaves it: two tasks never  *)
(* dial at once and a dropped one never leaves the flag behind.             *)
OneConnectOwner ==
    /\ isConnecting <=> \E t \in Tasks : pc[t] \in OwnerPcs
    /\ \A t, u \in Tasks : pc[t] \in OwnerPcs /\ pc[u] \in OwnerPcs => t = u

(* last_health_probe_ok_at never vouches for a route other than the         *)
(* installed one: an answer that arrives after a reconnect is not recorded. *)
ProbeCacheCurrent == probeOk # 0 => probeOk = route.gen

(* Every published route has the platform frozen by the first one, even     *)
(* when the host identifies differently on reconnect.                       *)
RouteOnFrozenPlatform == Connected => route.platform = frozen

(* A ping is only ever in flight on the POSIX route the task looked at      *)
(* several awaits earlier, and that route stays installed meanwhile:        *)
(* RouterOS never answers one.                                              *)
PingOnlyPosix ==
    \A t \in Tasks :
        pc[t] = "pinging" => route.platform = "posix" /\ route.gen = gen[t]

(* What the manager believes of the installed route is true of it, however  *)
(* many awaits ago it was found out: its probe, its platform, and that it    *)
(* may be pinged.                                                           *)
RouteBeliefs == ProbeCacheCurrent /\ RouteOnFrozenPlatform /\ PingOnlyPosix

(* Nothing is installed any more once close() took the route, whatever      *)
(* connect attempts were in flight.                                         *)
NoRouteAfterClose == closer = "done" => ~Connected

(* A live route disappears only if a failure was seen on that very          *)
(* generation or the manager is shutting down: failures of operations that  *)
(* ran on an earlier route never take the new one away from others.         *)
HealthyRouteSurvives ==
    [][Live /\ route'.gen # route.gen => route.gen \in blamed \/ ShuttingDown]_vars

(* Transport implements the abstract route slot: publication only into an   *)
(* empty slot, generations never reused, nothing after close.               *)
RouteSlot == INSTANCE Route WITH current <- route.gen,
                                 highest <- lastGen,
                                 stopped <- (closer = "done")

(* The refinement as a temporal property. *)
ImplementsRoute == RouteSlot!Spec

-----------------------------------------------------------------------------
(* Liveness                                                                 *)

(* A task waiting for another's connect attempt is woken when it ends, be   *)
(* it by success, failure or cancellation: no wake-up is lost.              *)
WaitersWake == \A t \in Tasks : pc[t] = "wait" ~> pc[t] # "wait"

(* Once the network stops failing the recovery loop brings a route back and *)
(* it stays, unless the manager is being closed.                            *)
RouteRecovers == <>[](Live \/ ShuttingDown)

(* After close() begins every acquisition in flight returns and the slot    *)
(* ends up empty for good.                                                  *)
ShutdownQuiesces ==
    ShuttingDown ~> [](~Connected /\ \A t \in Tasks : pc[t] \notin CallPcs)

=============================================================================
