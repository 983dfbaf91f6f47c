--------------------------- MODULE TransportProofs --------------------------
(***************************************************************************)
(* Proofs, for any set of tasks, any number of attempts and any amount of  *)
(* environment failure, of the safety properties of Transport.  IndInv is  *)
(* the inductive invariant; each of its parts has a step lemma with one    *)
(* step per action.                                                        *)
(***************************************************************************)
EXTENDS Transport, TLAPS

(* Mutexes are held exactly where the code holds them across an await. *)
LockInv ==
    \A t \in Tasks :
        /\ sessionLock = t <=> pc[t] \in {"pinging", "opening"}
        /\ probeLock = t <=> pc[t] \in ProbePcs

(* Published and captured generations are below next_generation; only an   *)
(* unpublished candidate is newer than the latest published route.         *)
GenerationInv ==
    /\ lastGen < nextGen
    /\ Connected => route.gen = lastGen
    /\ \A t \in Tasks :
         IF pc[t] = "publish"
           THEN lastGen < gen[t] /\ gen[t] < nextGen
           ELSE gen[t] <= lastGen

(* While the owner dials, the slot is empty. *)
SlotInv ==
    \A t \in Tasks :
        /\ pc[t] \in DialPcs \cup {"publish"} => ~Connected
        /\ pc[t] = "own_invalidate" => route.gen \in {0, gen[t]}
        /\ pc[t] = "own_stale" => ~Live

(* The installed route has the frozen platform; candidates have one. *)
PlatformInv ==
    /\ RouteOnFrozenPlatform
    /\ Connected => route.platform \in Platforms
    /\ \A t \in Tasks : pc[t] \in {"auth_target", "publish"} => plat[t] \in Platforms

(* From the look that found POSIX to the end of the probe. *)
PosixPcs == {"fresh", "lock_probe", "fresh_locked", "probe", "pinging", "mark", "probe_invalidate"}

PingInv ==
    \A t \in Tasks :
        /\ pc[t] \in PosixPcs => gen[t] # 0 /\ (route.gen = gen[t] => route.platform = "posix")
        /\ pc[t] = "pinging" => route.gen = gen[t]

(* Places where the task is about to remove the generation it captured. *)
InvalidatePcs == {"closed_invalidate", "probe_invalidate", "own_invalidate", "op_invalidate"}

BlameInv ==
    /\ Connected /\ route.closed => route.gen \in blamed
    /\ \A t \in Tasks :
         /\ pc[t] \in InvalidatePcs =>
              gen[t] # 0 /\ (route.gen = gen[t] => gen[t] \in blamed \/ ShuttingDown)
         /\ pc[t] \in {"opening", "running"} => gen[t] # 0

IndInv ==
    /\ TypeOK
    /\ LockInv
    /\ OneConnectOwner
    /\ GenerationInv
    /\ SlotInv
    /\ NoRouteAfterClose
    /\ PlatformInv
    /\ ProbeCacheCurrent
    /\ PingInv
    /\ BlameInv

-----------------------------------------------------------------------------

(* The empty slot and a freshly built route have the type of a route. *)
LEMMA RouteTyped ==
    /\ NoRoute \in RouteType
    /\ \A g \in Nat, p \in Platforms \cup {NoPlatform}, c \in BOOLEAN :
         [gen |-> g, closed |-> c, platform |-> p] \in RouteType
    /\ \A r \in RouteType : r.gen \in Nat /\ [r EXCEPT !.closed = TRUE] \in RouteType
BY DEF NoRoute, NoPlatform, RouteType

(* Every step keeps the variables in their types. *)
LEMMA TypeStep ==
    ASSUME TypeOK, [Next]_vars
    PROVE  TypeOK'
<1> USE TransportAssumption, RouteTyped DEF TypeOK, vars, managerVars,
      taskVars, auxVars, Goto, Capture, Connected, Live, LiveGeneration,
      ShuttingDown, TokenCancelled, SessionFree, MayFail, Fault, Fresh,
      FirstDial, Pcs, CallPcs, OwnerPcs, DialPcs, OpPcs, ProbePcs, Platforms,
      NoPlatform
<1>1. ASSUME NEW t \in Tasks, EnsureConnected(t) PROVE TypeOK'
  BY <1>1 DEF EnsureConnected
<1>2. ASSUME NEW t \in Tasks, EnsureLook(t) PROVE TypeOK'
  <2>1. route.gen \in Nat
    BY <1>2 DEF EnsureLook, EnsureLookReusing
  <2>2. gen' \in {[gen EXCEPT ![t] = 0], [gen EXCEPT ![t] = route.gen]}
    BY <1>2 DEF EnsureLook, EnsureLookReusing
  <2>3. gen' \in [Tasks -> Nat]
    BY <2>1, <2>2
  <2>4. attempt' \in [Tasks -> 1..MaxAttempts]
    BY <1>2 DEF EnsureLook, EnsureLookReusing
  <2>5. pc' \in [Tasks -> Pcs]
    BY <1>2 DEF EnsureLook, EnsureLookReusing
  <2> QED
    BY <1>2, <2>1, <2>2, <2>3, <2>4, <2>5 DEF EnsureLook, EnsureLookReusing
<1>3. ASSUME NEW t \in Tasks, InvalidateClosed(t) PROVE TypeOK'
  <2>1. route' \in RouteType /\ probeOk' \in Nat
    BY <1>3 DEF InvalidateClosed, Invalidate, RemoveRouteIf
  <2> QED
    BY <1>3, <2>1 DEF InvalidateClosed, Invalidate, RemoveRouteIf
<1>4. ASSUME NEW t \in Tasks, CheckFresh(t) PROVE TypeOK'
  BY <1>4 DEF CheckFresh
<1>5. ASSUME NEW t \in Tasks, LockProbe(t) PROVE TypeOK'
  BY <1>5 DEF LockProbe
<1>6. ASSUME NEW t \in Tasks, CheckFreshLocked(t) PROVE TypeOK'
  BY <1>6 DEF CheckFreshLocked
<1>7. ASSUME NEW t \in Tasks, ProbeBegin(t) PROVE TypeOK'
  BY <1>7 DEF ProbeBegin
<1>8. ASSUME NEW t \in Tasks, ProbeAnswered(t) PROVE TypeOK'
  BY <1>8 DEF ProbeAnswered
<1>9. ASSUME NEW t \in Tasks, InvalidateProbed(t) PROVE TypeOK'
  <2>1. route' \in RouteType /\ probeOk' \in Nat
    BY <1>9 DEF InvalidateProbed, Invalidate, RemoveRouteIf
  <2> QED
    BY <1>9, <2>1 DEF InvalidateProbed, Invalidate, RemoveRouteIf
<1>10. ASSUME NEW t \in Tasks, Recheck(t) PROVE TypeOK'
  BY <1>10 DEF Recheck
<1>11. ASSUME NEW t \in Tasks, MarkProbeOk(t) PROVE TypeOK'
  BY <1>11 DEF MarkProbeOk, MarkProbeOkIf
<1>12. ASSUME NEW t \in Tasks, ConnectCheck(t) PROVE TypeOK'
  BY <1>12 DEF ConnectCheck, AttemptFailed, RetryIf
<1>13. ASSUME NEW t \in Tasks, RegisterWaiter(t) PROVE TypeOK'
  BY <1>13 DEF RegisterWaiter
<1>14. ASSUME NEW t \in Tasks, ClaimConnect(t) PROVE TypeOK'
  BY <1>14 DEF ClaimConnect
<1>15. ASSUME NEW t \in Tasks, WaiterWakes(t) PROVE TypeOK'
  BY <1>15 DEF WaiterWakes, AttemptFailed, RetryIf
<1>16. ASSUME NEW t \in Tasks, OwnerCheck(t) PROVE TypeOK'
  <2>1. succeeded' \in [Tasks -> BOOLEAN]
    BY <1>16, Zenon DEF OwnerCheck
  <2> QED
    BY <1>16, <2>1 DEF OwnerCheck
<1>17. ASSUME NEW t \in Tasks, OwnerStale(t) PROVE TypeOK'
  BY <1>17 DEF OwnerStale, NameStaleIf
<1>18. ASSUME NEW t \in Tasks, OwnerInvalidate(t) PROVE TypeOK'
  <2>1. route' \in RouteType /\ probeOk' \in Nat
    BY <1>18 DEF OwnerInvalidate, Invalidate, RemoveRouteIf
  <2> QED
    BY <1>18, <2>1 DEF OwnerInvalidate, Invalidate, RemoveRouteIf
<1>19. ASSUME NEW t \in Tasks, DialJumpStage(t) PROVE TypeOK'
  BY <1>19 DEF DialJumpStage
<1>20. ASSUME NEW t \in Tasks, NEW p \in Platforms, DialTarget(t, p) PROVE TypeOK'
  BY <1>20 DEF DialTarget
<1>21. ASSUME NEW t \in Tasks, AuthenticateTarget(t) PROVE TypeOK'
  BY <1>21 DEF AuthenticateTarget
<1>22. ASSUME NEW t \in Tasks, Publish(t) PROVE TypeOK'
  <2>1. succeeded' \in [Tasks -> BOOLEAN]
    BY <1>22, Zenon DEF Publish, PublishUnless, PlatformChanged
  <2>2. gen[t] \in Nat /\ plat[t] \in Platforms \cup {NoPlatform}
    BY <1>22 DEF Publish, PublishUnless, PlatformChanged
  <2>3. route' \in {route, [gen |-> gen[t], closed |-> FALSE, platform |-> plat[t]]}
    BY <1>22 DEF Publish, PublishUnless, PlatformChanged
  <2>4. [gen |-> gen[t], closed |-> FALSE, platform |-> plat[t]] \in RouteType
    BY <2>2 DEF RouteType
  <2>5. route' \in RouteType
    BY <2>3, <2>4
  <2>6. pc' \in [Tasks -> Pcs] /\ gen' \in [Tasks -> Nat]
    BY <1>22 DEF Publish, PublishUnless, PlatformChanged
  <2>7. frozen' \in Platforms \cup {NoPlatform}
    BY <1>22 DEF Publish, PublishUnless, PlatformChanged
  <2> QED
    BY <1>22, <2>1, <2>2, <2>3, <2>4, <2>5, <2>6, <2>7 DEF Publish, PublishUnless, PlatformChanged
<1>23. ASSUME NEW t \in Tasks, OwnerReturn(t) PROVE TypeOK'
  <2>1. succeeded' \in [Tasks -> BOOLEAN]
    BY <1>23, Zenon DEF OwnerReturn, ReturnWaking, AttemptFailed, RetryIf
  <2>2. waiters' \subseteq Tasks
    BY <1>23 DEF OwnerReturn, ReturnWaking, AttemptFailed, RetryIf
  <2>3. pc' \in [Tasks -> Pcs] /\ attempt' \in [Tasks -> 1..MaxAttempts]
    BY <1>23 DEF OwnerReturn, ReturnWaking, AttemptFailed, RetryIf
  <2> QED
    BY <1>23, <2>1, <2>2, <2>3 DEF OwnerReturn, ReturnWaking, AttemptFailed, RetryIf
<1>24. ASSUME NEW t \in Tasks, Release(t) PROVE TypeOK'
  BY <1>24 DEF Release
<1>25. ASSUME NEW t \in Tasks, OpenChannel(t) PROVE TypeOK'
  <2>1. route.gen \in Nat
    BY <1>25 DEF OpenChannel
  <2>2. gen' \in {[gen EXCEPT ![t] = 0], [gen EXCEPT ![t] = route.gen]}
    BY <1>25 DEF OpenChannel
  <2>3. gen' \in [Tasks -> Nat]
    BY <2>1, <2>2
  <2>4. attempt' \in [Tasks -> 1..MaxAttempts]
    BY <1>25 DEF OpenChannel
  <2>5. pc' \in [Tasks -> Pcs]
    BY <1>25 DEF OpenChannel
  <2> QED
    BY <1>25, <2>1, <2>2, <2>3, <2>4, <2>5 DEF OpenChannel
<1>26. ASSUME NEW t \in Tasks, ChannelOpened(t) PROVE TypeOK'
  BY <1>26 DEF ChannelOpened
<1>27. ASSUME NEW t \in Tasks, OperationDone(t) PROVE TypeOK'
  BY <1>27 DEF OperationDone
<1>28. ASSUME NEW t \in Tasks, InvalidateAfterOperation(t) PROVE TypeOK'
  <2>1. route' \in RouteType /\ probeOk' \in Nat
    BY <1>28 DEF InvalidateAfterOperation, Invalidate, RemoveRouteIf
  <2> QED
    BY <1>28, <2>1 DEF InvalidateAfterOperation, Invalidate, RemoveRouteIf
<1>29. ASSUME NEW t \in Tasks, ProbeFailed(t) PROVE TypeOK'
  <2>1. gen[t] \in Nat
    BY <1>29 DEF ProbeFailed
  <2>2. blamed' \in {blamed, blamed \cup {gen[t]}}
    BY <1>29 DEF ProbeFailed
  <2>3. blamed' \subseteq Nat
    BY <1>29, <2>1, <2>2 DEF ProbeFailed
  <2>4. faults' \in Nat
    BY <1>29 DEF ProbeFailed
  <2> QED
    BY <1>29, <2>1, <2>2, <2>3, <2>4 DEF ProbeFailed
<1>30. ASSUME NEW t \in Tasks, DialFails(t) PROVE TypeOK'
  BY <1>30 DEF DialFails
<1>31. ASSUME NEW t \in Tasks, ChannelRefused(t) PROVE TypeOK'
  <2>1. gen[t] \in Nat
    BY <1>31 DEF ChannelRefused, OperationFault
  <2>2. blamed' \in {blamed, blamed \cup {gen[t]}}
    BY <1>31 DEF ChannelRefused, OperationFault
  <2>3. blamed' \subseteq Nat
    BY <1>31, <2>1, <2>2 DEF ChannelRefused, OperationFault
  <2>4. faults' \in Nat
    BY <1>31 DEF ChannelRefused, OperationFault
  <2> QED
    BY <1>31, <2>1, <2>2, <2>3, <2>4 DEF ChannelRefused, OperationFault
<1>32. ASSUME NEW t \in Tasks, OperationFailed(t) PROVE TypeOK'
  <2>1. gen[t] \in Nat
    BY <1>32 DEF OperationFailed, OperationFault
  <2>2. blamed' \in {blamed, blamed \cup {gen[t]}}
    BY <1>32 DEF OperationFailed, OperationFault
  <2>3. blamed' \subseteq Nat
    BY <1>32, <2>1, <2>2 DEF OperationFailed, OperationFault
  <2>4. faults' \in Nat
    BY <1>32 DEF OperationFailed, OperationFault
  <2> QED
    BY <1>32, <2>1, <2>2, <2>3, <2>4 DEF OperationFailed, OperationFault
<1>33. ASSUME NEW t \in Tasks, BudgetElapses(t) PROVE TypeOK'
  BY <1>33 DEF BudgetElapses, DropCall, DropCallReleasing
<1>34. ASSUME NEW t \in Tasks, ShutdownCancels(t) PROVE TypeOK'
  BY <1>34 DEF ShutdownCancels, DropCall, DropCallReleasing
<1>35. CASE TransportDies
  <2>1. blamed' \subseteq Nat
    BY <1>35 DEF TransportDies
  <2>2. route' \in RouteType
    BY <1>35 DEF TransportDies
  <2> QED
    BY <1>35, <2>1, <2>2 DEF TransportDies
<1>36. CASE ProbeExpires
  BY <1>36 DEF ProbeExpires
<1>37. CASE CloseBegins
  BY <1>37 DEF CloseBegins
<1>38. CASE CloseTakesRoute
  BY <1>38 DEF CloseTakesRoute
<1>39. CASE UNCHANGED vars
  BY <1>39
<1> QED
  BY <1>1, <1>2, <1>3, <1>4, <1>5, <1>6, <1>7, <1>8, <1>9, <1>10, <1>11, <1>12, <1>13,
     <1>14, <1>15, <1>16, <1>17, <1>18, <1>19, <1>20, <1>21, <1>22, <1>23, <1>24, <1>25,
     <1>26, <1>27, <1>28, <1>29, <1>30, <1>31, <1>32, <1>33, <1>34, <1>35, <1>36, <1>37,
     <1>38, <1>39
  DEF Next, Progress, Ensuring, Connecting, Operating, Failing, Closing, Stopped

(* A task holds a mutex exactly at the places where the code does. *)
LEMMA LockStep ==
    ASSUME TypeOK, LockInv, [Next]_vars
    PROVE  LockInv'
<1> USE TransportAssumption DEF LockInv, TypeOK, RouteType, vars, managerVars,
      taskVars, auxVars, Goto, Capture, Connected, Live, LiveGeneration,
      ShuttingDown, TokenCancelled, SessionFree, MayFail, Fault, Fresh,
      FirstDial, NoRoute, Pcs, CallPcs, OwnerPcs, DialPcs, OpPcs, ProbePcs,
      Platforms, NoPlatform
<1>1. ASSUME NEW t \in Tasks, EnsureConnected(t) PROVE LockInv'
  BY <1>1 DEF EnsureConnected
<1>2. ASSUME NEW t \in Tasks, EnsureLook(t) PROVE LockInv'
  BY <1>2 DEF EnsureLook, EnsureLookReusing
<1>3. ASSUME NEW t \in Tasks, InvalidateClosed(t) PROVE LockInv'
  BY <1>3 DEF InvalidateClosed, Invalidate, RemoveRouteIf
<1>4. ASSUME NEW t \in Tasks, CheckFresh(t) PROVE LockInv'
  BY <1>4 DEF CheckFresh
<1>5. ASSUME NEW t \in Tasks, LockProbe(t) PROVE LockInv'
  BY <1>5 DEF LockProbe
<1>6. ASSUME NEW t \in Tasks, CheckFreshLocked(t) PROVE LockInv'
  BY <1>6 DEF CheckFreshLocked
<1>7. ASSUME NEW t \in Tasks, ProbeBegin(t) PROVE LockInv'
  BY <1>7 DEF ProbeBegin
<1>8. ASSUME NEW t \in Tasks, ProbeAnswered(t) PROVE LockInv'
  BY <1>8 DEF ProbeAnswered
<1>9. ASSUME NEW t \in Tasks, InvalidateProbed(t) PROVE LockInv'
  BY <1>9 DEF InvalidateProbed, Invalidate, RemoveRouteIf
<1>10. ASSUME NEW t \in Tasks, Recheck(t) PROVE LockInv'
  BY <1>10 DEF Recheck
<1>11. ASSUME NEW t \in Tasks, MarkProbeOk(t) PROVE LockInv'
  BY <1>11 DEF MarkProbeOk, MarkProbeOkIf
<1>12. ASSUME NEW t \in Tasks, ConnectCheck(t) PROVE LockInv'
  BY <1>12 DEF ConnectCheck, AttemptFailed, RetryIf
<1>13. ASSUME NEW t \in Tasks, RegisterWaiter(t) PROVE LockInv'
  BY <1>13 DEF RegisterWaiter
<1>14. ASSUME NEW t \in Tasks, ClaimConnect(t) PROVE LockInv'
  BY <1>14 DEF ClaimConnect
<1>15. ASSUME NEW t \in Tasks, WaiterWakes(t) PROVE LockInv'
  BY <1>15 DEF WaiterWakes, AttemptFailed, RetryIf
<1>16. ASSUME NEW t \in Tasks, OwnerCheck(t) PROVE LockInv'
  BY <1>16 DEF OwnerCheck
<1>17. ASSUME NEW t \in Tasks, OwnerStale(t) PROVE LockInv'
  BY <1>17 DEF OwnerStale, NameStaleIf
<1>18. ASSUME NEW t \in Tasks, OwnerInvalidate(t) PROVE LockInv'
  BY <1>18 DEF OwnerInvalidate, Invalidate, RemoveRouteIf
<1>19. ASSUME NEW t \in Tasks, DialJumpStage(t) PROVE LockInv'
  BY <1>19 DEF DialJumpStage
<1>20. ASSUME NEW t \in Tasks, NEW p \in Platforms, DialTarget(t, p) PROVE LockInv'
  BY <1>20 DEF DialTarget
<1>21. ASSUME NEW t \in Tasks, AuthenticateTarget(t) PROVE LockInv'
  BY <1>21 DEF AuthenticateTarget
<1>22. ASSUME NEW t \in Tasks, Publish(t) PROVE LockInv'
  BY <1>22 DEF Publish, PublishUnless, PlatformChanged
<1>23. ASSUME NEW t \in Tasks, OwnerReturn(t) PROVE LockInv'
  BY <1>23 DEF OwnerReturn, ReturnWaking, AttemptFailed, RetryIf
<1>24. ASSUME NEW t \in Tasks, Release(t) PROVE LockInv'
  BY <1>24 DEF Release
<1>25. ASSUME NEW t \in Tasks, OpenChannel(t) PROVE LockInv'
  BY <1>25 DEF OpenChannel
<1>26. ASSUME NEW t \in Tasks, ChannelOpened(t) PROVE LockInv'
  BY <1>26 DEF ChannelOpened
<1>27. ASSUME NEW t \in Tasks, OperationDone(t) PROVE LockInv'
  BY <1>27 DEF OperationDone
<1>28. ASSUME NEW t \in Tasks, InvalidateAfterOperation(t) PROVE LockInv'
  BY <1>28 DEF InvalidateAfterOperation, Invalidate, RemoveRouteIf
<1>29. ASSUME NEW t \in Tasks, ProbeFailed(t) PROVE LockInv'
  BY <1>29 DEF ProbeFailed
<1>30. ASSUME NEW t \in Tasks, DialFails(t) PROVE LockInv'
  BY <1>30 DEF DialFails
<1>31. ASSUME NEW t \in Tasks, ChannelRefused(t) PROVE LockInv'
  BY <1>31 DEF ChannelRefused, OperationFault
<1>32. ASSUME NEW t \in Tasks, OperationFailed(t) PROVE LockInv'
  BY <1>32 DEF OperationFailed, OperationFault
<1>33. ASSUME NEW t \in Tasks, BudgetElapses(t) PROVE LockInv'
  BY <1>33 DEF BudgetElapses, DropCall, DropCallReleasing
<1>34. ASSUME NEW t \in Tasks, ShutdownCancels(t) PROVE LockInv'
  BY <1>34 DEF ShutdownCancels, DropCall, DropCallReleasing
<1>35. CASE TransportDies
  BY <1>35 DEF TransportDies
<1>36. CASE ProbeExpires
  BY <1>36 DEF ProbeExpires
<1>37. CASE CloseBegins
  BY <1>37 DEF CloseBegins
<1>38. CASE CloseTakesRoute
  BY <1>38 DEF CloseTakesRoute
<1>39. CASE UNCHANGED vars
  BY <1>39
<1> QED
  BY <1>1, <1>2, <1>3, <1>4, <1>5, <1>6, <1>7, <1>8, <1>9, <1>10, <1>11, <1>12, <1>13,
     <1>14, <1>15, <1>16, <1>17, <1>18, <1>19, <1>20, <1>21, <1>22, <1>23, <1>24, <1>25,
     <1>26, <1>27, <1>28, <1>29, <1>30, <1>31, <1>32, <1>33, <1>34, <1>35, <1>36, <1>37,
     <1>38, <1>39
  DEF Next, Progress, Ensuring, Connecting, Operating, Failing, Closing, Stopped

(* The connect flag and its owner change together. *)
LEMMA OwnerStep ==
    ASSUME TypeOK, OneConnectOwner, [Next]_vars
    PROVE  OneConnectOwner'
<1> USE TransportAssumption DEF OneConnectOwner, TypeOK, RouteType, vars,
      managerVars, taskVars, auxVars, Goto, Capture, Connected, Live,
      LiveGeneration, ShuttingDown, TokenCancelled, SessionFree, MayFail,
      Fault, Fresh, FirstDial, NoRoute, Pcs, CallPcs, OwnerPcs, DialPcs,
      OpPcs, ProbePcs, Platforms, NoPlatform
<1>1. ASSUME NEW t \in Tasks, EnsureConnected(t) PROVE OneConnectOwner'
  BY <1>1 DEF EnsureConnected
<1>2. ASSUME NEW t \in Tasks, EnsureLook(t) PROVE OneConnectOwner'
  BY <1>2 DEF EnsureLook, EnsureLookReusing
<1>3. ASSUME NEW t \in Tasks, InvalidateClosed(t) PROVE OneConnectOwner'
  BY <1>3 DEF InvalidateClosed, Invalidate, RemoveRouteIf
<1>4. ASSUME NEW t \in Tasks, CheckFresh(t) PROVE OneConnectOwner'
  BY <1>4 DEF CheckFresh
<1>5. ASSUME NEW t \in Tasks, LockProbe(t) PROVE OneConnectOwner'
  BY <1>5 DEF LockProbe
<1>6. ASSUME NEW t \in Tasks, CheckFreshLocked(t) PROVE OneConnectOwner'
  BY <1>6 DEF CheckFreshLocked
<1>7. ASSUME NEW t \in Tasks, ProbeBegin(t) PROVE OneConnectOwner'
  BY <1>7 DEF ProbeBegin
<1>8. ASSUME NEW t \in Tasks, ProbeAnswered(t) PROVE OneConnectOwner'
  BY <1>8 DEF ProbeAnswered
<1>9. ASSUME NEW t \in Tasks, InvalidateProbed(t) PROVE OneConnectOwner'
  BY <1>9 DEF InvalidateProbed, Invalidate, RemoveRouteIf
<1>10. ASSUME NEW t \in Tasks, Recheck(t) PROVE OneConnectOwner'
  BY <1>10 DEF Recheck
<1>11. ASSUME NEW t \in Tasks, MarkProbeOk(t) PROVE OneConnectOwner'
  BY <1>11 DEF MarkProbeOk, MarkProbeOkIf
<1>12. ASSUME NEW t \in Tasks, ConnectCheck(t) PROVE OneConnectOwner'
  BY <1>12 DEF ConnectCheck, AttemptFailed, RetryIf
<1>13. ASSUME NEW t \in Tasks, RegisterWaiter(t) PROVE OneConnectOwner'
  BY <1>13 DEF RegisterWaiter
<1>14. ASSUME NEW t \in Tasks, ClaimConnect(t) PROVE OneConnectOwner'
  BY <1>14 DEF ClaimConnect
<1>15. ASSUME NEW t \in Tasks, WaiterWakes(t) PROVE OneConnectOwner'
  BY <1>15 DEF WaiterWakes, AttemptFailed, RetryIf
<1>16. ASSUME NEW t \in Tasks, OwnerCheck(t) PROVE OneConnectOwner'
  BY <1>16 DEF OwnerCheck
<1>17. ASSUME NEW t \in Tasks, OwnerStale(t) PROVE OneConnectOwner'
  BY <1>17 DEF OwnerStale, NameStaleIf
<1>18. ASSUME NEW t \in Tasks, OwnerInvalidate(t) PROVE OneConnectOwner'
  BY <1>18 DEF OwnerInvalidate, Invalidate, RemoveRouteIf
<1>19. ASSUME NEW t \in Tasks, DialJumpStage(t) PROVE OneConnectOwner'
  BY <1>19 DEF DialJumpStage
<1>20. ASSUME NEW t \in Tasks, NEW p \in Platforms, DialTarget(t, p) PROVE OneConnectOwner'
  BY <1>20 DEF DialTarget
<1>21. ASSUME NEW t \in Tasks, AuthenticateTarget(t) PROVE OneConnectOwner'
  BY <1>21 DEF AuthenticateTarget
<1>22. ASSUME NEW t \in Tasks, Publish(t) PROVE OneConnectOwner'
  BY <1>22 DEF Publish, PublishUnless, PlatformChanged
<1>23. ASSUME NEW t \in Tasks, OwnerReturn(t) PROVE OneConnectOwner'
  BY <1>23 DEF OwnerReturn, ReturnWaking, AttemptFailed, RetryIf
<1>24. ASSUME NEW t \in Tasks, Release(t) PROVE OneConnectOwner'
  BY <1>24 DEF Release
<1>25. ASSUME NEW t \in Tasks, OpenChannel(t) PROVE OneConnectOwner'
  BY <1>25 DEF OpenChannel
<1>26. ASSUME NEW t \in Tasks, ChannelOpened(t) PROVE OneConnectOwner'
  BY <1>26 DEF ChannelOpened
<1>27. ASSUME NEW t \in Tasks, OperationDone(t) PROVE OneConnectOwner'
  BY <1>27 DEF OperationDone
<1>28. ASSUME NEW t \in Tasks, InvalidateAfterOperation(t) PROVE OneConnectOwner'
  BY <1>28 DEF InvalidateAfterOperation, Invalidate, RemoveRouteIf
<1>29. ASSUME NEW t \in Tasks, ProbeFailed(t) PROVE OneConnectOwner'
  BY <1>29 DEF ProbeFailed
<1>30. ASSUME NEW t \in Tasks, DialFails(t) PROVE OneConnectOwner'
  BY <1>30 DEF DialFails
<1>31. ASSUME NEW t \in Tasks, ChannelRefused(t) PROVE OneConnectOwner'
  BY <1>31 DEF ChannelRefused, OperationFault
<1>32. ASSUME NEW t \in Tasks, OperationFailed(t) PROVE OneConnectOwner'
  BY <1>32 DEF OperationFailed, OperationFault
<1>33. ASSUME NEW t \in Tasks, BudgetElapses(t) PROVE OneConnectOwner'
  <2>1. CASE pc[t] \in OwnerPcs
    BY <1>33, <2>1 DEF BudgetElapses, DropCall, DropCallReleasing
  <2>2. CASE pc[t] \notin OwnerPcs
    BY <1>33, <2>2 DEF BudgetElapses, DropCall, DropCallReleasing
  <2> QED
    BY <2>1, <2>2
<1>34. ASSUME NEW t \in Tasks, ShutdownCancels(t) PROVE OneConnectOwner'
  <2>1. CASE pc[t] \in OwnerPcs
    BY <1>34, <2>1 DEF ShutdownCancels, DropCall, DropCallReleasing
  <2>2. CASE pc[t] \notin OwnerPcs
    BY <1>34, <2>2 DEF ShutdownCancels, DropCall, DropCallReleasing
  <2> QED
    BY <2>1, <2>2
<1>35. CASE TransportDies
  BY <1>35 DEF TransportDies
<1>36. CASE ProbeExpires
  BY <1>36 DEF ProbeExpires
<1>37. CASE CloseBegins
  BY <1>37 DEF CloseBegins
<1>38. CASE CloseTakesRoute
  BY <1>38 DEF CloseTakesRoute
<1>39. CASE UNCHANGED vars
  BY <1>39
<1> QED
  BY <1>1, <1>2, <1>3, <1>4, <1>5, <1>6, <1>7, <1>8, <1>9, <1>10, <1>11, <1>12, <1>13,
     <1>14, <1>15, <1>16, <1>17, <1>18, <1>19, <1>20, <1>21, <1>22, <1>23, <1>24, <1>25,
     <1>26, <1>27, <1>28, <1>29, <1>30, <1>31, <1>32, <1>33, <1>34, <1>35, <1>36, <1>37,
     <1>38, <1>39
  DEF Next, Progress, Ensuring, Connecting, Operating, Failing, Closing, Stopped

(* Generations keep their order. *)
LEMMA GenerationStep ==
    ASSUME TypeOK, OneConnectOwner, SlotInv, GenerationInv, [Next]_vars
    PROVE  GenerationInv'
<1> USE TransportAssumption DEF GenerationInv, OneConnectOwner, SlotInv,
      TypeOK, RouteType, vars, managerVars, taskVars, auxVars, Goto, Capture,
      Connected, Live, LiveGeneration, ShuttingDown, TokenCancelled,
      SessionFree, MayFail, Fault, Fresh, FirstDial, NoRoute, Pcs, CallPcs,
      OwnerPcs, DialPcs, OpPcs, ProbePcs, Platforms, NoPlatform
<1>1. ASSUME NEW t \in Tasks, EnsureConnected(t) PROVE GenerationInv'
  BY <1>1 DEF EnsureConnected
<1>2. ASSUME NEW t \in Tasks, EnsureLook(t) PROVE GenerationInv'
  BY <1>2 DEF EnsureLook, EnsureLookReusing
<1>3. ASSUME NEW t \in Tasks, InvalidateClosed(t) PROVE GenerationInv'
  BY <1>3 DEF InvalidateClosed, Invalidate, RemoveRouteIf
<1>4. ASSUME NEW t \in Tasks, CheckFresh(t) PROVE GenerationInv'
  BY <1>4 DEF CheckFresh
<1>5. ASSUME NEW t \in Tasks, LockProbe(t) PROVE GenerationInv'
  BY <1>5 DEF LockProbe
<1>6. ASSUME NEW t \in Tasks, CheckFreshLocked(t) PROVE GenerationInv'
  BY <1>6 DEF CheckFreshLocked
<1>7. ASSUME NEW t \in Tasks, ProbeBegin(t) PROVE GenerationInv'
  BY <1>7 DEF ProbeBegin
<1>8. ASSUME NEW t \in Tasks, ProbeAnswered(t) PROVE GenerationInv'
  BY <1>8 DEF ProbeAnswered
<1>9. ASSUME NEW t \in Tasks, InvalidateProbed(t) PROVE GenerationInv'
  BY <1>9 DEF InvalidateProbed, Invalidate, RemoveRouteIf
<1>10. ASSUME NEW t \in Tasks, Recheck(t) PROVE GenerationInv'
  BY <1>10 DEF Recheck
<1>11. ASSUME NEW t \in Tasks, MarkProbeOk(t) PROVE GenerationInv'
  BY <1>11 DEF MarkProbeOk, MarkProbeOkIf
<1>12. ASSUME NEW t \in Tasks, ConnectCheck(t) PROVE GenerationInv'
  BY <1>12 DEF ConnectCheck, AttemptFailed, RetryIf
<1>13. ASSUME NEW t \in Tasks, RegisterWaiter(t) PROVE GenerationInv'
  BY <1>13 DEF RegisterWaiter
<1>14. ASSUME NEW t \in Tasks, ClaimConnect(t) PROVE GenerationInv'
  BY <1>14 DEF ClaimConnect
<1>15. ASSUME NEW t \in Tasks, WaiterWakes(t) PROVE GenerationInv'
  BY <1>15 DEF WaiterWakes, AttemptFailed, RetryIf
<1>16. ASSUME NEW t \in Tasks, OwnerCheck(t) PROVE GenerationInv'
  BY <1>16 DEF OwnerCheck
<1>17. ASSUME NEW t \in Tasks, OwnerStale(t) PROVE GenerationInv'
  BY <1>17 DEF OwnerStale, NameStaleIf
<1>18. ASSUME NEW t \in Tasks, OwnerInvalidate(t) PROVE GenerationInv'
  BY <1>18 DEF OwnerInvalidate, Invalidate, RemoveRouteIf
<1>19. ASSUME NEW t \in Tasks, DialJumpStage(t) PROVE GenerationInv'
  BY <1>19 DEF DialJumpStage
<1>20. ASSUME NEW t \in Tasks, NEW p \in Platforms, DialTarget(t, p) PROVE GenerationInv'
  BY <1>20 DEF DialTarget
<1>21. ASSUME NEW t \in Tasks, AuthenticateTarget(t) PROVE GenerationInv'
  BY <1>21 DEF AuthenticateTarget
<1>22. ASSUME NEW t \in Tasks, Publish(t) PROVE GenerationInv'
  BY <1>22 DEF Publish, PublishUnless, PlatformChanged
<1>23. ASSUME NEW t \in Tasks, OwnerReturn(t) PROVE GenerationInv'
  BY <1>23 DEF OwnerReturn, ReturnWaking, AttemptFailed, RetryIf
<1>24. ASSUME NEW t \in Tasks, Release(t) PROVE GenerationInv'
  BY <1>24 DEF Release
<1>25. ASSUME NEW t \in Tasks, OpenChannel(t) PROVE GenerationInv'
  BY <1>25 DEF OpenChannel
<1>26. ASSUME NEW t \in Tasks, ChannelOpened(t) PROVE GenerationInv'
  BY <1>26 DEF ChannelOpened
<1>27. ASSUME NEW t \in Tasks, OperationDone(t) PROVE GenerationInv'
  BY <1>27 DEF OperationDone
<1>28. ASSUME NEW t \in Tasks, InvalidateAfterOperation(t) PROVE GenerationInv'
  BY <1>28 DEF InvalidateAfterOperation, Invalidate, RemoveRouteIf
<1>29. ASSUME NEW t \in Tasks, ProbeFailed(t) PROVE GenerationInv'
  BY <1>29 DEF ProbeFailed
<1>30. ASSUME NEW t \in Tasks, DialFails(t) PROVE GenerationInv'
  BY <1>30 DEF DialFails
<1>31. ASSUME NEW t \in Tasks, ChannelRefused(t) PROVE GenerationInv'
  BY <1>31 DEF ChannelRefused, OperationFault
<1>32. ASSUME NEW t \in Tasks, OperationFailed(t) PROVE GenerationInv'
  BY <1>32 DEF OperationFailed, OperationFault
<1>33. ASSUME NEW t \in Tasks, BudgetElapses(t) PROVE GenerationInv'
  BY <1>33 DEF BudgetElapses, DropCall, DropCallReleasing
<1>34. ASSUME NEW t \in Tasks, ShutdownCancels(t) PROVE GenerationInv'
  BY <1>34 DEF ShutdownCancels, DropCall, DropCallReleasing
<1>35. CASE TransportDies
  BY <1>35 DEF TransportDies
<1>36. CASE ProbeExpires
  BY <1>36 DEF ProbeExpires
<1>37. CASE CloseBegins
  BY <1>37 DEF CloseBegins
<1>38. CASE CloseTakesRoute
  BY <1>38 DEF CloseTakesRoute
<1>39. CASE UNCHANGED vars
  BY <1>39
<1> QED
  BY <1>1, <1>2, <1>3, <1>4, <1>5, <1>6, <1>7, <1>8, <1>9, <1>10, <1>11, <1>12, <1>13,
     <1>14, <1>15, <1>16, <1>17, <1>18, <1>19, <1>20, <1>21, <1>22, <1>23, <1>24, <1>25,
     <1>26, <1>27, <1>28, <1>29, <1>30, <1>31, <1>32, <1>33, <1>34, <1>35, <1>36, <1>37,
     <1>38, <1>39
  DEF Next, Progress, Ensuring, Connecting, Operating, Failing, Closing, Stopped

(* Nobody but the owner fills the slot, and the owner finds it empty. *)
LEMMA SlotStep ==
    ASSUME TypeOK, OneConnectOwner, GenerationInv, SlotInv, [Next]_vars
    PROVE  SlotInv'
<1> USE TransportAssumption DEF SlotInv, OneConnectOwner, GenerationInv,
      TypeOK, RouteType, vars, managerVars, taskVars, auxVars, Goto, Capture,
      Connected, Live, LiveGeneration, ShuttingDown, TokenCancelled,
      SessionFree, MayFail, Fault, Fresh, FirstDial, NoRoute, Pcs, CallPcs,
      OwnerPcs, DialPcs, OpPcs, ProbePcs, Platforms, NoPlatform
<1>1. ASSUME NEW t \in Tasks, EnsureConnected(t) PROVE SlotInv'
  BY <1>1 DEF EnsureConnected
<1>2. ASSUME NEW t \in Tasks, EnsureLook(t) PROVE SlotInv'
  BY <1>2 DEF EnsureLook, EnsureLookReusing
<1>3. ASSUME NEW t \in Tasks, InvalidateClosed(t) PROVE SlotInv'
  BY <1>3 DEF InvalidateClosed, Invalidate, RemoveRouteIf
<1>4. ASSUME NEW t \in Tasks, CheckFresh(t) PROVE SlotInv'
  BY <1>4 DEF CheckFresh
<1>5. ASSUME NEW t \in Tasks, LockProbe(t) PROVE SlotInv'
  BY <1>5 DEF LockProbe
<1>6. ASSUME NEW t \in Tasks, CheckFreshLocked(t) PROVE SlotInv'
  BY <1>6 DEF CheckFreshLocked
<1>7. ASSUME NEW t \in Tasks, ProbeBegin(t) PROVE SlotInv'
  BY <1>7 DEF ProbeBegin
<1>8. ASSUME NEW t \in Tasks, ProbeAnswered(t) PROVE SlotInv'
  BY <1>8 DEF ProbeAnswered
<1>9. ASSUME NEW t \in Tasks, InvalidateProbed(t) PROVE SlotInv'
  BY <1>9 DEF InvalidateProbed, Invalidate, RemoveRouteIf
<1>10. ASSUME NEW t \in Tasks, Recheck(t) PROVE SlotInv'
  BY <1>10 DEF Recheck
<1>11. ASSUME NEW t \in Tasks, MarkProbeOk(t) PROVE SlotInv'
  BY <1>11 DEF MarkProbeOk, MarkProbeOkIf
<1>12. ASSUME NEW t \in Tasks, ConnectCheck(t) PROVE SlotInv'
  BY <1>12 DEF ConnectCheck, AttemptFailed, RetryIf
<1>13. ASSUME NEW t \in Tasks, RegisterWaiter(t) PROVE SlotInv'
  BY <1>13 DEF RegisterWaiter
<1>14. ASSUME NEW t \in Tasks, ClaimConnect(t) PROVE SlotInv'
  BY <1>14 DEF ClaimConnect
<1>15. ASSUME NEW t \in Tasks, WaiterWakes(t) PROVE SlotInv'
  BY <1>15 DEF WaiterWakes, AttemptFailed, RetryIf
<1>16. ASSUME NEW t \in Tasks, OwnerCheck(t) PROVE SlotInv'
  BY <1>16 DEF OwnerCheck
<1>17. ASSUME NEW t \in Tasks, OwnerStale(t) PROVE SlotInv'
  BY <1>17 DEF OwnerStale, NameStaleIf
<1>18. ASSUME NEW t \in Tasks, OwnerInvalidate(t) PROVE SlotInv'
  BY <1>18 DEF OwnerInvalidate, Invalidate, RemoveRouteIf
<1>19. ASSUME NEW t \in Tasks, DialJumpStage(t) PROVE SlotInv'
  BY <1>19 DEF DialJumpStage
<1>20. ASSUME NEW t \in Tasks, NEW p \in Platforms, DialTarget(t, p) PROVE SlotInv'
  BY <1>20 DEF DialTarget
<1>21. ASSUME NEW t \in Tasks, AuthenticateTarget(t) PROVE SlotInv'
  BY <1>21 DEF AuthenticateTarget
<1>22. ASSUME NEW t \in Tasks, Publish(t) PROVE SlotInv'
  BY <1>22 DEF Publish, PublishUnless, PlatformChanged
<1>23. ASSUME NEW t \in Tasks, OwnerReturn(t) PROVE SlotInv'
  BY <1>23 DEF OwnerReturn, ReturnWaking, AttemptFailed, RetryIf
<1>24. ASSUME NEW t \in Tasks, Release(t) PROVE SlotInv'
  BY <1>24 DEF Release
<1>25. ASSUME NEW t \in Tasks, OpenChannel(t) PROVE SlotInv'
  BY <1>25 DEF OpenChannel
<1>26. ASSUME NEW t \in Tasks, ChannelOpened(t) PROVE SlotInv'
  BY <1>26 DEF ChannelOpened
<1>27. ASSUME NEW t \in Tasks, OperationDone(t) PROVE SlotInv'
  BY <1>27 DEF OperationDone
<1>28. ASSUME NEW t \in Tasks, InvalidateAfterOperation(t) PROVE SlotInv'
  BY <1>28 DEF InvalidateAfterOperation, Invalidate, RemoveRouteIf
<1>29. ASSUME NEW t \in Tasks, ProbeFailed(t) PROVE SlotInv'
  BY <1>29 DEF ProbeFailed
<1>30. ASSUME NEW t \in Tasks, DialFails(t) PROVE SlotInv'
  BY <1>30 DEF DialFails
<1>31. ASSUME NEW t \in Tasks, ChannelRefused(t) PROVE SlotInv'
  BY <1>31 DEF ChannelRefused, OperationFault
<1>32. ASSUME NEW t \in Tasks, OperationFailed(t) PROVE SlotInv'
  BY <1>32 DEF OperationFailed, OperationFault
<1>33. ASSUME NEW t \in Tasks, BudgetElapses(t) PROVE SlotInv'
  BY <1>33 DEF BudgetElapses, DropCall, DropCallReleasing
<1>34. ASSUME NEW t \in Tasks, ShutdownCancels(t) PROVE SlotInv'
  BY <1>34 DEF ShutdownCancels, DropCall, DropCallReleasing
<1>35. CASE TransportDies
  BY <1>35 DEF TransportDies
<1>36. CASE ProbeExpires
  BY <1>36 DEF ProbeExpires
<1>37. CASE CloseBegins
  BY <1>37 DEF CloseBegins
<1>38. CASE CloseTakesRoute
  BY <1>38 DEF CloseTakesRoute
<1>39. CASE UNCHANGED vars
  BY <1>39
<1> QED
  BY <1>1, <1>2, <1>3, <1>4, <1>5, <1>6, <1>7, <1>8, <1>9, <1>10, <1>11, <1>12, <1>13,
     <1>14, <1>15, <1>16, <1>17, <1>18, <1>19, <1>20, <1>21, <1>22, <1>23, <1>24, <1>25,
     <1>26, <1>27, <1>28, <1>29, <1>30, <1>31, <1>32, <1>33, <1>34, <1>35, <1>36, <1>37,
     <1>38, <1>39
  DEF Next, Progress, Ensuring, Connecting, Operating, Failing, Closing, Stopped

(* Publication respects the shutdown flag. *)
LEMMA CloseStep ==
    ASSUME TypeOK, NoRouteAfterClose, [Next]_vars
    PROVE  NoRouteAfterClose'
<1> USE TransportAssumption DEF NoRouteAfterClose, TypeOK, RouteType, vars,
      managerVars, taskVars, auxVars, Goto, Capture, Connected, Live,
      LiveGeneration, ShuttingDown, TokenCancelled, SessionFree, MayFail,
      Fault, Fresh, FirstDial, NoRoute, Pcs, CallPcs, OwnerPcs, DialPcs,
      OpPcs, ProbePcs, Platforms, NoPlatform
<1>1. ASSUME NEW t \in Tasks, EnsureConnected(t) PROVE NoRouteAfterClose'
  BY <1>1 DEF EnsureConnected
<1>2. ASSUME NEW t \in Tasks, EnsureLook(t) PROVE NoRouteAfterClose'
  BY <1>2 DEF EnsureLook, EnsureLookReusing
<1>3. ASSUME NEW t \in Tasks, InvalidateClosed(t) PROVE NoRouteAfterClose'
  BY <1>3 DEF InvalidateClosed, Invalidate, RemoveRouteIf
<1>4. ASSUME NEW t \in Tasks, CheckFresh(t) PROVE NoRouteAfterClose'
  BY <1>4 DEF CheckFresh
<1>5. ASSUME NEW t \in Tasks, LockProbe(t) PROVE NoRouteAfterClose'
  BY <1>5 DEF LockProbe
<1>6. ASSUME NEW t \in Tasks, CheckFreshLocked(t) PROVE NoRouteAfterClose'
  BY <1>6 DEF CheckFreshLocked
<1>7. ASSUME NEW t \in Tasks, ProbeBegin(t) PROVE NoRouteAfterClose'
  BY <1>7 DEF ProbeBegin
<1>8. ASSUME NEW t \in Tasks, ProbeAnswered(t) PROVE NoRouteAfterClose'
  BY <1>8 DEF ProbeAnswered
<1>9. ASSUME NEW t \in Tasks, InvalidateProbed(t) PROVE NoRouteAfterClose'
  BY <1>9 DEF InvalidateProbed, Invalidate, RemoveRouteIf
<1>10. ASSUME NEW t \in Tasks, Recheck(t) PROVE NoRouteAfterClose'
  BY <1>10 DEF Recheck
<1>11. ASSUME NEW t \in Tasks, MarkProbeOk(t) PROVE NoRouteAfterClose'
  BY <1>11 DEF MarkProbeOk, MarkProbeOkIf
<1>12. ASSUME NEW t \in Tasks, ConnectCheck(t) PROVE NoRouteAfterClose'
  BY <1>12 DEF ConnectCheck, AttemptFailed, RetryIf
<1>13. ASSUME NEW t \in Tasks, RegisterWaiter(t) PROVE NoRouteAfterClose'
  BY <1>13 DEF RegisterWaiter
<1>14. ASSUME NEW t \in Tasks, ClaimConnect(t) PROVE NoRouteAfterClose'
  BY <1>14 DEF ClaimConnect
<1>15. ASSUME NEW t \in Tasks, WaiterWakes(t) PROVE NoRouteAfterClose'
  BY <1>15 DEF WaiterWakes, AttemptFailed, RetryIf
<1>16. ASSUME NEW t \in Tasks, OwnerCheck(t) PROVE NoRouteAfterClose'
  BY <1>16 DEF OwnerCheck
<1>17. ASSUME NEW t \in Tasks, OwnerStale(t) PROVE NoRouteAfterClose'
  BY <1>17 DEF OwnerStale, NameStaleIf
<1>18. ASSUME NEW t \in Tasks, OwnerInvalidate(t) PROVE NoRouteAfterClose'
  BY <1>18 DEF OwnerInvalidate, Invalidate, RemoveRouteIf
<1>19. ASSUME NEW t \in Tasks, DialJumpStage(t) PROVE NoRouteAfterClose'
  BY <1>19 DEF DialJumpStage
<1>20. ASSUME NEW t \in Tasks, NEW p \in Platforms, DialTarget(t, p) PROVE NoRouteAfterClose'
  BY <1>20 DEF DialTarget
<1>21. ASSUME NEW t \in Tasks, AuthenticateTarget(t) PROVE NoRouteAfterClose'
  BY <1>21 DEF AuthenticateTarget
<1>22. ASSUME NEW t \in Tasks, Publish(t) PROVE NoRouteAfterClose'
  BY <1>22 DEF Publish, PublishUnless, PlatformChanged
<1>23. ASSUME NEW t \in Tasks, OwnerReturn(t) PROVE NoRouteAfterClose'
  BY <1>23 DEF OwnerReturn, ReturnWaking, AttemptFailed, RetryIf
<1>24. ASSUME NEW t \in Tasks, Release(t) PROVE NoRouteAfterClose'
  BY <1>24 DEF Release
<1>25. ASSUME NEW t \in Tasks, OpenChannel(t) PROVE NoRouteAfterClose'
  BY <1>25 DEF OpenChannel
<1>26. ASSUME NEW t \in Tasks, ChannelOpened(t) PROVE NoRouteAfterClose'
  BY <1>26 DEF ChannelOpened
<1>27. ASSUME NEW t \in Tasks, OperationDone(t) PROVE NoRouteAfterClose'
  BY <1>27 DEF OperationDone
<1>28. ASSUME NEW t \in Tasks, InvalidateAfterOperation(t) PROVE NoRouteAfterClose'
  BY <1>28 DEF InvalidateAfterOperation, Invalidate, RemoveRouteIf
<1>29. ASSUME NEW t \in Tasks, ProbeFailed(t) PROVE NoRouteAfterClose'
  BY <1>29 DEF ProbeFailed
<1>30. ASSUME NEW t \in Tasks, DialFails(t) PROVE NoRouteAfterClose'
  BY <1>30 DEF DialFails
<1>31. ASSUME NEW t \in Tasks, ChannelRefused(t) PROVE NoRouteAfterClose'
  BY <1>31 DEF ChannelRefused, OperationFault
<1>32. ASSUME NEW t \in Tasks, OperationFailed(t) PROVE NoRouteAfterClose'
  BY <1>32 DEF OperationFailed, OperationFault
<1>33. ASSUME NEW t \in Tasks, BudgetElapses(t) PROVE NoRouteAfterClose'
  BY <1>33 DEF BudgetElapses, DropCall, DropCallReleasing
<1>34. ASSUME NEW t \in Tasks, ShutdownCancels(t) PROVE NoRouteAfterClose'
  BY <1>34 DEF ShutdownCancels, DropCall, DropCallReleasing
<1>35. CASE TransportDies
  BY <1>35 DEF TransportDies
<1>36. CASE ProbeExpires
  BY <1>36 DEF ProbeExpires
<1>37. CASE CloseBegins
  BY <1>37 DEF CloseBegins
<1>38. CASE CloseTakesRoute
  BY <1>38 DEF CloseTakesRoute
<1>39. CASE UNCHANGED vars
  BY <1>39
<1> QED
  BY <1>1, <1>2, <1>3, <1>4, <1>5, <1>6, <1>7, <1>8, <1>9, <1>10, <1>11, <1>12, <1>13,
     <1>14, <1>15, <1>16, <1>17, <1>18, <1>19, <1>20, <1>21, <1>22, <1>23, <1>24, <1>25,
     <1>26, <1>27, <1>28, <1>29, <1>30, <1>31, <1>32, <1>33, <1>34, <1>35, <1>36, <1>37,
     <1>38, <1>39
  DEF Next, Progress, Ensuring, Connecting, Operating, Failing, Closing, Stopped

(* Publication respects the frozen platform. *)
LEMMA PlatformStep ==
    ASSUME TypeOK, PlatformInv, [Next]_vars
    PROVE  PlatformInv'
<1> USE TransportAssumption DEF PlatformInv, RouteOnFrozenPlatform, TypeOK,
      RouteType, vars, managerVars, taskVars, auxVars, Goto, Capture,
      Connected, Live, LiveGeneration, ShuttingDown, TokenCancelled,
      SessionFree, MayFail, Fault, Fresh, FirstDial, NoRoute, Pcs, CallPcs,
      OwnerPcs, DialPcs, OpPcs, ProbePcs, Platforms, NoPlatform
<1>1. ASSUME NEW t \in Tasks, EnsureConnected(t) PROVE PlatformInv'
  BY <1>1 DEF EnsureConnected
<1>2. ASSUME NEW t \in Tasks, EnsureLook(t) PROVE PlatformInv'
  BY <1>2 DEF EnsureLook, EnsureLookReusing
<1>3. ASSUME NEW t \in Tasks, InvalidateClosed(t) PROVE PlatformInv'
  BY <1>3 DEF InvalidateClosed, Invalidate, RemoveRouteIf
<1>4. ASSUME NEW t \in Tasks, CheckFresh(t) PROVE PlatformInv'
  BY <1>4 DEF CheckFresh
<1>5. ASSUME NEW t \in Tasks, LockProbe(t) PROVE PlatformInv'
  BY <1>5 DEF LockProbe
<1>6. ASSUME NEW t \in Tasks, CheckFreshLocked(t) PROVE PlatformInv'
  BY <1>6 DEF CheckFreshLocked
<1>7. ASSUME NEW t \in Tasks, ProbeBegin(t) PROVE PlatformInv'
  BY <1>7 DEF ProbeBegin
<1>8. ASSUME NEW t \in Tasks, ProbeAnswered(t) PROVE PlatformInv'
  BY <1>8 DEF ProbeAnswered
<1>9. ASSUME NEW t \in Tasks, InvalidateProbed(t) PROVE PlatformInv'
  BY <1>9 DEF InvalidateProbed, Invalidate, RemoveRouteIf
<1>10. ASSUME NEW t \in Tasks, Recheck(t) PROVE PlatformInv'
  BY <1>10 DEF Recheck
<1>11. ASSUME NEW t \in Tasks, MarkProbeOk(t) PROVE PlatformInv'
  BY <1>11 DEF MarkProbeOk, MarkProbeOkIf
<1>12. ASSUME NEW t \in Tasks, ConnectCheck(t) PROVE PlatformInv'
  BY <1>12 DEF ConnectCheck, AttemptFailed, RetryIf
<1>13. ASSUME NEW t \in Tasks, RegisterWaiter(t) PROVE PlatformInv'
  BY <1>13 DEF RegisterWaiter
<1>14. ASSUME NEW t \in Tasks, ClaimConnect(t) PROVE PlatformInv'
  BY <1>14 DEF ClaimConnect
<1>15. ASSUME NEW t \in Tasks, WaiterWakes(t) PROVE PlatformInv'
  BY <1>15 DEF WaiterWakes, AttemptFailed, RetryIf
<1>16. ASSUME NEW t \in Tasks, OwnerCheck(t) PROVE PlatformInv'
  BY <1>16 DEF OwnerCheck
<1>17. ASSUME NEW t \in Tasks, OwnerStale(t) PROVE PlatformInv'
  BY <1>17 DEF OwnerStale, NameStaleIf
<1>18. ASSUME NEW t \in Tasks, OwnerInvalidate(t) PROVE PlatformInv'
  BY <1>18 DEF OwnerInvalidate, Invalidate, RemoveRouteIf
<1>19. ASSUME NEW t \in Tasks, DialJumpStage(t) PROVE PlatformInv'
  BY <1>19 DEF DialJumpStage
<1>20. ASSUME NEW t \in Tasks, NEW p \in Platforms, DialTarget(t, p) PROVE PlatformInv'
  BY <1>20 DEF DialTarget
<1>21. ASSUME NEW t \in Tasks, AuthenticateTarget(t) PROVE PlatformInv'
  BY <1>21 DEF AuthenticateTarget
<1>22. ASSUME NEW t \in Tasks, Publish(t) PROVE PlatformInv'
  BY <1>22 DEF Publish, PublishUnless, PlatformChanged
<1>23. ASSUME NEW t \in Tasks, OwnerReturn(t) PROVE PlatformInv'
  BY <1>23 DEF OwnerReturn, ReturnWaking, AttemptFailed, RetryIf
<1>24. ASSUME NEW t \in Tasks, Release(t) PROVE PlatformInv'
  BY <1>24 DEF Release
<1>25. ASSUME NEW t \in Tasks, OpenChannel(t) PROVE PlatformInv'
  BY <1>25 DEF OpenChannel
<1>26. ASSUME NEW t \in Tasks, ChannelOpened(t) PROVE PlatformInv'
  BY <1>26 DEF ChannelOpened
<1>27. ASSUME NEW t \in Tasks, OperationDone(t) PROVE PlatformInv'
  BY <1>27 DEF OperationDone
<1>28. ASSUME NEW t \in Tasks, InvalidateAfterOperation(t) PROVE PlatformInv'
  BY <1>28 DEF InvalidateAfterOperation, Invalidate, RemoveRouteIf
<1>29. ASSUME NEW t \in Tasks, ProbeFailed(t) PROVE PlatformInv'
  BY <1>29 DEF ProbeFailed
<1>30. ASSUME NEW t \in Tasks, DialFails(t) PROVE PlatformInv'
  BY <1>30 DEF DialFails
<1>31. ASSUME NEW t \in Tasks, ChannelRefused(t) PROVE PlatformInv'
  BY <1>31 DEF ChannelRefused, OperationFault
<1>32. ASSUME NEW t \in Tasks, OperationFailed(t) PROVE PlatformInv'
  BY <1>32 DEF OperationFailed, OperationFault
<1>33. ASSUME NEW t \in Tasks, BudgetElapses(t) PROVE PlatformInv'
  BY <1>33 DEF BudgetElapses, DropCall, DropCallReleasing
<1>34. ASSUME NEW t \in Tasks, ShutdownCancels(t) PROVE PlatformInv'
  BY <1>34 DEF ShutdownCancels, DropCall, DropCallReleasing
<1>35. CASE TransportDies
  BY <1>35 DEF TransportDies
<1>36. CASE ProbeExpires
  BY <1>36 DEF ProbeExpires
<1>37. CASE CloseBegins
  BY <1>37 DEF CloseBegins
<1>38. CASE CloseTakesRoute
  BY <1>38 DEF CloseTakesRoute
<1>39. CASE UNCHANGED vars
  BY <1>39
<1> QED
  BY <1>1, <1>2, <1>3, <1>4, <1>5, <1>6, <1>7, <1>8, <1>9, <1>10, <1>11, <1>12, <1>13,
     <1>14, <1>15, <1>16, <1>17, <1>18, <1>19, <1>20, <1>21, <1>22, <1>23, <1>24, <1>25,
     <1>26, <1>27, <1>28, <1>29, <1>30, <1>31, <1>32, <1>33, <1>34, <1>35, <1>36, <1>37,
     <1>38, <1>39
  DEF Next, Progress, Ensuring, Connecting, Operating, Failing, Closing, Stopped

(* The probe cache follows the route. *)
LEMMA ProbeCacheStep ==
    ASSUME TypeOK, ProbeCacheCurrent, [Next]_vars
    PROVE  ProbeCacheCurrent'
<1> USE TransportAssumption DEF ProbeCacheCurrent, TypeOK, RouteType, vars,
      managerVars, taskVars, auxVars, Goto, Capture, Connected, Live,
      LiveGeneration, ShuttingDown, TokenCancelled, SessionFree, MayFail,
      Fault, Fresh, FirstDial, NoRoute, Pcs, CallPcs, OwnerPcs, DialPcs,
      OpPcs, ProbePcs, Platforms, NoPlatform
<1>1. ASSUME NEW t \in Tasks, EnsureConnected(t) PROVE ProbeCacheCurrent'
  BY <1>1 DEF EnsureConnected
<1>2. ASSUME NEW t \in Tasks, EnsureLook(t) PROVE ProbeCacheCurrent'
  BY <1>2 DEF EnsureLook, EnsureLookReusing
<1>3. ASSUME NEW t \in Tasks, InvalidateClosed(t) PROVE ProbeCacheCurrent'
  BY <1>3 DEF InvalidateClosed, Invalidate, RemoveRouteIf
<1>4. ASSUME NEW t \in Tasks, CheckFresh(t) PROVE ProbeCacheCurrent'
  BY <1>4 DEF CheckFresh
<1>5. ASSUME NEW t \in Tasks, LockProbe(t) PROVE ProbeCacheCurrent'
  BY <1>5 DEF LockProbe
<1>6. ASSUME NEW t \in Tasks, CheckFreshLocked(t) PROVE ProbeCacheCurrent'
  BY <1>6 DEF CheckFreshLocked
<1>7. ASSUME NEW t \in Tasks, ProbeBegin(t) PROVE ProbeCacheCurrent'
  BY <1>7 DEF ProbeBegin
<1>8. ASSUME NEW t \in Tasks, ProbeAnswered(t) PROVE ProbeCacheCurrent'
  BY <1>8 DEF ProbeAnswered
<1>9. ASSUME NEW t \in Tasks, InvalidateProbed(t) PROVE ProbeCacheCurrent'
  BY <1>9 DEF InvalidateProbed, Invalidate, RemoveRouteIf
<1>10. ASSUME NEW t \in Tasks, Recheck(t) PROVE ProbeCacheCurrent'
  BY <1>10 DEF Recheck
<1>11. ASSUME NEW t \in Tasks, MarkProbeOk(t) PROVE ProbeCacheCurrent'
  BY <1>11 DEF MarkProbeOk, MarkProbeOkIf
<1>12. ASSUME NEW t \in Tasks, ConnectCheck(t) PROVE ProbeCacheCurrent'
  BY <1>12 DEF ConnectCheck, AttemptFailed, RetryIf
<1>13. ASSUME NEW t \in Tasks, RegisterWaiter(t) PROVE ProbeCacheCurrent'
  BY <1>13 DEF RegisterWaiter
<1>14. ASSUME NEW t \in Tasks, ClaimConnect(t) PROVE ProbeCacheCurrent'
  BY <1>14 DEF ClaimConnect
<1>15. ASSUME NEW t \in Tasks, WaiterWakes(t) PROVE ProbeCacheCurrent'
  BY <1>15 DEF WaiterWakes, AttemptFailed, RetryIf
<1>16. ASSUME NEW t \in Tasks, OwnerCheck(t) PROVE ProbeCacheCurrent'
  BY <1>16 DEF OwnerCheck
<1>17. ASSUME NEW t \in Tasks, OwnerStale(t) PROVE ProbeCacheCurrent'
  BY <1>17 DEF OwnerStale, NameStaleIf
<1>18. ASSUME NEW t \in Tasks, OwnerInvalidate(t) PROVE ProbeCacheCurrent'
  BY <1>18 DEF OwnerInvalidate, Invalidate, RemoveRouteIf
<1>19. ASSUME NEW t \in Tasks, DialJumpStage(t) PROVE ProbeCacheCurrent'
  BY <1>19 DEF DialJumpStage
<1>20. ASSUME NEW t \in Tasks, NEW p \in Platforms, DialTarget(t, p) PROVE ProbeCacheCurrent'
  BY <1>20 DEF DialTarget
<1>21. ASSUME NEW t \in Tasks, AuthenticateTarget(t) PROVE ProbeCacheCurrent'
  BY <1>21 DEF AuthenticateTarget
<1>22. ASSUME NEW t \in Tasks, Publish(t) PROVE ProbeCacheCurrent'
  BY <1>22 DEF Publish, PublishUnless, PlatformChanged
<1>23. ASSUME NEW t \in Tasks, OwnerReturn(t) PROVE ProbeCacheCurrent'
  BY <1>23 DEF OwnerReturn, ReturnWaking, AttemptFailed, RetryIf
<1>24. ASSUME NEW t \in Tasks, Release(t) PROVE ProbeCacheCurrent'
  BY <1>24 DEF Release
<1>25. ASSUME NEW t \in Tasks, OpenChannel(t) PROVE ProbeCacheCurrent'
  BY <1>25 DEF OpenChannel
<1>26. ASSUME NEW t \in Tasks, ChannelOpened(t) PROVE ProbeCacheCurrent'
  BY <1>26 DEF ChannelOpened
<1>27. ASSUME NEW t \in Tasks, OperationDone(t) PROVE ProbeCacheCurrent'
  BY <1>27 DEF OperationDone
<1>28. ASSUME NEW t \in Tasks, InvalidateAfterOperation(t) PROVE ProbeCacheCurrent'
  BY <1>28 DEF InvalidateAfterOperation, Invalidate, RemoveRouteIf
<1>29. ASSUME NEW t \in Tasks, ProbeFailed(t) PROVE ProbeCacheCurrent'
  BY <1>29 DEF ProbeFailed
<1>30. ASSUME NEW t \in Tasks, DialFails(t) PROVE ProbeCacheCurrent'
  BY <1>30 DEF DialFails
<1>31. ASSUME NEW t \in Tasks, ChannelRefused(t) PROVE ProbeCacheCurrent'
  BY <1>31 DEF ChannelRefused, OperationFault
<1>32. ASSUME NEW t \in Tasks, OperationFailed(t) PROVE ProbeCacheCurrent'
  BY <1>32 DEF OperationFailed, OperationFault
<1>33. ASSUME NEW t \in Tasks, BudgetElapses(t) PROVE ProbeCacheCurrent'
  BY <1>33 DEF BudgetElapses, DropCall, DropCallReleasing
<1>34. ASSUME NEW t \in Tasks, ShutdownCancels(t) PROVE ProbeCacheCurrent'
  BY <1>34 DEF ShutdownCancels, DropCall, DropCallReleasing
<1>35. CASE TransportDies
  BY <1>35 DEF TransportDies
<1>36. CASE ProbeExpires
  BY <1>36 DEF ProbeExpires
<1>37. CASE CloseBegins
  BY <1>37 DEF CloseBegins
<1>38. CASE CloseTakesRoute
  BY <1>38 DEF CloseTakesRoute
<1>39. CASE UNCHANGED vars
  BY <1>39
<1> QED
  BY <1>1, <1>2, <1>3, <1>4, <1>5, <1>6, <1>7, <1>8, <1>9, <1>10, <1>11, <1>12, <1>13,
     <1>14, <1>15, <1>16, <1>17, <1>18, <1>19, <1>20, <1>21, <1>22, <1>23, <1>24, <1>25,
     <1>26, <1>27, <1>28, <1>29, <1>30, <1>31, <1>32, <1>33, <1>34, <1>35, <1>36, <1>37,
     <1>38, <1>39
  DEF Next, Progress, Ensuring, Connecting, Operating, Failing, Closing, Stopped

(* A generation found to be POSIX stays POSIX while it is probed. *)
LEMMA PingStep ==
    ASSUME TypeOK, LockInv, GenerationInv, PlatformInv, PingInv, [Next]_vars
    PROVE  PingInv'
<1> USE TransportAssumption DEF PingInv, PosixPcs, PlatformInv, LockInv,
      GenerationInv, TypeOK, RouteType, vars, managerVars, taskVars, auxVars,
      Goto, Capture, Connected, Live, LiveGeneration, ShuttingDown,
      TokenCancelled, SessionFree, MayFail, Fault, Fresh, FirstDial, NoRoute,
      Pcs, CallPcs, OwnerPcs, DialPcs, OpPcs, ProbePcs, Platforms, NoPlatform
<1>1. ASSUME NEW t \in Tasks, EnsureConnected(t) PROVE PingInv'
  BY <1>1 DEF EnsureConnected
<1>2. ASSUME NEW t \in Tasks, EnsureLook(t) PROVE PingInv'
  BY <1>2 DEF EnsureLook, EnsureLookReusing
<1>3. ASSUME NEW t \in Tasks, InvalidateClosed(t) PROVE PingInv'
  BY <1>3 DEF InvalidateClosed, Invalidate, RemoveRouteIf
<1>4. ASSUME NEW t \in Tasks, CheckFresh(t) PROVE PingInv'
  BY <1>4 DEF CheckFresh
<1>5. ASSUME NEW t \in Tasks, LockProbe(t) PROVE PingInv'
  BY <1>5 DEF LockProbe
<1>6. ASSUME NEW t \in Tasks, CheckFreshLocked(t) PROVE PingInv'
  BY <1>6 DEF CheckFreshLocked
<1>7. ASSUME NEW t \in Tasks, ProbeBegin(t) PROVE PingInv'
  BY <1>7 DEF ProbeBegin
<1>8. ASSUME NEW t \in Tasks, ProbeAnswered(t) PROVE PingInv'
  BY <1>8 DEF ProbeAnswered
<1>9. ASSUME NEW t \in Tasks, InvalidateProbed(t) PROVE PingInv'
  BY <1>9 DEF InvalidateProbed, Invalidate, RemoveRouteIf
<1>10. ASSUME NEW t \in Tasks, Recheck(t) PROVE PingInv'
  BY <1>10 DEF Recheck
<1>11. ASSUME NEW t \in Tasks, MarkProbeOk(t) PROVE PingInv'
  BY <1>11 DEF MarkProbeOk, MarkProbeOkIf
<1>12. ASSUME NEW t \in Tasks, ConnectCheck(t) PROVE PingInv'
  BY <1>12 DEF ConnectCheck, AttemptFailed, RetryIf
<1>13. ASSUME NEW t \in Tasks, RegisterWaiter(t) PROVE PingInv'
  BY <1>13 DEF RegisterWaiter
<1>14. ASSUME NEW t \in Tasks, ClaimConnect(t) PROVE PingInv'
  BY <1>14 DEF ClaimConnect
<1>15. ASSUME NEW t \in Tasks, WaiterWakes(t) PROVE PingInv'
  BY <1>15 DEF WaiterWakes, AttemptFailed, RetryIf
<1>16. ASSUME NEW t \in Tasks, OwnerCheck(t) PROVE PingInv'
  BY <1>16 DEF OwnerCheck
<1>17. ASSUME NEW t \in Tasks, OwnerStale(t) PROVE PingInv'
  BY <1>17 DEF OwnerStale, NameStaleIf
<1>18. ASSUME NEW t \in Tasks, OwnerInvalidate(t) PROVE PingInv'
  BY <1>18 DEF OwnerInvalidate, Invalidate, RemoveRouteIf
<1>19. ASSUME NEW t \in Tasks, DialJumpStage(t) PROVE PingInv'
  BY <1>19 DEF DialJumpStage
<1>20. ASSUME NEW t \in Tasks, NEW p \in Platforms, DialTarget(t, p) PROVE PingInv'
  BY <1>20 DEF DialTarget
<1>21. ASSUME NEW t \in Tasks, AuthenticateTarget(t) PROVE PingInv'
  BY <1>21 DEF AuthenticateTarget
<1>22. ASSUME NEW t \in Tasks, Publish(t) PROVE PingInv'
  BY <1>22 DEF Publish, PublishUnless, PlatformChanged
<1>23. ASSUME NEW t \in Tasks, OwnerReturn(t) PROVE PingInv'
  BY <1>23 DEF OwnerReturn, ReturnWaking, AttemptFailed, RetryIf
<1>24. ASSUME NEW t \in Tasks, Release(t) PROVE PingInv'
  BY <1>24 DEF Release
<1>25. ASSUME NEW t \in Tasks, OpenChannel(t) PROVE PingInv'
  BY <1>25 DEF OpenChannel
<1>26. ASSUME NEW t \in Tasks, ChannelOpened(t) PROVE PingInv'
  BY <1>26 DEF ChannelOpened
<1>27. ASSUME NEW t \in Tasks, OperationDone(t) PROVE PingInv'
  BY <1>27 DEF OperationDone
<1>28. ASSUME NEW t \in Tasks, InvalidateAfterOperation(t) PROVE PingInv'
  BY <1>28 DEF InvalidateAfterOperation, Invalidate, RemoveRouteIf
<1>29. ASSUME NEW t \in Tasks, ProbeFailed(t) PROVE PingInv'
  BY <1>29 DEF ProbeFailed
<1>30. ASSUME NEW t \in Tasks, DialFails(t) PROVE PingInv'
  BY <1>30 DEF DialFails
<1>31. ASSUME NEW t \in Tasks, ChannelRefused(t) PROVE PingInv'
  BY <1>31 DEF ChannelRefused, OperationFault
<1>32. ASSUME NEW t \in Tasks, OperationFailed(t) PROVE PingInv'
  BY <1>32 DEF OperationFailed, OperationFault
<1>33. ASSUME NEW t \in Tasks, BudgetElapses(t) PROVE PingInv'
  BY <1>33 DEF BudgetElapses, DropCall, DropCallReleasing
<1>34. ASSUME NEW t \in Tasks, ShutdownCancels(t) PROVE PingInv'
  BY <1>34 DEF ShutdownCancels, DropCall, DropCallReleasing
<1>35. CASE TransportDies
  BY <1>35 DEF TransportDies
<1>36. CASE ProbeExpires
  BY <1>36 DEF ProbeExpires
<1>37. CASE CloseBegins
  BY <1>37 DEF CloseBegins
<1>38. CASE CloseTakesRoute
  BY <1>38 DEF CloseTakesRoute
<1>39. CASE UNCHANGED vars
  BY <1>39
<1> QED
  BY <1>1, <1>2, <1>3, <1>4, <1>5, <1>6, <1>7, <1>8, <1>9, <1>10, <1>11, <1>12, <1>13,
     <1>14, <1>15, <1>16, <1>17, <1>18, <1>19, <1>20, <1>21, <1>22, <1>23, <1>24, <1>25,
     <1>26, <1>27, <1>28, <1>29, <1>30, <1>31, <1>32, <1>33, <1>34, <1>35, <1>36, <1>37,
     <1>38, <1>39
  DEF Next, Progress, Ensuring, Connecting, Operating, Failing, Closing, Stopped

(* Whoever is about to remove a route saw that route fail. *)
LEMMA BlameStep ==
    ASSUME TypeOK, LockInv, SlotInv, GenerationInv, PingInv, BlameInv, [Next]_vars
    PROVE  BlameInv'
<1> USE TransportAssumption DEF BlameInv, InvalidatePcs, PingInv, PosixPcs,
      LockInv, SlotInv, GenerationInv, TypeOK, RouteType, vars, managerVars,
      taskVars, auxVars, Goto, Capture, Connected, Live, LiveGeneration,
      ShuttingDown, TokenCancelled, SessionFree, MayFail, Fault, Fresh,
      FirstDial, NoRoute, Pcs, CallPcs, OwnerPcs, DialPcs, OpPcs, ProbePcs,
      Platforms, NoPlatform
<1>1. ASSUME NEW t \in Tasks, EnsureConnected(t) PROVE BlameInv'
  BY <1>1 DEF EnsureConnected
<1>2. ASSUME NEW t \in Tasks, EnsureLook(t) PROVE BlameInv'
  BY <1>2 DEF EnsureLook, EnsureLookReusing
<1>3. ASSUME NEW t \in Tasks, InvalidateClosed(t) PROVE BlameInv'
  BY <1>3 DEF InvalidateClosed, Invalidate, RemoveRouteIf
<1>4. ASSUME NEW t \in Tasks, CheckFresh(t) PROVE BlameInv'
  BY <1>4 DEF CheckFresh
<1>5. ASSUME NEW t \in Tasks, LockProbe(t) PROVE BlameInv'
  BY <1>5 DEF LockProbe
<1>6. ASSUME NEW t \in Tasks, CheckFreshLocked(t) PROVE BlameInv'
  BY <1>6 DEF CheckFreshLocked
<1>7. ASSUME NEW t \in Tasks, ProbeBegin(t) PROVE BlameInv'
  BY <1>7 DEF ProbeBegin
<1>8. ASSUME NEW t \in Tasks, ProbeAnswered(t) PROVE BlameInv'
  BY <1>8 DEF ProbeAnswered
<1>9. ASSUME NEW t \in Tasks, InvalidateProbed(t) PROVE BlameInv'
  BY <1>9 DEF InvalidateProbed, Invalidate, RemoveRouteIf
<1>10. ASSUME NEW t \in Tasks, Recheck(t) PROVE BlameInv'
  BY <1>10 DEF Recheck
<1>11. ASSUME NEW t \in Tasks, MarkProbeOk(t) PROVE BlameInv'
  BY <1>11 DEF MarkProbeOk, MarkProbeOkIf
<1>12. ASSUME NEW t \in Tasks, ConnectCheck(t) PROVE BlameInv'
  BY <1>12 DEF ConnectCheck, AttemptFailed, RetryIf
<1>13. ASSUME NEW t \in Tasks, RegisterWaiter(t) PROVE BlameInv'
  BY <1>13 DEF RegisterWaiter
<1>14. ASSUME NEW t \in Tasks, ClaimConnect(t) PROVE BlameInv'
  BY <1>14 DEF ClaimConnect
<1>15. ASSUME NEW t \in Tasks, WaiterWakes(t) PROVE BlameInv'
  BY <1>15 DEF WaiterWakes, AttemptFailed, RetryIf
<1>16. ASSUME NEW t \in Tasks, OwnerCheck(t) PROVE BlameInv'
  BY <1>16 DEF OwnerCheck
<1>17. ASSUME NEW t \in Tasks, OwnerStale(t) PROVE BlameInv'
  BY <1>17 DEF OwnerStale, NameStaleIf
<1>18. ASSUME NEW t \in Tasks, OwnerInvalidate(t) PROVE BlameInv'
  BY <1>18 DEF OwnerInvalidate, Invalidate, RemoveRouteIf
<1>19. ASSUME NEW t \in Tasks, DialJumpStage(t) PROVE BlameInv'
  BY <1>19 DEF DialJumpStage
<1>20. ASSUME NEW t \in Tasks, NEW p \in Platforms, DialTarget(t, p) PROVE BlameInv'
  BY <1>20 DEF DialTarget
<1>21. ASSUME NEW t \in Tasks, AuthenticateTarget(t) PROVE BlameInv'
  BY <1>21 DEF AuthenticateTarget
<1>22. ASSUME NEW t \in Tasks, Publish(t) PROVE BlameInv'
  BY <1>22 DEF Publish, PublishUnless, PlatformChanged
<1>23. ASSUME NEW t \in Tasks, OwnerReturn(t) PROVE BlameInv'
  BY <1>23 DEF OwnerReturn, ReturnWaking, AttemptFailed, RetryIf
<1>24. ASSUME NEW t \in Tasks, Release(t) PROVE BlameInv'
  BY <1>24 DEF Release
<1>25. ASSUME NEW t \in Tasks, OpenChannel(t) PROVE BlameInv'
  BY <1>25 DEF OpenChannel
<1>26. ASSUME NEW t \in Tasks, ChannelOpened(t) PROVE BlameInv'
  BY <1>26 DEF ChannelOpened
<1>27. ASSUME NEW t \in Tasks, OperationDone(t) PROVE BlameInv'
  BY <1>27 DEF OperationDone
<1>28. ASSUME NEW t \in Tasks, InvalidateAfterOperation(t) PROVE BlameInv'
  BY <1>28 DEF InvalidateAfterOperation, Invalidate, RemoveRouteIf
<1>29. ASSUME NEW t \in Tasks, ProbeFailed(t) PROVE BlameInv'
  BY <1>29 DEF ProbeFailed
<1>30. ASSUME NEW t \in Tasks, DialFails(t) PROVE BlameInv'
  BY <1>30 DEF DialFails
<1>31. ASSUME NEW t \in Tasks, ChannelRefused(t) PROVE BlameInv'
  BY <1>31 DEF ChannelRefused, OperationFault
<1>32. ASSUME NEW t \in Tasks, OperationFailed(t) PROVE BlameInv'
  BY <1>32 DEF OperationFailed, OperationFault
<1>33. ASSUME NEW t \in Tasks, BudgetElapses(t) PROVE BlameInv'
  BY <1>33 DEF BudgetElapses, DropCall, DropCallReleasing
<1>34. ASSUME NEW t \in Tasks, ShutdownCancels(t) PROVE BlameInv'
  BY <1>34 DEF ShutdownCancels, DropCall, DropCallReleasing
<1>35. CASE TransportDies
  BY <1>35 DEF TransportDies
<1>36. CASE ProbeExpires
  BY <1>36 DEF ProbeExpires
<1>37. CASE CloseBegins
  BY <1>37 DEF CloseBegins
<1>38. CASE CloseTakesRoute
  BY <1>38 DEF CloseTakesRoute
<1>39. CASE UNCHANGED vars
  BY <1>39
<1> QED
  BY <1>1, <1>2, <1>3, <1>4, <1>5, <1>6, <1>7, <1>8, <1>9, <1>10, <1>11, <1>12, <1>13,
     <1>14, <1>15, <1>16, <1>17, <1>18, <1>19, <1>20, <1>21, <1>22, <1>23, <1>24, <1>25,
     <1>26, <1>27, <1>28, <1>29, <1>30, <1>31, <1>32, <1>33, <1>34, <1>35, <1>36, <1>37,
     <1>38, <1>39
  DEF Next, Progress, Ensuring, Connecting, Operating, Failing, Closing, Stopped
-----------------------------------------------------------------------------

(* The inductive invariant holds in every reachable state. *)
LEMMA Inductive == Spec => []IndInv
<1>1. Init => IndInv
  <2> SUFFICES ASSUME Init PROVE IndInv
    OBVIOUS
  <2> USE DEF Init, Connected, Live, Pcs, CallPcs, OwnerPcs, DialPcs, OpPcs, ProbePcs
  <2>1. TypeOK
    <3>1. succeeded \in [Tasks -> BOOLEAN] /\ isConnecting \in BOOLEAN
      BY Zenon
    <3>2. attempt \in [Tasks -> 1..MaxAttempts] /\ route \in RouteType
      BY TransportAssumption, RouteTyped
    <3>3. plat \in [Tasks -> Platforms \cup {NoPlatform}] /\ pc \in [Tasks -> Pcs]
      OBVIOUS
    <3> QED
      BY <3>1, <3>2, <3>3 DEF TypeOK
  <2>2. LockInv /\ OneConnectOwner
    BY TransportAssumption DEF LockInv, OneConnectOwner
  <2>3. ~Connected
    BY DEF NoRoute
  <2>4. GenerationInv /\ SlotInv /\ NoRouteAfterClose /\ ProbeCacheCurrent
    BY <2>3 DEF GenerationInv, SlotInv, NoRouteAfterClose, ProbeCacheCurrent
  <2>5. PlatformInv /\ PingInv /\ BlameInv
    BY <2>3 DEF PlatformInv, RouteOnFrozenPlatform, PingInv, BlameInv, PosixPcs,
                InvalidatePcs
  <2> QED
    BY <2>1, <2>2, <2>4, <2>5 DEF IndInv
<1>2. IndInv /\ [Next]_vars => IndInv'
  BY TypeStep, LockStep, OwnerStep, GenerationStep, SlotStep, CloseStep,
     PlatformStep, ProbeCacheStep, PingStep, BlameStep DEF IndInv
<1> QED
  BY <1>1, <1>2, PTL DEF Spec

(* The variables of the connection manager keep their types. *)
THEOREM TypeCorrect == Spec => []TypeOK
BY Inductive, PTL DEF IndInv

(* is_connecting is set exactly while a single task is inside the guarded  *)
(* part of connect_transport_only.                                         *)
THEOREM SingleOwner == Spec => []OneConnectOwner
BY Inductive, PTL DEF IndInv

(* The health cache never vouches for another route. *)
THEOREM ProbeCacheIsCurrent == Spec => []ProbeCacheCurrent
BY Inductive, PTL DEF IndInv

(* Every published route has the platform of the first one. *)
THEOREM PlatformIsFrozen == Spec => []RouteOnFrozenPlatform
BY Inductive, PTL DEF IndInv, PlatformInv

(* Pings go to the POSIX route that was looked at, never to RouterOS. *)
THEOREM PingsArePosix == Spec => []PingOnlyPosix
<1>1. IndInv => PingOnlyPosix
  BY DEF IndInv, PingInv, PingOnlyPosix, PosixPcs
<1> QED
  BY <1>1, Inductive, PTL

(* close() is final. *)
THEOREM CloseIsFinal == Spec => []NoRouteAfterClose
BY Inductive, PTL DEF IndInv

(* A live route only disappears after a failure on that very generation,   *)
(* or in shutdown.                                                         *)
THEOREM HealthyRouteIsKept == Spec => HealthyRouteSurvives
<1>1. IndInv /\ [Next]_vars =>
        [Live /\ route'.gen # route.gen => route.gen \in blamed \/ ShuttingDown]_vars
  <2> SUFFICES ASSUME IndInv, [Next]_vars, Live, route'.gen # route.gen
               PROVE  route.gen \in blamed \/ ShuttingDown
    OBVIOUS
  <2> USE DEF Live, Connected, ShuttingDown
  <2>1. ASSUME NEW t \in Tasks, RemoveRouteIf(route.gen = gen[t]), pc[t] \in InvalidatePcs
        PROVE  route.gen \in blamed \/ ShuttingDown
    BY <2>1 DEF IndInv, BlameInv, RemoveRouteIf
  <2>2. ASSUME NEW t \in Tasks,
               InvalidateClosed(t) \/ InvalidateProbed(t) \/ OwnerInvalidate(t)
                 \/ InvalidateAfterOperation(t)
        PROVE  route.gen \in blamed \/ ShuttingDown
    BY <2>1, <2>2 DEF InvalidateClosed, InvalidateProbed, OwnerInvalidate,
                      InvalidateAfterOperation, Invalidate, InvalidatePcs
  <2>3. ASSUME NEW t \in Tasks, Publish(t) PROVE FALSE
    BY <2>3 DEF Publish, PublishUnless, IndInv, SlotInv
  <2>4. CASE CloseTakesRoute
    BY <2>4 DEF CloseTakesRoute
  <2>5. CASE TransportDies
    BY <2>5 DEF TransportDies, IndInv, TypeOK, RouteType
  <2>6. ASSUME NEW t \in Tasks, EnsureConnected(t) \/ Ensuring(t)
        PROVE  route.gen \in blamed \/ ShuttingDown
    BY <2>2, <2>6 DEF EnsureConnected, Ensuring, EnsureLook, EnsureLookReusing,
         CheckFresh, LockProbe, CheckFreshLocked, ProbeBegin, ProbeAnswered, Recheck,
         MarkProbeOk, MarkProbeOkIf, managerVars
  <2>7. ASSUME NEW t \in Tasks, Connecting(t)
        PROVE  route.gen \in blamed \/ ShuttingDown
    BY <2>2, <2>3, <2>7 DEF Connecting, ConnectCheck, RegisterWaiter, ClaimConnect,
         WaiterWakes, OwnerCheck, OwnerStale, NameStaleIf, DialJumpStage, DialTarget,
         AuthenticateTarget, OwnerReturn, ReturnWaking, managerVars
  <2>8. ASSUME NEW t \in Tasks, Operating(t) \/ Failing(t) \/ ShutdownCancels(t)
        PROVE  route.gen \in blamed \/ ShuttingDown
    BY <2>2, <2>8 DEF Operating, Release, OpenChannel, ChannelOpened, OperationDone,
         Failing, ProbeFailed, DialFails, ChannelRefused, OperationFailed,
         BudgetElapses, ShutdownCancels, DropCall, DropCallReleasing, managerVars
  <2>9. CASE ProbeExpires \/ CloseBegins \/ UNCHANGED vars
    BY <2>9 DEF ProbeExpires, CloseBegins, vars, managerVars
  <2> QED
    BY <2>4, <2>5, <2>6, <2>7, <2>8, <2>9 DEF Next, Progress, Closing, Stopped
<1> QED
  BY <1>1, Inductive, PTL DEF Spec, HealthyRouteSurvives

(* Transport implements the abstract route slot of module Route. *)
THEOREM TransportImplementsRoute == Spec => ImplementsRoute
<1>1. Init => RouteSlot!Init
  BY DEF Init, RouteSlot!Init, NoRoute
<1>2. IndInv /\ [Next]_vars => [RouteSlot!Next]_(RouteSlot!vars)
  <2> SUFFICES ASSUME IndInv, [Next]_vars
               PROVE  RouteSlot!Next \/ UNCHANGED RouteSlot!vars
    OBVIOUS
  <2> DEFINE Allowed == RouteSlot!Next \/ UNCHANGED RouteSlot!vars
  <2> USE DEF RouteSlot!Next, RouteSlot!vars
  <2>1. ASSUME NEW g, RemoveRouteIf(route.gen = g), UNCHANGED <<closer, lastGen>>
        PROVE  Allowed
    BY <2>1 DEF RemoveRouteIf, RouteSlot!Retire, NoRoute
  <2>2. ASSUME NEW t \in Tasks,
               InvalidateClosed(t) \/ InvalidateProbed(t) \/ OwnerInvalidate(t)
                 \/ InvalidateAfterOperation(t)
        PROVE  Allowed
    BY <2>1, <2>2 DEF InvalidateClosed, InvalidateProbed, OwnerInvalidate,
                      InvalidateAfterOperation, Invalidate, auxVars
  <2>3. ASSUME NEW t \in Tasks, Publish(t) PROVE Allowed
    <3>1. gen[t] \in Nat /\ gen[t] > lastGen /\ route.gen = 0
      BY <2>3 DEF Publish, PublishUnless, IndInv, TypeOK, RouteType, GenerationInv,
                  SlotInv, Connected
    <3> QED
      BY <2>3, <3>1 DEF Publish, PublishUnless, ShuttingDown, RouteSlot!Establish
  <2>4. CASE CloseTakesRoute
    BY <2>4 DEF CloseTakesRoute, NoRoute, RouteSlot!Stop, auxVars
  <2>5. CASE TransportDies
    BY <2>5 DEF TransportDies, IndInv, TypeOK, RouteType
  <2>6. ASSUME NEW t \in Tasks, EnsureConnected(t) \/ Ensuring(t) PROVE Allowed
    BY <2>2, <2>6 DEF EnsureConnected, Ensuring, EnsureLook, EnsureLookReusing,
         CheckFresh, LockProbe, CheckFreshLocked, ProbeBegin, ProbeAnswered, Recheck,
         MarkProbeOk, MarkProbeOkIf, managerVars, auxVars
  <2>7. ASSUME NEW t \in Tasks, Connecting(t) PROVE Allowed
    BY <2>2, <2>3, <2>7 DEF Connecting, ConnectCheck, RegisterWaiter, ClaimConnect,
         WaiterWakes, OwnerCheck, OwnerStale, NameStaleIf, DialJumpStage, DialTarget,
         AuthenticateTarget, OwnerReturn, ReturnWaking,
         managerVars, auxVars
  <2>8. ASSUME NEW t \in Tasks, Operating(t) \/ Failing(t) \/ ShutdownCancels(t)
        PROVE  Allowed
    BY <2>2, <2>8 DEF Operating, Release, OpenChannel, ChannelOpened, OperationDone,
         Failing, ProbeFailed, DialFails, ChannelRefused, OperationFailed,
         BudgetElapses, ShutdownCancels, DropCall, DropCallReleasing,
         managerVars, auxVars
  <2>9. CASE ProbeExpires \/ CloseBegins \/ UNCHANGED vars
    BY <2>9 DEF ProbeExpires, CloseBegins, vars, managerVars, auxVars
  <2> QED
    BY <2>4, <2>5, <2>6, <2>7, <2>8, <2>9 DEF Next, Progress, Closing, Stopped
<1> QED
  BY <1>1, <1>2, Inductive, PTL DEF Spec, ImplementsRoute, RouteSlot!Spec

(* What the manager believes of the installed route (its cached probe, its  *)
(* platform, that it answers pings) is true of it, for any number of tasks. *)
THEOREM RouteBeliefsAreTrue == Spec => []RouteBeliefs
  BY ProbeCacheIsCurrent, PlatformIsFrozen, PingsArePosix, PTL DEF RouteBeliefs

=============================================================================
