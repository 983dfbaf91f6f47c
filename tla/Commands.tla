------------------------------ MODULE Commands ------------------------------
(***************************************************************************)
(* exec_command of src/ssh/command.rs on top of the shared route: the      *)
(* command slots, automatic and on-demand su elevation, the one persistent *)
(* su shell that commands take and give back, the single retry of work     *)
(* that never reached the remote side, and the remote timeout wrapper with *)
(* its fallback.  The route is the abstract one of module Route (Transport *)
(* implements it): it is established, dies and is retired around the       *)
(* commands at any time.                                                   *)
(*                                                                         *)
(* A background start shares the slots with the commands: it holds one     *)
(* while its wrapper is started (module BackgroundJob has the job itself). *)
(* What it does to a route that fails it is RouteRetired here.             *)
(*                                                                         *)
(* Each command runs once.  Failures that need the environment's help use  *)
(* up its fault budget; failures on a route that is already gone are free. *)
(***************************************************************************)
EXTENDS Naturals, FiniteSets

CONSTANTS
    Cmds,           \* the commands
    Launches,       \* the background starts among them
    Droppable,      \* the ones a transfer issues: their future can be dropped
    Slots,          \* capacity of channel_semaphore
    SuConfigured,   \* a su password is configured
    MaxFaults       \* bound: environment failures

ASSUME CommandsAssumption ==
    /\ Launches \subseteq Cmds
    /\ Droppable \subseteq Cmds \ Launches
    /\ Slots \in Nat \ {0}
    /\ SuConfigured \in BOOLEAN
    /\ MaxFaults \in Nat

VARIABLES
    current,        \* generation of the installed route, 0 if none
    highest,        \* latest generation installed
    dead,           \* the installed route's transport is closed
    shutting,       \* shutting_down
    autoTried,      \* the route's auto_elevation_attempted
    suSlot,         \* su_channel: the idle su shell, or NoShell
    suGen,          \* su_generation
    isElevated,     \* is_elevated
    hasTimeout,     \* has_timeout_cmd
    permits,        \* free command slots
    elevating,      \* elevation_lock: at most one command in here
    pc, after,      \* each command's place, and where to go on after a call
    expected,       \* generation its elevation is meant for, 0 if any
    gen,            \* generation its channel was opened on
    shell,          \* su shell it has taken
    retried,        \* it used up its retry before exec
    wrapped,        \* it uses the timeout wrapper
    fallback,       \* it runs again because the wrapper was missing
    nextShell,      \* identities of su shells
    faults,
    delivered       \* history: how often the payload may have reached the remote side

routeVars == <<current, highest, dead, shutting, autoTried>>
suVars == <<suSlot, suGen, isElevated>>
localVars == <<after, expected, gen, shell, retried, wrapped, fallback>>
vars == <<routeVars, suVars, hasTimeout, permits, elevating, pc, localVars,
          nextShell, faults, delivered>>

NoShell == [gen |-> 0, id |-> 0]

Nobody == {}

Pcs == {"new", "launch", "ensure", "auto", "dispatch", "wrapper", "open", "send", "collect",
        "pre_invalidate", "su_take", "su_retake", "su_send", "su_collect", "su_restore",
        "auto_elevate", "su_elevate", "elevate_open", "elevate_shell", "invalidate",
        "finish", "done", "dropped"}

(* Places where a command occupies one of the slots. *)
SlotPcs == Pcs \ {"new", "done", "dropped"}

TypeOK ==
    /\ current \in Nat /\ highest \in Nat
    /\ dead \in BOOLEAN /\ shutting \in BOOLEAN /\ autoTried \in BOOLEAN
    /\ suSlot \in [gen : Nat, id : Nat]
    /\ suGen \in Nat
    /\ isElevated \in BOOLEAN /\ hasTimeout \in BOOLEAN
    /\ permits \in 0..Slots
    /\ elevating \in SUBSET Cmds
    /\ pc \in [Cmds -> Pcs]
    /\ after \in [Cmds -> {"dispatch", "open", "su_elevate"}]
    /\ expected \in [Cmds -> Nat] /\ gen \in [Cmds -> Nat]
    /\ shell \in [Cmds -> [gen : Nat, id : Nat]]
    /\ retried \in [Cmds -> BOOLEAN]
    /\ wrapped \in [Cmds -> BOOLEAN] /\ fallback \in [Cmds -> BOOLEAN]
    /\ nextShell \in Nat /\ faults \in Nat
    /\ delivered \in [Cmds -> Nat]

Init ==
    /\ current = 0 /\ highest = 0
    /\ dead = FALSE /\ shutting = FALSE /\ autoTried = FALSE
    /\ suSlot = NoShell /\ suGen = 0 /\ isElevated = FALSE
    /\ hasTimeout = FALSE
    /\ permits = Slots
    /\ elevating = Nobody
    /\ pc = [c \in Cmds |-> "new"]
    /\ after = [c \in Cmds |-> "dispatch"]
    /\ expected = [c \in Cmds |-> 0]
    /\ gen = [c \in Cmds |-> 0]
    /\ shell = [c \in Cmds |-> NoShell]
    /\ retried = [c \in Cmds |-> FALSE]
    /\ wrapped = [c \in Cmds |-> FALSE]
    /\ fallback = [c \in Cmds |-> FALSE]
    /\ nextShell = 1 /\ faults = 0
    /\ delivered = [c \in Cmds |-> 0]

-----------------------------------------------------------------------------

Live == current # 0 /\ ~dead

LiveGeneration(g) == Live /\ current = g

Goto(c, label) == pc' = [pc EXCEPT ![c] = label]

Set(f, c, v) == [f EXCEPT ![c] = v]

(* The environment makes something fail that could have worked. *)
Fault == faults < MaxFaults /\ faults' = faults + 1

(* A failure on generation g is a fault only while g is alive. *)
FailureOn(g) == IF LiveGeneration(g) THEN Fault ELSE UNCHANGED faults

ClearSu == suSlot' = NoShell /\ suGen' = 0 /\ isElevated' = FALSE

(* invalidate_session_for_generation: route and su state go together. *)
Invalidate(g) ==
    IF current = g /\ g # 0
      THEN current' = 0 /\ dead' = FALSE /\ ClearSu /\ UNCHANGED <<highest, shutting, autoTried>>
      ELSE UNCHANGED <<routeVars, suVars>>

-----------------------------------------------------------------------------
(* The route around the commands                                            *)

(* A connect attempt publishes a route (Route!Establish). *)
Establish ==
    /\ ~shutting /\ current = 0
    /\ highest <= MaxFaults
    /\ current' = highest + 1 /\ highest' = highest + 1
    /\ dead' = FALSE /\ autoTried' = FALSE
    /\ UNCHANGED <<shutting, suVars, hasTimeout, permits, elevating, pc, localVars,
                   nextShell, faults, delivered>>

(* The transport closes. *)
RouteDies ==
    /\ Live /\ Fault
    /\ dead' = TRUE
    /\ UNCHANGED <<current, highest, shutting, autoTried, suVars, hasTimeout, permits,
                   elevating, pc, localVars, nextShell, delivered>>

(* Somebody found it closed, or its health probe failed. *)
RouteRetired ==
    /\ current # 0
    /\ IF dead THEN UNCHANGED faults ELSE Fault
    /\ Invalidate(current)
    /\ UNCHANGED <<hasTimeout, permits, elevating, pc, localVars, nextShell, delivered>>

(* close(): the flag first, the route and the su state later. *)
CloseBegins ==
    /\ ~shutting
    /\ shutting' = TRUE
    /\ UNCHANGED <<current, highest, dead, autoTried, suVars, hasTimeout, permits,
                   elevating, pc, localVars, nextShell, faults, delivered>>

CloseTakesRoute ==
    /\ shutting /\ current # 0
    /\ current' = 0 /\ dead' = FALSE /\ ClearSu
    /\ UNCHANGED <<highest, shutting, autoTried, hasTimeout, permits, elevating, pc,
                   localVars, nextShell, faults, delivered>>

-----------------------------------------------------------------------------
(* Slots, ensure_connected and elevation                                    *)

(* acquire_command_slot, then ensure_connected; a background start does     *)
(* those the other way round.                                               *)
AcquireSlot(c) ==
    /\ pc[c] = "new" /\ permits > 0
    /\ permits' = permits - 1
    /\ Goto(c, IF c \in Launches THEN "launch" ELSE "ensure")
    /\ UNCHANGED <<routeVars, suVars, hasTimeout, elevating, localVars, nextShell,
                   faults, delivered>>

(* The transport part of ensure_connected succeeds on a live route, fails    *)
(* when its budget ends or the manager shuts down.                          *)
EnsureConnected(c) ==
    /\ pc[c] = "ensure"
    /\ \/ /\ Live /\ ~shutting /\ UNCHANGED faults
          /\ Goto(c, IF SuConfigured THEN "auto" ELSE after[c])
       \/ shutting /\ UNCHANGED faults /\ Goto(c, "finish")
       \/ Fault /\ Goto(c, "finish")
    /\ UNCHANGED <<routeVars, suVars, hasTimeout, permits, elevating, localVars,
                   nextShell, delivered>>

(* initialize_auto_elevation: tried once per route, by whoever comes first;  *)
(* the others wait for auto_elevation_lock until that attempt is over.       *)
AutoElevate(c) ==
    /\ pc[c] = "auto"
    /\ \A d \in Cmds : expected[d] = 0
    /\ IF current = 0 \/ autoTried \/ shutting
         THEN Goto(c, after[c]) /\ UNCHANGED <<expected, autoTried>>
         ELSE /\ Goto(c, "auto_elevate")
              /\ expected' = Set(expected, c, current)
              /\ autoTried' = TRUE
    /\ UNCHANGED <<current, highest, dead, shutting, suVars, hasTimeout, permits, elevating,
                   after, gen, shell, retried, wrapped, fallback, nextShell, faults, delivered>>

ReturnFromElevation(c, next) ==
    /\ elevating' = elevating \ {c}
    /\ expected' = Set(expected, c, 0)
    /\ Goto(c, IF expected[c] # 0 THEN after[c] ELSE next)

(* ensure_elevated returns: the automatic attempt ignores errors. *)
ElevationReturns(c, ok) == ReturnFromElevation(c, IF ok THEN "su_retake" ELSE "finish")

(* ensure_elevated_for_generation takes elevation_lock and may be done already. *)
ElevationBegins(c) ==
    /\ pc[c] \in {"auto_elevate", "su_elevate"}
    /\ elevating = Nobody
    /\ \/ /\ shutting \/ expected[c] \notin {0, current}
          /\ ElevationReturns(c, FALSE)
       \/ /\ ~shutting /\ expected[c] \in {0, current}
          /\ isElevated /\ suSlot # NoShell
          /\ ElevationReturns(c, TRUE)
       \/ /\ ~shutting /\ expected[c] \in {0, current}
          /\ ~(isElevated /\ suSlot # NoShell)
          /\ elevating' = {c} /\ Goto(c, "elevate_open")
          /\ UNCHANGED expected
    /\ UNCHANGED <<routeVars, suVars, hasTimeout, permits, after, gen, shell, retried,
                   wrapped, fallback, nextShell, faults, delivered>>

(* A channel for the PTY shell; a channel on the wrong route is closed again. *)
ElevationOpens(c) ==
    /\ pc[c] = "elevate_open"
    /\ \/ /\ Live /\ ~shutting /\ expected[c] \in {0, current}
          /\ Goto(c, "elevate_shell")
          /\ gen' = Set(gen, c, current)
          /\ UNCHANGED <<elevating, expected, faults>>
       \/ /\ IF Live /\ ~shutting /\ expected[c] \in {0, current} THEN Fault ELSE UNCHANGED faults
          /\ ElevationReturns(c, FALSE)
          /\ UNCHANGED gen
    /\ UNCHANGED <<routeVars, suVars, hasTimeout, permits, after, shell, retried,
                   wrapped, fallback, nextShell, delivered>>

StoreShellIf(c, stillCurrent) ==
    /\ pc[c] = "elevate_shell"
    /\ IF stillCurrent
         THEN /\ suSlot' = [gen |-> gen[c], id |-> nextShell]
              /\ suGen' = gen[c]
              /\ isElevated' = TRUE
              /\ ElevationReturns(c, TRUE)
         ELSE ElevationReturns(c, FALSE) /\ UNCHANGED suVars
    /\ nextShell' = nextShell + 1
    /\ gen' = Set(gen, c, 0)
    /\ UNCHANGED <<routeVars, hasTimeout, permits, after, shell, retried, wrapped,
                   fallback, faults, delivered>>

(* Mutant: the shell is stored although its route was replaced meanwhile. *)
ElevationStoresAny(c) == StoreShellIf(c, ~shutting)

(* su got its prompt: the shell is stored if its route is still current. *)
ElevationSucceeds(c) == StoreShellIf(c, ~shutting /\ current = gen[c])

(* PTY, su or the password failed; only handle_su_elevation's own failure   *)
(* resets the su state, and only for this generation.                      *)
ElevationFails(c) ==
    /\ pc[c] = "elevate_shell"
    /\ ElevationReturns(c, FALSE)
    /\ IF current = gen[c] THEN ClearSu \/ UNCHANGED suVars ELSE UNCHANGED suVars
    /\ gen' = Set(gen, c, 0)
    /\ UNCHANGED <<routeVars, hasTimeout, permits, after, shell, retried, wrapped,
                   fallback, nextShell, faults, delivered>>

-----------------------------------------------------------------------------
(* exec_command: su shell or a channel of its own                           *)

(* The shell in the slot may be used: try_take_su_channel, has_su_channel. *)
SuShellUsable == LiveGeneration(suGen) /\ suSlot # NoShell

(* exec_command chooses, then determine_timeout_wrapper_usage comes first    *)
(* on either path.                                                          *)
Dispatch(c) ==
    /\ pc[c] = "dispatch"
    /\ Goto(c, "wrapper")
    /\ after' = Set(after, c, IF isElevated /\ SuShellUsable THEN "su_elevate" ELSE "open")
    /\ UNCHANGED <<routeVars, suVars, hasTimeout, permits, elevating, expected, gen, shell,
                   retried, wrapped, fallback, nextShell, faults, delivered>>

(* A positive answer is kept; without one the remote side is asked again. *)
CheckWrapper(c) ==
    /\ pc[c] = "wrapper"
    /\ \/ /\ hasTimeout
          /\ wrapped' = Set(wrapped, c, TRUE)
          /\ UNCHANGED hasTimeout
       \/ /\ ~hasTimeout
          /\ hasTimeout' \in (IF Live /\ ~shutting THEN BOOLEAN ELSE {FALSE})
          /\ wrapped' = Set(wrapped, c, hasTimeout')
    /\ Goto(c, IF after[c] = "su_elevate" THEN "su_take" ELSE "open")
    /\ UNCHANGED <<routeVars, suVars, permits, elevating, after, expected, gen, shell,
                   retried, fallback, nextShell, faults, delivered>>

TakeShellLeaving(c, left) ==
    /\ pc[c] \in {"su_take", "su_retake"}
    /\ IF ~shutting /\ SuShellUsable
         THEN /\ shell' = Set(shell, c, suSlot)
              /\ gen' = Set(gen, c, suGen)
              /\ suSlot' = left
              /\ Goto(c, "su_send")
         ELSE /\ Goto(c, IF pc[c] = "su_take" THEN "ensure" ELSE "finish")
              /\ UNCHANGED <<shell, gen, suSlot>>
    /\ UNCHANGED <<routeVars, suGen, isElevated, hasTimeout, permits, elevating, after,
                   expected, retried, wrapped, fallback, nextShell, faults, delivered>>

(* Mutant: the shell is used in place instead of being taken. *)
BorrowShell(c) == TakeShellLeaving(c, suSlot)

(* try_take_su_channel; without a shell, connect and elevate once, then retake. *)
TakeShell(c) == TakeShellLeaving(c, NoShell)

(* try_send_to_su_channel: even a failed write may have sent a prefix, so it *)
(* is never tried again.                                                     *)
SuSend(c) ==
    /\ pc[c] = "su_send"
    /\ \/ /\ Goto(c, "su_collect")
          /\ UNCHANGED <<faults, shell>>
       \/ /\ FailureOn(gen[c])
          /\ Goto(c, "invalidate")
          /\ shell' = Set(shell, c, NoShell)
    /\ delivered' = Set(delivered, c, delivered[c] + 1)
    /\ UNCHANGED <<routeVars, suVars, hasTimeout, permits, elevating, after, expected, gen,
                   retried, wrapped, fallback, nextShell>>

(* collect_su_output: the prompt came back, or the shell or its time is gone. *)
SuCollect(c) ==
    /\ pc[c] = "su_collect"
    /\ \/ /\ Goto(c, "su_restore")
          /\ UNCHANGED <<faults, shell>>
       \/ /\ FailureOn(gen[c])
          /\ Goto(c, "invalidate")
          /\ shell' = Set(shell, c, NoShell)
    /\ UNCHANGED <<routeVars, suVars, hasTimeout, permits, elevating, after, expected, gen,
                   retried, wrapped, fallback, nextShell, delivered>>

RestoreIf(c, mine) ==
    /\ pc[c] = "su_restore"
    /\ suSlot' = IF mine THEN shell[c] ELSE suSlot
    /\ shell' = Set(shell, c, NoShell)
    /\ Goto(c, "finish")
    /\ UNCHANGED <<routeVars, suGen, isElevated, hasTimeout, permits, elevating, after,
                   expected, gen, retried, wrapped, fallback, nextShell, faults, delivered>>

(* Mutant: the shell is dropped after its command. *)
RestoreNever(c) == RestoreIf(c, FALSE)

(* restore_su_channel: given back only to the su state it was taken from. *)
RestoreShell(c) ==
    RestoreIf(c, ~shutting /\ suSlot = NoShell /\ suGen = gen[c] /\ LiveGeneration(gen[c]))

(* open_channel_attempt; the generation is captured even when it fails. *)
OpenChannel(c) ==
    /\ pc[c] = "open"
    /\ \/ /\ Live /\ ~shutting
          /\ UNCHANGED faults
          /\ Goto(c, "send")
       \/ /\ IF ~shutting THEN FailureOn(current) ELSE UNCHANGED faults
          /\ Goto(c, IF retried[c] THEN "finish" ELSE "pre_invalidate")
    /\ gen' = Set(gen, c, IF shutting THEN 0 ELSE current)
    /\ UNCHANGED <<routeVars, suVars, hasTimeout, permits, elevating, after, expected, shell,
                   retried, wrapped, fallback, nextShell, delivered>>

(* channel.exec() is one queue send: an error means nothing was queued. *)
ExecSend(c) ==
    /\ pc[c] = "send"
    /\ \/ /\ Goto(c, "collect")
          /\ delivered' = Set(delivered, c, delivered[c] + 1)
          /\ UNCHANGED faults
       \/ /\ FailureOn(gen[c])
          /\ Goto(c, IF retried[c] THEN "finish" ELSE "pre_invalidate")
          /\ UNCHANGED delivered
    /\ UNCHANGED <<routeVars, suVars, hasTimeout, permits, elevating, localVars,
                   nextShell>>

(* open_and_exec_with_reconnect_retry: reconnect and try the second time. *)
RetryBeforeExec(c) ==
    /\ pc[c] = "pre_invalidate"
    /\ Invalidate(gen[c])
    /\ retried' = Set(retried, c, TRUE)
    /\ after' = Set(after, c, "open")
    /\ gen' = Set(gen, c, 0)
    /\ Goto(c, "ensure")
    /\ UNCHANGED <<hasTimeout, permits, elevating, expected, shell, wrapped, fallback,
                   nextShell, faults, delivered>>

(* Output complete (wrapper exit 124 included). *)
CollectDone(c) ==
    /\ pc[c] = "collect"
    /\ Goto(c, "finish")
    /\ UNCHANGED <<routeVars, suVars, hasTimeout, permits, elevating, localVars,
                   nextShell, faults, delivered>>

CollectFailsInto(c, label) ==
    /\ pc[c] = "collect"
    /\ FailureOn(gen[c])
    /\ Goto(c, label)
    /\ UNCHANGED <<routeVars, suVars, hasTimeout, permits, elevating, localVars,
                   nextShell, delivered>>

(* Mutant: a channel lost after exec counts as not started. *)
CollectFailsRetrying(c) == CollectFailsInto(c, "pre_invalidate")

(* The channel ended without an exit status, or the local deadline passed    *)
(* (abort_command, then the route goes).  The fallback run keeps the route   *)
(* on a lost channel.                                                        *)
CollectFails(c) ==
    \/ CollectFailsInto(c, "invalidate")
    \/ fallback[c] /\ CollectFailsInto(c, "finish")

(* stderr says the wrapper does not exist: disable it and run the command     *)
(* itself, with a retry budget of its own.                                   *)
WrapperMissing(c) ==
    /\ pc[c] = "collect" /\ wrapped[c]
    /\ hasTimeout' = FALSE
    /\ wrapped' = Set(wrapped, c, FALSE)
    /\ fallback' = Set(fallback, c, TRUE)
    /\ retried' = Set(retried, c, FALSE)
    /\ Goto(c, "open")
    /\ UNCHANGED <<routeVars, suVars, permits, elevating, after, expected, gen, shell,
                   nextShell, faults, delivered>>

(* invalidate_session_for_generation with the command's own generation. *)
InvalidateAfter(c) ==
    /\ pc[c] = "invalidate"
    /\ Invalidate(gen[c])
    /\ Goto(c, "finish")
    /\ UNCHANGED <<hasTimeout, permits, elevating, localVars, nextShell, faults, delivered>>

FinishReleasing(c, n) ==
    /\ pc[c] = "finish"
    /\ permits' = permits + n
    /\ Goto(c, "done")
    /\ UNCHANGED <<routeVars, suVars, hasTimeout, elevating, localVars, nextShell,
                   faults, delivered>>

(* Mutant: the slot is not given back. *)
FinishKeepingSlot(c) == FinishReleasing(c, 0)

(* The result is returned and the permit dropped. *)
Finish(c) == FinishReleasing(c, 1)

(* execute_background_impl has its markers, an error or BACKGROUND_START_    *)
(* TIMEOUT; either way the permit is dropped with it.                        *)
LaunchEnds(c) ==
    /\ pc[c] = "launch"
    /\ permits' = permits + 1
    /\ Goto(c, "done")
    /\ UNCHANGED <<routeVars, suVars, hasTimeout, elevating, localVars, nextShell,
                   faults, delivered>>

(* The future of a command is dropped at any of its awaits, because the       *)
(* transfer it belongs to was cancelled and its grace is over or was aborted: *)
(* permit and elevation locks are released, a su shell it took is gone.       *)
DropCommand(c) ==
    /\ c \in Droppable /\ pc[c] \in SlotPcs
    /\ permits' = permits + 1
    /\ elevating' = elevating \ {c}
    /\ expected' = Set(expected, c, 0)
    /\ shell' = Set(shell, c, NoShell)
    /\ Goto(c, "dropped")
    /\ UNCHANGED <<routeVars, suVars, hasTimeout, after, gen, retried, wrapped,
                   fallback, nextShell, faults, delivered>>

-----------------------------------------------------------------------------

Step(c) ==
    \/ AcquireSlot(c) \/ EnsureConnected(c) \/ AutoElevate(c)
    \/ ElevationBegins(c) \/ ElevationOpens(c) \/ ElevationSucceeds(c) \/ ElevationFails(c)
    \/ Dispatch(c) \/ CheckWrapper(c) \/ TakeShell(c) \/ SuSend(c) \/ SuCollect(c)
    \/ RestoreShell(c) \/ OpenChannel(c) \/ ExecSend(c) \/ RetryBeforeExec(c)
    \/ CollectDone(c) \/ CollectFails(c) \/ WrapperMissing(c) \/ InvalidateAfter(c)
    \/ Finish(c) \/ LaunchEnds(c)

Next ==
    \/ \E c \in Cmds : Step(c) \/ DropCommand(c)
    \/ Establish \/ RouteDies \/ RouteRetired \/ CloseBegins \/ CloseTakesRoute

Spec == Init /\ [][Next]_vars

(***************************************************************************)
(* Commands are polled and tokio's semaphore and mutexes are FIFO; the     *)
(* remote side or its timeout ends every wait; Transport's recovery        *)
(* (RouteRecovers) brings a route back, or the budget error ends the wait. *)
(***************************************************************************)
Fairness ==
    /\ \A c \in Cmds : SF_vars(Step(c))
    /\ WF_vars(Establish)
    /\ WF_vars(RouteRetired /\ dead)

FairSpec == Spec /\ Fairness

-----------------------------------------------------------------------------

(* The payload of a command reaches the remote side at most once, however    *)
(* channels, routes and su shells fail around it; a second delivery only     *)
(* follows the remote report that the timeout wrapper does not exist.        *)
NoReplay == \A c \in Cmds : delivered[c] <= (IF fallback[c] THEN 2 ELSE 1)

(* The su state never outlives its route: an idle shell belongs to the       *)
(* current generation although shells are taken, given back and created by   *)
(* commands that started on earlier routes.                                  *)
SuStateOnRoute ==
    /\ suGen # 0 => suGen = current
    /\ suSlot # NoShell => isElevated /\ suSlot.gen = suGen

(* A su shell never serves two commands at once. *)
ShellNotShared ==
    \A c \in Cmds : shell[c] # NoShell =>
        /\ shell[c] # suSlot
        /\ \A d \in Cmds \ {c} : shell[c] # shell[d]

(* Slots are neither lost nor invented on any way out of exec_command. *)
SlotsConserved == permits + Cardinality({c \in Cmds : pc[c] \in SlotPcs}) = Slots

(* Every command and every background start ends although there are fewer    *)
(* slots than there are of them: no permit and no elevation lock is waited   *)
(* for forever, on whatever way the one before left.                         *)
CommandsFinish == <>(\A c \in Cmds : pc[c] \in {"done", "dropped"})

(* The elevation flag outlives the last su shell of its route only when a     *)
(* dropped call took that shell with it: else, while the flag is set, there   *)
(* is an idle shell, or a command has one and will give it back, or a command *)
(* that lost one is about to retire the route.  With the flag set and no      *)
(* shell every later command quietly runs as the SSH user, because            *)
(* auto-elevation is tried once per route.                                    *)
ElevatedHasShell ==
    isElevated /\ Live /\ ~shutting =>
        \/ suSlot # NoShell
        \/ \E c \in Cmds : /\ gen[c] = current
                         /\ (shell[c] # NoShell \/ pc[c] \in {"invalidate", "dropped"})

(* The root shell of a route is there exactly while it may be used: idle on  *)
(* its own route or with one command, and not forgotten while the flag says  *)
(* that commands are elevated, in every order of take, give back, elevation, *)
(* reconnect and drop.                                                       *)
SuShellsSound == SuStateOnRoute /\ ShellNotShared /\ ElevatedHasShell

=============================================================================
