------------------------------- MODULE Timer -------------------------------
(***************************************************************************)
(* timer/loop.go and timer/after.go: a Loop calls its callback on a queue  *)
(* once per Duration.  Every After is a goroutine that waits for its timer *)
(* and posts a tick; a tick calls the user and then, unless NextLoop asked *)
(* for it, sets the next After.  Nothing ties a tick to the Start it comes *)
(* from: it only reads running, without a lock.                            *)
(***************************************************************************)
EXTENDS EventQueue

CONSTANTS
    Loops,          \* the Loops of the program
    Starters,       \* goroutines that call Start
    MaxStarts       \* bound on the successful Starts of each

ASSUME TimerAssumption == IsFiniteSet(Loops) /\ MaxStarts \in Nat

VARIABLES
    running,        \* Loop.running
    after,          \* goroutines of After that have not posted their tick
    spc,            \* how far each Starter has got with its Start of a Loop
    starts,         \* Starts that found the Loop stopped
    spare           \* history: those that found a tick of an earlier one

timerVars == <<running, after, spc, starts, spare>>

Tick(l, nextLoop) == [kind |-> "tick", of |-> l, nextLoop |-> nextLoop]

ASSUME TickAssumption == \A l \in Loops : NoCallback # Tick(l, FALSE)

\* NewLoop.
TimerInit ==
    /\ running = [l \in Loops |-> FALSE]
    /\ after = [l \in Loops |-> 0]
    /\ spc = [u \in Starters |-> [l \in Loops |-> "idle"]]
    /\ starts = [l \in Loops |-> 0]
    /\ spare = [l \in Loops |-> 0]

\* The ticks of l that can still set another After.
Chains(l) ==
    after[l] + Cardinality({i \in DOMAIN queue : queue[i] = Tick(l, FALSE)})
             + (IF cur = Tick(l, FALSE) THEN 1 ELSE 0)

-----------------------------------------------------------------------------

(***************************************************************************)
(* Start and Stop on a goroutine of the user's, or in a tick's callback.   *)
(***************************************************************************)
Running(l) == running[l]

StartTest(u, l) ==
    /\ spc[u][l] = "idle"
    /\ ~Running(l)
    /\ starts[l] < MaxStarts
    /\ starts' = [starts EXCEPT ![l] = @ + 1]
    /\ spc' = [spc EXCEPT ![u][l] = "set"]
    /\ UNCHANGED <<queueVars, running, after, spare>>

StartSet(u, l) ==
    /\ spc[u][l] = "set"
    /\ running' = [running EXCEPT ![l] = TRUE]
    /\ spc' = [spc EXCEPT ![u][l] = "post"]
    /\ UNCHANGED <<queueVars, after, starts, spare>>

rawPost(l) == after' = [after EXCEPT ![l] = @ + 1]

StartPost(u, l) ==
    /\ spc[u][l] = "post"
    /\ rawPost(l)
    /\ spare' = [spare EXCEPT ![l] = @ + (IF Chains(l) > 0 THEN 1 ELSE 0)]
    /\ spc' = [spc EXCEPT ![u][l] = "idle"]
    /\ UNCHANGED <<queueVars, running, starts>>

Stop(l) == running' = [running EXCEPT ![l] = FALSE]

UserStop(l) ==
    /\ running[l]
    /\ Stop(l)
    /\ UNCHANGED <<queueVars, after, spc, starts, spare>>

InTick(l) == loop = "call" /\ cur \in {Tick(l, FALSE), Tick(l, TRUE)}

TickStops(l) ==
    /\ InTick(l)
    /\ running[l]
    /\ Stop(l)
    /\ loop' = "end"
    /\ UNCHANGED <<queue, cur, main, after, spc, starts, spare>>

\* NextLoop, which posts to the queue the callback runs on.
TickNextLoop(l) ==
    /\ InTick(l)
    /\ loop' = "post"
    /\ UNCHANGED <<queue, cur, main, timerVars>>

NextLoop(l) ==
    /\ loop = "post"
    /\ cur.of = l
    /\ Post(Tick(l, TRUE))
    /\ loop' = "end"
    /\ UNCHANGED <<cur, main, timerVars>>

(***************************************************************************)
(* After: its timer has run out, and its goroutine posts when there is     *)
(* room.                                                                   *)
(***************************************************************************)
AfterPost(l) ==
    /\ after[l] > 0
    /\ after' = [after EXCEPT ![l] = @ - 1]
    /\ Post(Tick(l, FALSE))
    /\ UNCHANGED <<loop, cur, main, running, spc, starts, spare>>

\* MUTANT: a tick that NextLoop asked for sets an After as well.
TickEndAlways(l) ==
    /\ cur \in {Tick(l, FALSE), Tick(l, TRUE)}
    /\ LoopReturn
    /\ IF running[l] THEN rawPost(l) ELSE UNCHANGED after
    /\ UNCHANGED <<queue, main, running, spc, starts, spare>>

\* MUTANT: a tick that finds NextLoop's tick in the queue leaves it at that.
TickEndSkips(l) ==
    /\ cur \in {Tick(l, FALSE), Tick(l, TRUE)}
    /\ LoopReturn
    /\ IF running[l] /\ ~cur.nextLoop /\ \A i \in DOMAIN queue : queue[i] # Tick(l, TRUE)
       THEN rawPost(l) ELSE UNCHANGED after
    /\ UNCHANGED <<queue, main, running, spc, starts, spare>>

\* The rest of tick, after Notify.
TickEnd(l) ==
    /\ cur \in {Tick(l, FALSE), Tick(l, TRUE)}
    /\ LoopReturn
    /\ IF running[l] /\ ~cur.nextLoop THEN rawPost(l) ELSE UNCHANGED after
    /\ UNCHANGED <<queue, main, running, spc, starts, spare>>

-----------------------------------------------------------------------------

\* A Loop that runs is not left without a tick, however Stop, Start and
\* NextLoop interleave with the ticks (timer/loop.go:68): its callback is
\* called again, unless it is stopped or the loop of the queue is stuck.
TickComes ==
    \A l \in Loops : running[l] ~> InTick(l) \/ ~running[l] \/ Stuck

\* A Loop has one tick per Duration: only a Start that comes while a tick of
\* an earlier one is due adds another, neither NextLoop nor a Start on a Loop
\* that runs or has been quiet does (timer/loop.go:24, 74).
NoSpareTicks == \A l \in Loops : Chains(l) <= 1 + spare[l]

=============================================================================
