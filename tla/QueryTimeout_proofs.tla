------------------------ MODULE QueryTimeout_proofs ------------------------
(***************************************************************************)
(* Proofs about QueryTimeout, for every set of sessions, requests and      *)
(* cancellers, every choice of timeouts and every bound.  The safety       *)
(* invariants of QueryTimeout are not inductive; their strengthening is    *)
(* the conjunction of five parts, each of which only leans on the ones     *)
(* before it.                                                              *)
(***************************************************************************)
EXTENDS QueryTimeout, TLAPS

Inspecting == {"deadline", "generation", "mark", "interrupt"}
Arming     == {"bumped", "cleared", "armed"}
Answered   == {"answered", "disarmed", "unguarded"}
Armed      == {"armed", "guarded", "executing", "fetching", "failed",
               "classify", "readCause", "answered"}
AfterBump  == UnderGuard \union {"unguarded"}

\* Types, and the sweeper and the cancellers point at real sessions.
TypeInv ==
    /\ TypeOK
    /\ spc \in Inspecting => cur \in Sessions
    /\ \A c \in Cancels : cpc[c] # "idle" => csess[c] \in Sessions

\* The lock names exactly the request that is between try_lock and unlock.
LockInv ==
    /\ \A r \in Requests : pc[r] \in Locked => lock[sess[r]] = r
    /\ \A s \in Sessions : lock[s] # NoRequest =>
         sess[lock[s]] = s /\ pc[lock[s]] \in Locked

\* The guard's state is that of the lock's owner.
GuardInv ==
    /\ \A r \in Requests : pc[r] \in AfterBump =>
         gen[sess[r]] = mine[r] /\ mine[r] >= 1
    /\ \A s \in Sessions : inFlight[s] \/ deadline[s] # 0 =>
         lock[s] # NoRequest /\ pc[lock[s]] \in UnderGuard
    /\ \A r \in Requests :
         pc[r] \in {"bumped", "cleared", "disarmed", "unguarded"} =>
           deadline[sess[r]] = 0
    /\ \A r \in Requests : pc[r] \in Arming => ~inFlight[sess[r]]

\* What the sweeper has read, and the mark it leaves, lag behind the session.
SweepInv ==
    /\ now <= clock
    /\ \A s \in Sessions :
         /\ timedOut[s] <= gen[s]
         /\ observed[s] <= gen[s]
         /\ timedOut[s] # 0 => observed[s] # 0
    /\ spc \in {"generation", "mark", "interrupt"} => observed[cur] # 0
    /\ spc \in {"mark", "interrupt"} => mark <= gen[cur]
    /\ spc = "mark" => timedOut[cur] <= mark
    /\ spc = "interrupt" => timedOut[cur] = mark
    /\ \A r \in Requests : pc[r] \in {"bumped", "cleared"} =>
         observed[sess[r]] < mine[r]
    /\ \A r \in Requests :
         pc[r] \in Armed /\ observed[sess[r]] = mine[r] => Overdue(sess[r])

\* A recorded cause that the running query can read was recorded for it.
CauseInv ==
    /\ \A r \in Requests :
         /\ pc[r] \in AfterBump \ {"bumped"}
         /\ cause[sess[r]] = "USER_CANCEL"
         => causeGen[sess[r]] = mine[r]
    /\ \A r \in Requests : outcome[r] # "none" => pc[r] \in Answered
    /\ CancelledWasAsked

\* An interrupt aimed at a query comes after the mark or the cause that
\* classifies it, and neither is lost while the query runs.
AimInv ==
    /\ \A c \in Cancels : cpc[c] = "stored" => caim[c] <= gen[csess[c]]
    /\ \A s \in Sessions : \A g \in hits[s] : g <= gen[s]
    /\ \A r \in Requests : \A c \in Cancels :
         pc[r] \in Arming /\ cpc[c] = "stored" /\ csess[c] = sess[r]
           => caim[c] < mine[r]
    /\ \A r \in Requests :
         pc[r] \in Arming /\ mine[r] \in hits[sess[r]]
           => timedOut[sess[r]] = mine[r]
    /\ \A c \in Cancels :
         cpc[c] = "stored" /\ caim[c] # 0 /\ caim[c] = gen[csess[c]]
           => cause[csess[c]] = "USER_CANCEL"
    /\ \A s \in Sessions : gen[s] # 0 /\ gen[s] \in hits[s] =>
         timedOut[s] = gen[s] \/ cause[s] = "USER_CANCEL"
    /\ \A r \in Requests :
         pc[r] \in {"classify", "readCause"} /\ mine[r] \in cutBy[r]
           => timedOut[sess[r]] = mine[r] \/ cause[sess[r]] = "USER_CANCEL"
    /\ \A r \in Requests :
         pc[r] = "readCause" /\ mine[r] \in cutBy[r]
           => cause[sess[r]] = "USER_CANCEL"
    /\ AimedInterruptReported

IInv == TypeInv /\ LockInv /\ GuardInv /\ SweepInv /\ CauseInv /\ AimInv

-----------------------------------------------------------------------------

LEMMA InitIInv == Init => IInv
BY ConstantsAssumption
   DEF Init, IInv, TypeInv, TypeOK, LockInv, GuardInv, SweepInv, CauseInv,
       AimInv, CancelledWasAsked, AimedInterruptReported, Inspecting, Arming,
       Answered, Armed, AfterBump, UnderGuard, Locked, RequestPC, Shapes,
       Outcomes, Seen

\* Types are preserved.
LEMMA TypeStep == TypeInv /\ [Next]_vars => TypeInv'
<1> SUFFICES ASSUME TypeInv, [Next]_vars
             PROVE  TypeInv'
    OBVIOUS
<1> USE ConstantsAssumption
        DEF TypeInv, TypeOK, sessionVars, requestVars, sweepVars, cancelVars,
            historyVars
<1> USE DEF RequestPC, Shapes, Outcomes, Seen, Inspecting
<1>1. ASSUME NEW r \in Requests, NEW s \in Sessions, Resolve(r, s)
      PROVE  TypeInv'
    BY <1>1 DEF Resolve, Step, Goto
<1>2. ASSUME NEW r \in Requests, TryLock(r) \/ Busy(r) \/ Reject(r) \/ Unlock(r)
      PROVE  TypeInv'
    <2>1. CASE TryLock(r)  BY <2>1 DEF TryLock, Step, Goto
    <2>2. CASE Busy(r)     BY <2>2 DEF Busy, Return, Goto
    <2>3. CASE Reject(r)   BY <2>3 DEF Reject, Return, Goto
    <2>4. CASE Unlock(r)   BY <2>4 DEF Unlock, Return, Goto
    <2> QED  BY <1>2, <2>1, <2>2, <2>3, <2>4
<1>3. ASSUME NEW r \in Requests, GuardSteps(r)
      PROVE  TypeInv'
    <2>1. CASE GuardGeneration(r)     BY <2>1 DEF GuardGeneration, Step, Goto
    <2>2. CASE GuardCause(r)          BY <2>2 DEF GuardCause, Step, Goto
    <2>3. CASE GuardDeadline(r)       BY <2>3 DEF GuardDeadline, Step, Goto
    <2>4. CASE GuardInFlight(r)       BY <2>4 DEF GuardInFlight, Step, Goto
    <2>5. CASE GuardClearDeadline(r)  BY <2>5 DEF GuardClearDeadline, Step, Goto
    <2>6. CASE GuardClearInFlight(r)  BY <2>6 DEF GuardClearInFlight, Step, Goto
    <2> QED  BY <1>3, <2>1, <2>2, <2>3, <2>4, <2>5, <2>6 DEF GuardSteps
<1>4. ASSUME NEW r \in Requests, ExecuteStart(r) \/ QuerySteps(r)
      PROVE  TypeInv'
    <2>1. CASE ExecuteStart(r)    BY <2>1 DEF ExecuteStart, Step, Goto
    <2>2. CASE ExecuteFails(r)    BY <2>2 DEF ExecuteFails, Step, Goto
    <2>3. CASE ExecuteReturns(r)  BY <2>3 DEF ExecuteReturns, Step, Goto
    <2>4. CASE Fetch(r)           BY <2>4 DEF Fetch, Step, Goto
    <2> QED  BY <1>4, <2>1, <2>2, <2>3, <2>4 DEF QuerySteps
<1>5. ASSUME NEW r \in Requests, AnswerSteps(r)
      PROVE  TypeInv'
    <2>1. CASE AnswerFailed(r)      BY <2>1 DEF AnswerFailed, Step, Goto
    <2>2. CASE AnswerOneShot(r)     BY <2>2 DEF AnswerOneShot, Step, Goto
    <2>3. CASE AnswerStreamStop(r)  BY <2>3 DEF AnswerStreamStop, Step, Goto
    <2>4. CASE StreamTimedOut(r)    BY SMTT(30), <2>4 DEF StreamTimedOut, Goto
    <2>5. CASE StreamCause(r)       BY <2>5 DEF StreamCause, Step, Goto
    <2> QED  BY <1>5, <2>1, <2>2, <2>3, <2>4, <2>5 DEF AnswerSteps
<1>6. CASE Sweeper
    <2>1. CASE SweepCopy        BY <2>1 DEF SweepCopy
    <2>2. CASE SweepClock       BY <2>2 DEF SweepClock
    <2>3. CASE SweepDone        BY <2>3 DEF SweepDone
    <2>4. ASSUME NEW s \in Sessions, SweepInFlight(s)
          PROVE  TypeInv'
        BY <2>4 DEF SweepInFlight, SweepContinue
    <2>5. CASE SweepDeadline    BY <2>5 DEF SweepDeadline, SweepContinue
    <2>6. CASE SweepGeneration  BY <2>6 DEF SweepGeneration
    <2>7. CASE SweepMark        BY <2>7 DEF SweepMark
    <2>8. CASE SweepInterrupt   BY <2>8 DEF SweepInterrupt, SweepContinue
    <2> QED  BY <1>6, <2>1, <2>2, <2>3, <2>4, <2>5, <2>6, <2>7, <2>8 DEF Sweeper
<1>7. ASSUME NEW c \in Cancels, Canceller(c)
      PROVE  TypeInv'
    <2>1. ASSUME NEW s \in Sessions, CancelLookup(c, s)
          PROVE  TypeInv'
        BY <2>1 DEF CancelLookup
    <2>2. CASE CancelStore(c)      BY <2>2 DEF CancelStore
    <2>3. CASE CancelInterrupt(c)  BY <2>3 DEF CancelInterrupt
    <2> QED  BY <1>7, <2>1, <2>2, <2>3 DEF Canceller
<1>8. ASSUME NEW s \in Sessions, Destroy(s)
      PROVE  TypeInv'
    BY <1>8 DEF Destroy
<1>9. CASE Tick
    BY <1>9 DEF Tick
<1>10. CASE UNCHANGED vars
    BY <1>10 DEF vars
<1> QED
    BY <1>1, <1>2, <1>3, <1>4, <1>5, <1>6, <1>7, <1>8, <1>9, <1>10
       DEF Next, Handler

\* What the sweeper, the cancellers and the clock leave alone.
LEMMA RequestsKept ==
    ASSUME \/ Sweeper
           \/ \E c \in Cancels : Canceller(c)
           \/ \E s \in Sessions : Destroy(s)
           \/ Tick
           \/ UNCHANGED vars
    PROVE  UNCHANGED <<lock, gen, deadline, inFlight, pc, sess, mine, shape,
                       seen, outcome, cutBy>>
<1> USE DEF sessionVars, requestVars, historyVars
<1>1. CASE Sweeper
    BY <1>1 DEF Sweeper, SweepCopy, SweepClock, SweepDone, SweepInFlight,
                SweepDeadline, SweepGeneration, SweepMark, SweepInterrupt
<1>2. CASE \E c \in Cancels : Canceller(c)
    BY <1>2 DEF Canceller, CancelLookup, CancelStore, CancelInterrupt
<1>3. CASE (\E s \in Sessions : Destroy(s)) \/ Tick \/ UNCHANGED vars
    BY <1>3 DEF Destroy, Tick, vars
<1> QED  BY <1>1, <1>2, <1>3

\* The lock and the owner's program counter move together.
LEMMA LockStep == TypeInv /\ LockInv /\ [Next]_vars => LockInv'
<1> SUFFICES ASSUME TypeInv, LockInv, [Next]_vars
             PROVE  LockInv'
    OBVIOUS
<1> USE ConstantsAssumption
        DEF TypeInv, TypeOK, LockInv, Locked, UnderGuard, RequestPC
<1>1. ASSUME NEW r \in Requests, NEW s \in Sessions, Resolve(r, s)
      PROVE  LockInv'
    BY <1>1 DEF Resolve, Step, Goto, sessionVars
<1>2. ASSUME NEW r \in Requests, TryLock(r) \/ Busy(r) \/ Reject(r) \/ Unlock(r)
      PROVE  LockInv'
    <2>1. CASE TryLock(r)  BY <2>1 DEF TryLock, Step, Goto
    <2>2. CASE Busy(r)     BY <2>2 DEF Busy, Return, Goto, sessionVars
    <2>3. CASE Reject(r)   BY <2>3 DEF Reject, Return, Goto
    <2>4. CASE Unlock(r)   BY <2>4 DEF Unlock, Return, Goto
    <2> QED  BY <1>2, <2>1, <2>2, <2>3, <2>4
<1>3. ASSUME NEW r \in Requests, GuardSteps(r)
      PROVE  LockInv'
    <2>1. CASE GuardGeneration(r)     BY <2>1 DEF GuardGeneration, Step, Goto
    <2>2. CASE GuardCause(r)          BY <2>2 DEF GuardCause, Step, Goto
    <2>3. CASE GuardDeadline(r)       BY <2>3 DEF GuardDeadline, Step, Goto
    <2>4. CASE GuardInFlight(r)       BY <2>4 DEF GuardInFlight, Step, Goto
    <2>5. CASE GuardClearDeadline(r)  BY <2>5 DEF GuardClearDeadline, Step, Goto
    <2>6. CASE GuardClearInFlight(r)  BY <2>6 DEF GuardClearInFlight, Step, Goto
    <2> QED  BY <1>3, <2>1, <2>2, <2>3, <2>4, <2>5, <2>6 DEF GuardSteps
<1>4. ASSUME NEW r \in Requests, ExecuteStart(r) \/ QuerySteps(r)
      PROVE  LockInv'
    <2> USE DEF sessionVars, Step, Goto
    <2>1. CASE ExecuteStart(r)    BY <2>1 DEF ExecuteStart
    <2>2. CASE ExecuteFails(r)    BY <2>2 DEF ExecuteFails
    <2>3. CASE ExecuteReturns(r)  BY <2>3 DEF ExecuteReturns
    <2>4. CASE Fetch(r)           BY <2>4 DEF Fetch
    <2> QED  BY <1>4, <2>1, <2>2, <2>3, <2>4 DEF QuerySteps
<1>5. ASSUME NEW r \in Requests, AnswerSteps(r)
      PROVE  LockInv'
    <2> USE DEF sessionVars, Step, Goto
    <2>1. CASE AnswerFailed(r)      BY <2>1 DEF AnswerFailed
    <2>2. CASE AnswerOneShot(r)     BY <2>2 DEF AnswerOneShot
    <2>3. CASE AnswerStreamStop(r)  BY <2>3 DEF AnswerStreamStop
    <2>4. CASE StreamTimedOut(r)    BY SMTT(30), <2>4 DEF StreamTimedOut
    <2>5. CASE StreamCause(r)       BY <2>5 DEF StreamCause
    <2> QED  BY <1>5, <2>1, <2>2, <2>3, <2>4, <2>5 DEF AnswerSteps
<1>6. CASE Sweeper \/ (\E c \in Cancels : Canceller(c))
           \/ (\E s \in Sessions : Destroy(s)) \/ Tick \/ UNCHANGED vars
    <2>1. UNCHANGED <<lock, sess, pc>>
        BY <1>6, RequestsKept
    <2> QED  BY <2>1
<1> QED
    BY <1>1, <1>2, <1>3, <1>4, <1>5, <1>6 DEF Next, Handler

\* Only the owner of the lock arms and disarms a session.
LEMMA GuardStep == TypeInv /\ LockInv /\ GuardInv /\ [Next]_vars => GuardInv'
<1> SUFFICES ASSUME TypeInv, LockInv, GuardInv, [Next]_vars
             PROVE  GuardInv'
    OBVIOUS
<1> USE ConstantsAssumption
        DEF TypeInv, TypeOK, LockInv, GuardInv, Arming, AfterBump, Locked,
            UnderGuard, RequestPC
<1> USE DEF Step, Goto, Return, sessionVars, requestVars, sweepVars,
        cancelVars, historyVars
<1>1. ASSUME NEW r \in Requests, NEW s \in Sessions, Resolve(r, s)
      PROVE  GuardInv'
    BY <1>1 DEF Resolve
<1>2. ASSUME NEW r \in Requests, TryLock(r) \/ Busy(r) \/ Reject(r) \/ Unlock(r)
      PROVE  GuardInv'
    <2>1. CASE TryLock(r)  BY <2>1 DEF TryLock
    <2>2. CASE Busy(r)     BY <2>2 DEF Busy
    <2>3. CASE Reject(r)   BY <2>3 DEF Reject
    <2>4. CASE Unlock(r)   BY <2>4 DEF Unlock
    <2> QED  BY <1>2, <2>1, <2>2, <2>3, <2>4
<1>3. ASSUME NEW r \in Requests, GuardSteps(r)
      PROVE  GuardInv'
    <2>1. CASE GuardGeneration(r)     BY <2>1 DEF GuardGeneration
    <2>2. CASE GuardCause(r)          BY <2>2 DEF GuardCause
    <2>3. CASE GuardDeadline(r)       BY <2>3 DEF GuardDeadline
    <2>4. CASE GuardInFlight(r)       BY <2>4 DEF GuardInFlight
    <2>5. CASE GuardClearDeadline(r)  BY <2>5 DEF GuardClearDeadline
    <2>6. CASE GuardClearInFlight(r)  BY <2>6 DEF GuardClearInFlight
    <2> QED  BY <1>3, <2>1, <2>2, <2>3, <2>4, <2>5, <2>6 DEF GuardSteps
<1>4. ASSUME NEW r \in Requests, ExecuteStart(r) \/ QuerySteps(r)
      PROVE  GuardInv'
    <2>1. CASE ExecuteStart(r)    BY <2>1 DEF ExecuteStart
    <2>2. CASE ExecuteFails(r)    BY <2>2 DEF ExecuteFails
    <2>3. CASE ExecuteReturns(r)  BY <2>3 DEF ExecuteReturns
    <2>4. CASE Fetch(r)           BY <2>4 DEF Fetch
    <2> QED  BY <1>4, <2>1, <2>2, <2>3, <2>4 DEF QuerySteps
<1>5. ASSUME NEW r \in Requests, AnswerSteps(r)
      PROVE  GuardInv'
    <2>1. CASE AnswerFailed(r)      BY <2>1 DEF AnswerFailed
    <2>2. CASE AnswerOneShot(r)     BY <2>2 DEF AnswerOneShot
    <2>3. CASE AnswerStreamStop(r)  BY <2>3 DEF AnswerStreamStop
    <2>4. CASE StreamTimedOut(r)
        <3>1. CASE timedOut[sess[r]] = mine[r]
            BY <2>4, <3>1 DEF StreamTimedOut
        <3>2. CASE timedOut[sess[r]] # mine[r]
            BY <2>4, <3>2 DEF StreamTimedOut
        <3> QED  BY <3>1, <3>2
    <2>5. CASE StreamCause(r)       BY <2>5 DEF StreamCause
    <2> QED  BY <1>5, <2>1, <2>2, <2>3, <2>4, <2>5 DEF AnswerSteps
<1>6. CASE Sweeper \/ (\E c \in Cancels : Canceller(c))
           \/ (\E s \in Sessions : Destroy(s)) \/ Tick \/ UNCHANGED vars
    BY <1>6, RequestsKept
<1> QED
    BY <1>1, <1>2, <1>3, <1>4, <1>5, <1>6 DEF Next, Handler

\* A mark never runs ahead of the generation, and an observation that names
\* the running query was made of its own deadline.
LEMMA SweepStep == TypeInv /\ LockInv /\ GuardInv /\ SweepInv /\ [Next]_vars => SweepInv'
<1> SUFFICES ASSUME TypeInv, LockInv, GuardInv, SweepInv, [Next]_vars
             PROVE  SweepInv'
    OBVIOUS
<1> USE ConstantsAssumption
        DEF TypeInv, TypeOK, LockInv, GuardInv, SweepInv, Overdue, Arming,
            Armed, AfterBump, Locked, UnderGuard, RequestPC, Inspecting
<1> USE DEF Step, Goto, Return, sessionVars, requestVars, sweepVars,
        cancelVars, historyVars
<1>1. ASSUME NEW r \in Requests, NEW s \in Sessions, Resolve(r, s)
      PROVE  SweepInv'
    BY <1>1 DEF Resolve
<1>2. ASSUME NEW r \in Requests, TryLock(r) \/ Busy(r) \/ Reject(r) \/ Unlock(r)
      PROVE  SweepInv'
    <2>1. CASE TryLock(r)  BY <2>1 DEF TryLock
    <2>2. CASE Busy(r)     BY <2>2 DEF Busy
    <2>3. CASE Reject(r)   BY <2>3 DEF Reject
    <2>4. CASE Unlock(r)   BY <2>4 DEF Unlock
    <2> QED  BY <1>2, <2>1, <2>2, <2>3, <2>4
<1>3. ASSUME NEW r \in Requests, GuardSteps(r)
      PROVE  SweepInv'
    <2>1. CASE GuardGeneration(r)     BY <2>1 DEF GuardGeneration
    <2>2. CASE GuardCause(r)          BY <2>2 DEF GuardCause
    <2>3. CASE GuardDeadline(r)       BY <2>3 DEF GuardDeadline
    <2>4. CASE GuardInFlight(r)       BY <2>4 DEF GuardInFlight
    <2>5. CASE GuardClearDeadline(r)  BY <2>5 DEF GuardClearDeadline
    <2>6. CASE GuardClearInFlight(r)  BY <2>6 DEF GuardClearInFlight
    <2> QED  BY <1>3, <2>1, <2>2, <2>3, <2>4, <2>5, <2>6 DEF GuardSteps
<1>4. ASSUME NEW r \in Requests, ExecuteStart(r) \/ QuerySteps(r)
      PROVE  SweepInv'
    <2>1. CASE ExecuteStart(r)    BY <2>1 DEF ExecuteStart
    <2>2. CASE ExecuteFails(r)    BY <2>2 DEF ExecuteFails
    <2>3. CASE ExecuteReturns(r)  BY <2>3 DEF ExecuteReturns
    <2>4. CASE Fetch(r)           BY <2>4 DEF Fetch
    <2> QED  BY <1>4, <2>1, <2>2, <2>3, <2>4 DEF QuerySteps
<1>5. ASSUME NEW r \in Requests, AnswerSteps(r)
      PROVE  SweepInv'
    <2>1. CASE AnswerFailed(r)      BY <2>1 DEF AnswerFailed
    <2>2. CASE AnswerOneShot(r)     BY <2>2 DEF AnswerOneShot
    <2>3. CASE AnswerStreamStop(r)  BY <2>3 DEF AnswerStreamStop
    <2>4. CASE StreamTimedOut(r)    BY <2>4 DEF StreamTimedOut
    <2>5. CASE StreamCause(r)       BY <2>5 DEF StreamCause
    <2> QED  BY <1>5, <2>1, <2>2, <2>3, <2>4, <2>5 DEF AnswerSteps
<1>6. CASE Sweeper
    <2>1. CASE SweepCopy        BY <2>1 DEF SweepCopy
    <2>2. CASE SweepClock       BY <2>2 DEF SweepClock
    <2>3. CASE SweepDone        BY <2>3 DEF SweepDone
    <2>4. ASSUME NEW s \in Sessions, SweepInFlight(s)
          PROVE  SweepInv'
        BY <2>4 DEF SweepInFlight, SweepContinue
    <2>5. CASE SweepDeadline    BY <2>5 DEF SweepDeadline, SweepContinue
    <2>6. CASE SweepGeneration  BY <2>6 DEF SweepGeneration
    <2>7. CASE SweepMark        BY <2>7 DEF SweepMark
    <2>8. CASE SweepInterrupt   BY <2>8 DEF SweepInterrupt, SweepContinue
    <2> QED  BY <1>6, <2>1, <2>2, <2>3, <2>4, <2>5, <2>6, <2>7, <2>8 DEF Sweeper
<1>7. ASSUME NEW c \in Cancels, Canceller(c)
      PROVE  SweepInv'
    <2>1. ASSUME NEW s \in Sessions, CancelLookup(c, s)
          PROVE  SweepInv'
        BY <2>1 DEF CancelLookup
    <2>2. CASE CancelStore(c)      BY <2>2 DEF CancelStore
    <2>3. CASE CancelInterrupt(c)  BY <2>3 DEF CancelInterrupt
    <2> QED  BY <1>7, <2>1, <2>2, <2>3 DEF Canceller
<1>8. ASSUME NEW s \in Sessions, Destroy(s)
      PROVE  SweepInv'
    BY <1>8 DEF Destroy
<1>9. CASE Tick
    BY <1>9 DEF Tick
<1>10. CASE UNCHANGED vars
    BY <1>10 DEF vars
<1> QED
    BY <1>1, <1>2, <1>3, <1>4, <1>5, <1>6, <1>7, <1>8, <1>9, <1>10 DEF Next, Handler

\* The constructor forgets the cause before anyone can ask for it.
LEMMA CauseStep == TypeInv /\ LockInv /\ GuardInv /\ CauseInv /\ [Next]_vars => CauseInv'
<1> SUFFICES ASSUME TypeInv, LockInv, GuardInv, CauseInv, [Next]_vars
             PROVE  CauseInv'
    OBVIOUS
<1> USE ConstantsAssumption
        DEF TypeInv, TypeOK, LockInv, GuardInv, CauseInv, CancelledWasAsked,
            Answered, AfterBump, Locked, UnderGuard, RequestPC, Outcomes, Shapes, Seen
<1> USE DEF Step, Goto, Return, sessionVars, requestVars, sweepVars,
        cancelVars, historyVars
<1>1. ASSUME NEW r \in Requests, NEW s \in Sessions, Resolve(r, s)
      PROVE  CauseInv'
    BY <1>1 DEF Resolve
<1>2. ASSUME NEW r \in Requests, TryLock(r) \/ Busy(r) \/ Reject(r) \/ Unlock(r)
      PROVE  CauseInv'
    <2>1. CASE TryLock(r)  BY <2>1 DEF TryLock
    <2>2. CASE Busy(r)     BY <2>2 DEF Busy
    <2>3. CASE Reject(r)   BY <2>3 DEF Reject
    <2>4. CASE Unlock(r)   BY <2>4 DEF Unlock
    <2> QED  BY <1>2, <2>1, <2>2, <2>3, <2>4
<1>3. ASSUME NEW r \in Requests, GuardSteps(r)
      PROVE  CauseInv'
    <2>1. CASE GuardGeneration(r)     BY <2>1 DEF GuardGeneration
    <2>2. CASE GuardCause(r)          BY <2>2 DEF GuardCause
    <2>3. CASE GuardDeadline(r)       BY <2>3 DEF GuardDeadline
    <2>4. CASE GuardInFlight(r)       BY <2>4 DEF GuardInFlight
    <2>5. CASE GuardClearDeadline(r)  BY <2>5 DEF GuardClearDeadline
    <2>6. CASE GuardClearInFlight(r)  BY <2>6 DEF GuardClearInFlight
    <2> QED  BY <1>3, <2>1, <2>2, <2>3, <2>4, <2>5, <2>6 DEF GuardSteps
<1>4. ASSUME NEW r \in Requests, ExecuteStart(r) \/ QuerySteps(r)
      PROVE  CauseInv'
    <2>1. CASE ExecuteStart(r)    BY <2>1 DEF ExecuteStart
    <2>2. CASE ExecuteFails(r)    BY <2>2 DEF ExecuteFails
    <2>3. CASE ExecuteReturns(r)  BY <2>3 DEF ExecuteReturns
    <2>4. CASE Fetch(r)           BY <2>4 DEF Fetch
    <2> QED  BY <1>4, <2>1, <2>2, <2>3, <2>4 DEF QuerySteps
<1>5. ASSUME NEW r \in Requests, AnswerSteps(r)
      PROVE  CauseInv'
    <2>1. CASE AnswerFailed(r)      BY <2>1 DEF AnswerFailed
    <2>2. CASE AnswerOneShot(r)     BY <2>2 DEF AnswerOneShot
    <2>3. CASE AnswerStreamStop(r)  BY <2>3 DEF AnswerStreamStop
    <2>4. CASE StreamTimedOut(r)
        <3>1. CASE timedOut[sess[r]] = mine[r]
            BY <2>4, <3>1 DEF StreamTimedOut
        <3>2. CASE timedOut[sess[r]] # mine[r]
            BY <2>4, <3>2 DEF StreamTimedOut
        <3> QED  BY <3>1, <3>2
    <2>5. CASE StreamCause(r)       BY <2>5 DEF StreamCause
    <2> QED  BY <1>5, <2>1, <2>2, <2>3, <2>4, <2>5 DEF AnswerSteps
<1>6. CASE Sweeper
    <2>1. CASE SweepCopy        BY <2>1 DEF SweepCopy
    <2>2. CASE SweepClock       BY <2>2 DEF SweepClock
    <2>3. CASE SweepDone        BY <2>3 DEF SweepDone
    <2>4. ASSUME NEW s \in Sessions, SweepInFlight(s)
          PROVE  CauseInv'
        BY <2>4 DEF SweepInFlight, SweepContinue
    <2>5. CASE SweepDeadline    BY <2>5 DEF SweepDeadline, SweepContinue
    <2>6. CASE SweepGeneration  BY <2>6 DEF SweepGeneration
    <2>7. CASE SweepMark        BY <2>7 DEF SweepMark
    <2>8. CASE SweepInterrupt   BY <2>8 DEF SweepInterrupt, SweepContinue
    <2> QED  BY <1>6, <2>1, <2>2, <2>3, <2>4, <2>5, <2>6, <2>7, <2>8 DEF Sweeper
<1>7. ASSUME NEW c \in Cancels, Canceller(c)
      PROVE  CauseInv'
    <2>1. ASSUME NEW s \in Sessions, CancelLookup(c, s)
          PROVE  CauseInv'
        BY <2>1 DEF CancelLookup
    <2>2. CASE CancelStore(c)      BY <2>2 DEF CancelStore
    <2>3. CASE CancelInterrupt(c)  BY <2>3 DEF CancelInterrupt
    <2> QED  BY <1>7, <2>1, <2>2, <2>3 DEF Canceller
<1>8. ASSUME NEW s \in Sessions, Destroy(s)
      PROVE  CauseInv'
    BY <1>8 DEF Destroy
<1>9. CASE Tick
    BY <1>9 DEF Tick
<1>10. CASE UNCHANGED vars
    BY <1>10 DEF vars
<1> QED
    BY <1>1, <1>2, <1>3, <1>4, <1>5, <1>6, <1>7, <1>8, <1>9, <1>10 DEF Next, Handler

\* The mark or the cause is in place before the interrupt lands, and stays
\* there until the answer is given.
LEMMA AimStep == TypeInv /\ LockInv /\ GuardInv /\ SweepInv /\ CauseInv /\ AimInv /\ [Next]_vars => AimInv'
<1> SUFFICES ASSUME TypeInv, LockInv, GuardInv, SweepInv, CauseInv, AimInv, [Next]_vars
             PROVE  AimInv'
    OBVIOUS
<1> USE ConstantsAssumption
        DEF TypeInv, TypeOK, LockInv, GuardInv, SweepInv, CauseInv, AimInv,
            AimedInterruptReported, Answered, Armed, Arming, AfterBump, Locked,
            UnderGuard, RequestPC, Outcomes, Shapes, Seen, Inspecting
<1> USE DEF Step, Goto, Return, sessionVars, requestVars, sweepVars,
        cancelVars, historyVars
<1>1. ASSUME NEW r \in Requests, NEW s \in Sessions, Resolve(r, s)
      PROVE  AimInv'
    BY <1>1 DEF Resolve
<1>2. ASSUME NEW r \in Requests, TryLock(r) \/ Busy(r) \/ Reject(r) \/ Unlock(r)
      PROVE  AimInv'
    <2>1. CASE TryLock(r)  BY <2>1 DEF TryLock
    <2>2. CASE Busy(r)     BY <2>2 DEF Busy
    <2>3. CASE Reject(r)   BY <2>3 DEF Reject
    <2>4. CASE Unlock(r)   BY <2>4 DEF Unlock
    <2> QED  BY <1>2, <2>1, <2>2, <2>3, <2>4
<1>3. ASSUME NEW r \in Requests, GuardSteps(r)
      PROVE  AimInv'
    <2>1. CASE GuardGeneration(r)     BY <2>1 DEF GuardGeneration
    <2>2. CASE GuardCause(r)          BY <2>2 DEF GuardCause
    <2>3. CASE GuardDeadline(r)       BY <2>3 DEF GuardDeadline
    <2>4. CASE GuardInFlight(r)       BY <2>4 DEF GuardInFlight
    <2>5. CASE GuardClearDeadline(r)  BY <2>5 DEF GuardClearDeadline
    <2>6. CASE GuardClearInFlight(r)  BY <2>6 DEF GuardClearInFlight
    <2> QED  BY <1>3, <2>1, <2>2, <2>3, <2>4, <2>5, <2>6 DEF GuardSteps
<1>4. ASSUME NEW r \in Requests, ExecuteStart(r) \/ QuerySteps(r)
      PROVE  AimInv'
    <2>1. CASE ExecuteStart(r)    BY <2>1 DEF ExecuteStart
    <2>2. CASE ExecuteFails(r)    BY <2>2 DEF ExecuteFails
    <2>3. CASE ExecuteReturns(r)  BY SMTT(30), <2>3 DEF ExecuteReturns
    <2>4. CASE Fetch(r)           BY <2>4 DEF Fetch
    <2> QED  BY <1>4, <2>1, <2>2, <2>3, <2>4 DEF QuerySteps
<1>5. ASSUME NEW r \in Requests, AnswerSteps(r)
      PROVE  AimInv'
    <2>1. CASE AnswerFailed(r)      BY <2>1 DEF AnswerFailed
    <2>2. CASE AnswerOneShot(r)     BY <2>2 DEF AnswerOneShot
    <2>3. CASE AnswerStreamStop(r)  BY <2>3 DEF AnswerStreamStop
    <2>4. CASE StreamTimedOut(r)    BY <2>4 DEF StreamTimedOut
    <2>5. CASE StreamCause(r)       BY <2>5 DEF StreamCause
    <2> QED  BY <1>5, <2>1, <2>2, <2>3, <2>4, <2>5 DEF AnswerSteps
<1>6. CASE Sweeper
    <2>1. CASE SweepCopy        BY <2>1 DEF SweepCopy
    <2>2. CASE SweepClock       BY <2>2 DEF SweepClock
    <2>3. CASE SweepDone        BY <2>3 DEF SweepDone
    <2>4. ASSUME NEW s \in Sessions, SweepInFlight(s)
          PROVE  AimInv'
        BY <2>4 DEF SweepInFlight, SweepContinue
    <2>5. CASE SweepDeadline    BY <2>5 DEF SweepDeadline, SweepContinue
    <2>6. CASE SweepGeneration  BY <2>6 DEF SweepGeneration
    <2>7. CASE SweepMark
        <3>1. /\ cur \in Sessions /\ mark <= gen[cur] /\ timedOut[cur] <= mark
              /\ mark \in Nat
              /\ timedOut' = [timedOut EXCEPT ![cur] = mark]
              /\ UNCHANGED <<gen, cause, pc, sess, mine, shape, seen, outcome, cutBy,
                             hits, cpc, csess, caim>>
            BY <2>7 DEF SweepMark
        <3>2. ASSUME NEW s \in Sessions
              PROVE  timedOut[s] = gen[s] => timedOut'[s] = gen[s]
            <4> HIDE DEF LockInv, GuardInv, SweepInv, CauseInv, AimInv
            <4>1. CASE s = cur
                <5>1. gen[cur] \in Nat /\ timedOut[cur] \in Nat
                    BY <3>1
                <5>2. timedOut'[cur] = mark
                    BY <3>1
                <5> HIDE DEF TypeInv, TypeOK
                <5> QED  BY <3>1, <4>1, <5>1, <5>2
            <4>2. CASE s # cur  BY <3>1, <4>2
            <4> QED  BY <4>1, <4>2
        <3>3. ASSUME NEW r \in Requests, pc[r] \in AfterBump
              PROVE  timedOut[sess[r]] = mine[r] => timedOut'[sess[r]] = mine[r]
            <4> HIDE DEF LockInv, SweepInv, CauseInv, AimInv
            <4> QED  BY <3>2, <3>3
        <3> QED  BY <3>1, <3>2, <3>3
    <2>8. CASE SweepInterrupt   BY <2>8 DEF SweepInterrupt, SweepContinue
    <2> QED  BY <1>6, <2>1, <2>2, <2>3, <2>4, <2>5, <2>6, <2>7, <2>8 DEF Sweeper
<1>7. ASSUME NEW c \in Cancels, Canceller(c)
      PROVE  AimInv'
    <2>1. ASSUME NEW s \in Sessions, CancelLookup(c, s)
          PROVE  AimInv'
        BY <2>1 DEF CancelLookup
    <2>2. CASE CancelStore(c)      BY <2>2 DEF CancelStore
    <2>3. CASE CancelInterrupt(c)  BY <2>3 DEF CancelInterrupt
    <2> QED  BY <1>7, <2>1, <2>2, <2>3 DEF Canceller
<1>8. ASSUME NEW s \in Sessions, Destroy(s)
      PROVE  AimInv'
    BY <1>8 DEF Destroy
<1>9. CASE Tick
    BY <1>9 DEF Tick
<1>10. CASE UNCHANGED vars
    BY <1>10 DEF vars
<1> QED
    BY <1>1, <1>2, <1>3, <1>4, <1>5, <1>6, <1>7, <1>8, <1>9, <1>10 DEF Next, Handler

-----------------------------------------------------------------------------

\* The inductive invariant holds in every state.
THEOREM Inductive == Spec => []IInv
<1>1. IInv /\ [Next]_vars => IInv'
    BY TypeStep, LockStep, GuardStep, SweepStep, CauseStep, AimStep DEF IInv
<1> QED  BY InitIInv, <1>1, PTL DEF Spec

\* Every variable keeps its type, and a request holds a session exactly while
\* it is inside the handler.
THEOREM TypeCorrect == Spec => []TypeOK
<1>1. IInv => TypeOK
    BY DEF IInv, TypeInv
<1> QED  BY <1>1, Inductive, PTL

\* What a session shows of a query is the state of its lock's owner, however
\* many requests, cancellers and sweeps meet on it.
THEOREM GuardSafety == Spec => []GuardBelongsToLockOwner
<1>1. IInv => GuardBelongsToLockOwner
    BY DEF IInv, TypeInv, TypeOK, LockInv, GuardInv, GuardBelongsToLockOwner,
           Locked, UnderGuard, AfterBump
<1> QED  BY <1>1, Inductive, PTL

\* A query told that it timed out is over its deadline, unless the sweeper
\* compared the deadline of an earlier query.
THEOREM TimeoutJustified == Spec => []TimeoutIsOverdueUnlessStale
<1>1. IInv => TimeoutIsOverdueUnlessStale
    BY DEF IInv, SweepInv, TimeoutIsOverdueUnlessStale, Armed
<1> QED  BY <1>1, Inductive, PTL

\* A query told that it was cancelled had its cancellation recorded while it
\* was the session's query.
THEOREM CancellationJustified == Spec => []CancelledWasAsked
<1>1. IInv => CancelledWasAsked
    BY DEF IInv, CauseInv
<1> QED  BY <1>1, Inductive, PTL

\* A stream cut by an interrupt aimed at its own query is never closed with an
\* end record.
THEOREM AimedInterruptClassified == Spec => []AimedInterruptReported
<1>1. IInv => AimedInterruptReported
    BY DEF IInv, AimInv
<1> QED  BY <1>1, Inductive, PTL

\* Generations and marks only grow, the mark behind the generation.
THEOREM GenerationsMonotonic == Spec => GenerationsGrow
<1> DEFINE Grow == \A s \in Sessions :
                     /\ gen'[s] >= gen[s]
                     /\ timedOut'[s] >= timedOut[s]
                     /\ timedOut'[s] <= gen'[s]
<1>1. IInv /\ IInv' /\ [Next]_vars => [Grow]_<<gen, timedOut>>
    <2> SUFFICES ASSUME IInv, IInv', Next
                 PROVE  Grow \/ UNCHANGED <<gen, timedOut>>
        BY DEF vars, sessionVars
    <2>1. ASSUME NEW s \in Sessions
          PROVE  timedOut'[s] <= gen'[s]
        BY DEF IInv, SweepInv
    <2>2. /\ gen \in [Sessions -> Nat]
          /\ timedOut \in [Sessions -> Nat]
        BY DEF IInv, TypeInv, TypeOK
    <2>3. ASSUME NEW r \in Requests, GuardGeneration(r)
          PROVE  Grow
        BY <2>1, <2>2, <2>3 DEF GuardGeneration
    <2>4. CASE SweepMark
        <3>1. timedOut[cur] <= mark /\ mark \in Nat
            BY <2>4 DEF SweepMark, IInv, SweepInv, TypeInv, TypeOK
        <3> QED  BY <2>1, <2>2, <2>4, <3>1 DEF SweepMark
    <2>5. CASE \/ \E r \in Requests :
                    \/ \E s \in Sessions : Resolve(r, s)
                    \/ Handler(r) /\ ~GuardGeneration(r)
                    \/ QuerySteps(r)
               \/ Sweeper /\ ~SweepMark
               \/ \E c \in Cancels : Canceller(c)
               \/ \E s \in Sessions : Destroy(s)
               \/ Tick
        BY <2>5
           DEF sessionVars, Resolve, Handler, TryLock, Busy, Reject, Unlock,
               GuardSteps, GuardGeneration, GuardCause, GuardDeadline,
               GuardInFlight, GuardClearDeadline, GuardClearInFlight,
               ExecuteStart, AnswerSteps, AnswerFailed, AnswerOneShot,
               AnswerStreamStop, StreamTimedOut, StreamCause, QuerySteps,
               ExecuteFails, ExecuteReturns, Fetch, Sweeper, SweepMark,
               SweepCopy, SweepClock, SweepDone, SweepInFlight, SweepDeadline,
               SweepGeneration, SweepInterrupt, Canceller, CancelLookup,
               CancelStore, CancelInterrupt, Destroy, Tick
    <2> QED  BY <2>3, <2>4, <2>5 DEF Next, Handler, GuardSteps, Sweeper
<1> QED  BY Inductive, <1>1, PTL DEF Spec, GenerationsGrow

-----------------------------------------------------------------------------
(* The pooled session implements SerialSession: the invariant supplies what  *)
(* the abstract guards ask for, and every step maps to one abstract action   *)
(* or to a stutter.                                                          *)

\* The refinement mapping of QueryTimeout, by name.
Phase == [r \in Requests |-> IF pc[r] = "idle" THEN "idle"
                             ELSE IF pc[r] = "resolved" THEN "waiting"
                             ELSE "running"]
Late  == {s \in Sessions : observed[s] # 0}
Asked == {s \in Sessions : cause[s] = "USER_CANCEL"}

\* Before the answer there is none, at any program counter but the last three.
NoAnswerYet == \A r \in Requests : pc[r] \notin Answered => outcome[r] = "none"

LEMMA AnswerComesLast == IInv => NoAnswerYet
BY DEF IInv, CauseInv, NoAnswerYet

LEMMA InitMaps == Init => Serial!SerialInit
BY ConstantsAssumption DEF Init, Serial!SerialInit

\* Steps that change nothing the abstract session shows.
LEMMA StutterMaps ==
    ASSUME UNCHANGED <<registered, lock, sess, outcome>>,
           UNCHANGED Phase, UNCHANGED Late, UNCHANGED Asked
    PROVE  UNCHANGED Serial!serialVars
BY DEF Serial!serialVars, Phase, Late, Asked

\* A /sql request: it arrives, is admitted or refused, begins, answers, leaves.
LEMMA RequestMaps ==
    ASSUME IInv, IInv', NEW r \in Requests,
           \/ \E s \in Sessions : Resolve(r, s)
           \/ Handler(r)
           \/ QuerySteps(r)
    PROVE  [Serial!SerialNext]_(Serial!serialVars)
<1> DEFINE Goal == [Serial!SerialNext]_(Serial!serialVars)
<1> USE ConstantsAssumption DEF IInv, TypeInv, TypeOK, Step, Goto,
        sessionVars, requestVars, historyVars
<1>1. ASSUME NEW s \in Sessions, Resolve(r, s)
      PROVE  Serial!Arrive(r, s)
    BY ZenonT(60), <1>1 DEF Resolve, Serial!Arrive
<1>2. CASE TryLock(r)
    <2>1. Serial!Admit(r)  BY ZenonT(60), <1>2 DEF TryLock, Serial!Admit
    <2> QED  BY <2>1 DEF Serial!SerialNext
<1>3. CASE Busy(r)
    <2>1. Serial!Refuse(r)
        BY ZenonT(60), <1>3 DEF Busy, Return, Serial!Refuse, Serial!Finish
    <2> QED  BY <2>1 DEF Serial!SerialNext
<1>4. CASE Reject(r) \/ Unlock(r)
    <2>1. /\ pc[r] \in {"admitted", "unguarded"}
          /\ lock' = [lock EXCEPT ![sess[r]] = NoRequest]
          /\ Return(r)
          /\ UNCHANGED <<registered, cause, observed>>
        BY <1>4 DEF Reject, Unlock
    <2>2. lock[sess[r]] = r
        BY <2>1 DEF LockInv, Locked, UnderGuard
    <2>3. Serial!Leave(r)
        BY ZenonT(60), <2>1, <2>2 DEF Return, Serial!Leave, Serial!Finish
    <2> QED  BY <2>3 DEF Serial!SerialNext
<1>5. CASE GuardCause(r)
    <2>1. Serial!Begin(r)
        BY <1>5 DEF GuardCause, CauseInv, Answered, Serial!Begin
    <2> QED  BY <2>1 DEF Serial!SerialNext
<1>6. CASE \/ GuardGeneration(r) \/ GuardDeadline(r) \/ GuardInFlight(r)
           \/ GuardClearDeadline(r) \/ GuardClearInFlight(r)
           \/ ExecuteStart(r) \/ QuerySteps(r)
    <2>1. /\ UNCHANGED <<registered, lock, sess, outcome, cause, observed>>
          /\ pc[r] \notin {"idle", "resolved"}
          /\ \E l \in RequestPC \ {"idle", "resolved"} : pc' = [pc EXCEPT ![r] = l]
        BY <1>6 DEF GuardGeneration, GuardDeadline, GuardInFlight,
                    GuardClearDeadline, GuardClearInFlight, ExecuteStart,
                    QuerySteps, ExecuteFails, ExecuteReturns, Fetch, RequestPC
    <2>2. UNCHANGED Phase
        BY <2>1 DEF Phase
    <2>3. UNCHANGED Late /\ UNCHANGED Asked
        BY <2>1 DEF Late, Asked
    <2> QED  BY <2>1, <2>2, <2>3, StutterMaps
<1>7. CASE AnswerSteps(r)
    <2>1. \/ \E a \in Serial!Answers : Serial!Answer(r, a)
          \/ UNCHANGED Serial!serialVars
        <3>1. /\ UNCHANGED <<registered, lock, sess, cause, observed>>
              /\ pc[r] \notin {"idle", "resolved"}
              /\ \E l \in RequestPC \ {"idle", "resolved"} : pc' = [pc EXCEPT ![r] = l]
            BY <1>7 DEF AnswerSteps, AnswerFailed, AnswerOneShot,
                        AnswerStreamStop, StreamTimedOut, StreamCause, RequestPC
        <3>2. UNCHANGED Phase /\ UNCHANGED Late /\ UNCHANGED Asked
            BY <3>1 DEF Phase, Late, Asked
        <3>3. Phase[r] = "running" /\ sess[r] \in Sessions
            BY <3>1 DEF Phase
        <3>4. timedOut[sess[r]] = mine[r] => sess[r] \in Late
            <4>1. mine[r] # 0
                BY <1>7 DEF AnswerSteps, AnswerFailed, AnswerOneShot,
                            AnswerStreamStop, StreamTimedOut, StreamCause,
                            GuardInv, AfterBump, UnderGuard
            <4> QED  BY <3>3, <4>1 DEF SweepInv, Late
        <3>5. outcome[r] = "none"
            BY <1>7 DEF AnswerSteps, AnswerFailed, AnswerOneShot,
                        AnswerStreamStop, StreamTimedOut, StreamCause,
                        CauseInv, Answered
        <3>6. \/ UNCHANGED outcome
              \/ \E a \in Serial!Answers :
                   /\ a = "timeout" => timedOut[sess[r]] = mine[r]
                   /\ a = "cancelled" => cause[sess[r]] = "USER_CANCEL"
                   /\ outcome' = [outcome EXCEPT ![r] = a]
            BY <1>7 DEF AnswerSteps, AnswerFailed, AnswerOneShot,
                        AnswerStreamStop, StreamTimedOut, StreamCause,
                        Serial!Answers
        <3>7. CASE UNCHANGED outcome
            BY <3>1, <3>2, <3>7, StutterMaps
        <3>8. ASSUME NEW a \in Serial!Answers,
                     a = "timeout" => timedOut[sess[r]] = mine[r],
                     a = "cancelled" => cause[sess[r]] = "USER_CANCEL",
                     outcome' = [outcome EXCEPT ![r] = a]
              PROVE  Serial!Answer(r, a)
            BY <3>1, <3>2, <3>3, <3>4, <3>5, <3>8
               DEF Serial!Answer, Phase, Late, Asked
        <3> QED  BY <3>6, <3>7, <3>8
    <2> QED  BY <2>1 DEF Serial!SerialNext
<1> QED
    BY <1>1, <1>2, <1>3, <1>4, <1>5, <1>6, <1>7
       DEF Handler, GuardSteps, Serial!SerialNext

\* The sweeper: finding a query overdue is Expire, the rest is hidden.
LEMMA SweeperMaps ==
    ASSUME IInv, IInv', Sweeper
    PROVE  [Serial!SerialNext]_(Serial!serialVars)
<1> USE DEF IInv, TypeInv, TypeOK, sessionVars, requestVars, historyVars
<1>1. UNCHANGED <<registered, lock, sess, outcome, pc, cause>>
    BY DEF Sweeper, SweepCopy, SweepClock, SweepDone, SweepInFlight,
           SweepDeadline, SweepGeneration, SweepMark, SweepInterrupt
<1>2. UNCHANGED Phase /\ UNCHANGED Asked
    BY <1>1 DEF Phase, Asked
<1>3. CASE UNCHANGED observed
    BY <1>1, <1>2, <1>3, StutterMaps DEF Late
<1>4. CASE SweepDeadline /\ ~UNCHANGED observed
    <2>1. /\ cur \in Sessions
          /\ deadline[cur] # 0
          /\ observed' = [observed EXCEPT ![cur] = gen[cur]]
        BY <1>4 DEF SweepDeadline, Inspecting
    <2>2. lock[cur] # NoRequest /\ gen[cur] # 0
        BY <2>1 DEF GuardInv, LockInv, AfterBump
    <2>3. Late' = Late \union {cur}
        BY <2>1, <2>2 DEF Late
    <2>4. PICK s \in Sessions : s = cur
        BY <2>1
    <2>5. Serial!Expire(s)
        BY <1>1, <1>2, <2>2, <2>3, <2>4 DEF Serial!Expire, Phase, Late, Asked
    <2> QED  BY <2>5 DEF Serial!SerialNext
<1> QED
    BY <1>3, <1>4
       DEF Sweeper, SweepCopy, SweepClock, SweepDone, SweepInFlight,
           SweepGeneration, SweepMark, SweepInterrupt

\* Cancellers ask, whether or not a query is there; destroying closes.
LEMMA OthersMap ==
    ASSUME IInv, IInv',
           \/ \E c \in Cancels : Canceller(c)
           \/ \E s \in Sessions : Destroy(s)
           \/ Tick
           \/ UNCHANGED vars
    PROVE  [Serial!SerialNext]_(Serial!serialVars)
<1> USE DEF IInv, TypeInv, TypeOK, sessionVars, requestVars, historyVars
<1>1. ASSUME NEW c \in Cancels, CancelStore(c)
      PROVE  Serial!SerialNext
    <2>1. csess[c] \in Sessions /\ cause' = [cause EXCEPT ![csess[c]] = "USER_CANCEL"]
        BY <1>1 DEF CancelStore
    <2>2. PICK s \in Sessions : s = csess[c]
        BY <2>1
    <2>3. Serial!Ask(s)
        BY <1>1, <2>1, <2>2 DEF CancelStore, Serial!Ask
    <2> QED  BY <2>3 DEF Serial!SerialNext
<1>2. ASSUME NEW s \in Sessions, Destroy(s)
      PROVE  Serial!Close(s)
    BY <1>2 DEF Destroy, Serial!Close
<1>3. ASSUME \/ \E c \in Cancels :
                  \/ \E s \in Sessions : CancelLookup(c, s)
                  \/ CancelInterrupt(c)
             \/ Tick
             \/ UNCHANGED vars
      PROVE  UNCHANGED Serial!serialVars
    BY <1>3 DEF CancelLookup, CancelInterrupt, Tick, vars, Serial!serialVars
<1> QED  BY <1>1, <1>2, <1>3 DEF Canceller, Serial!SerialNext

\* However sweeps, cancellations and requests interleave, a pooled session
\* behaves as SerialSession says.
THEOREM Refinement == Spec => ImplementsSerialSession
<1>1. Init => Serial!SerialInit
    BY InitMaps
<1>2. IInv /\ IInv' /\ [Next]_vars => [Serial!SerialNext]_(Serial!serialVars)
    BY RequestMaps, SweeperMaps, OthersMap DEF Next
<1> QED
    BY <1>1, <1>2, Inductive, PTL
       DEF Spec, ImplementsSerialSession, Serial!SerialSpec

=============================================================================
