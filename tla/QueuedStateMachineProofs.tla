---------------------- MODULE QueuedStateMachineProofs ----------------------
(***************************************************************************)
(* Proofs about QueuedStateMachine, for any set of callers and any bound   *)
(* on the queue.                                                           *)
(***************************************************************************)
EXTENDS QueuedStateMachine, TLAPS

QueueInv == TypeOK /\ LegalQueue /\ NoLostNotification

\* What a legal transition leads to.
LEMMA TransitionFacts ==
    ASSUME NEW s, NEW t, NEW next, <<s, t, next>> \in Transition
    PROVE  /\ next \in Successors(s)
           /\ s \in RegularStates => next \in RegularStates
           /\ t = "ErrorFound" => next = "Error"
           /\ t # "ErrorFound" => s \in RegularStates
<1>1. next \in Successors(s)
  <2>1. /\ <<s, t, next>> \in {u \in Transition : u[1] = s}
        /\ <<s, t, next>>[3] = next
    OBVIOUS
  <2> QED
    BY <2>1, Zenon DEF Successors
<1>2. \/ s = "Idle" /\ t = "InitDevice" /\ next = "InitializingDevice"
      \/ s = "Idle" /\ t = "End" /\ next = "Exiting"
      \/ s = "InitializingDevice" /\ t = "Automatic" /\ next = "DeviceReady"
      \/ s = "DeviceReady" /\ t = "InitTask" /\ next = "InitializingTask"
      \/ s = "DeviceReady" /\ t = "ResetDevice" /\ next = "ResettingDevice"
      \/ s = "InitializingTask" /\ t = "Automatic" /\ next = "Ready"
      \/ s = "Ready" /\ t = "Run" /\ next = "Running"
      \/ s = "Ready" /\ t = "ResetTask" /\ next = "ResettingTask"
      \/ s = "Running" /\ t = "Stop" /\ next = "Ready"
      \/ s = "ResettingTask" /\ t = "Automatic" /\ next = "DeviceReady"
      \/ s = "ResettingDevice" /\ t = "Automatic" /\ next = "Idle"
      \/ s = "Ok" /\ t = "ErrorFound" /\ next = "Error"
  BY DEF Transition
<1> QED
  BY <1>1, <1>2 DEF RegularStates

\* The critical section of ChangeState keeps the queue legal.
LEMMA QueueStep ==
    ASSUME TypeOK, LegalQueue, Queue
    PROVE  /\ fNextStates' \in Seq(RegularStates \cup {"Error"})
           /\ LegalQueue'
<1>1. PICK t \in Transitions, next \in States :
            /\ <<LastState(t), t, next>> \in Transition
            /\ fNextStates' = Append(fNextStates, next)
  BY DEF Queue
<1>2. fNextStates \in Seq(RegularStates \cup {"Error"}) /\ fState' = fState
  BY DEF TypeOK, Queue
<1>3. next \in RegularStates \cup {"Error"}
  BY <1>1, TransitionFacts
<1>4. /\ Len(fNextStates') = Len(fNextStates) + 1
      /\ \A i \in 1 .. Len(fNextStates) : fNextStates'[i] = fNextStates[i]
      /\ fNextStates'[Len(fNextStates) + 1] = next
      /\ Len(fNextStates) \in Nat
  BY <1>1, <1>2, <1>3
<1>5. next = "Error" \/ next \in Successors(Back(fNextStates, fState))
  BY <1>1, TransitionFacts DEF LastState
<1>6. ASSUME NEW i \in 1 .. Len(fNextStates')
      PROVE  fNextStates'[i] = "Error" \/ fNextStates'[i] \in Successors(Previous(i)')
  <2>1. CASE i \in 1 .. Len(fNextStates)
    <3>1. Previous(i)' = Previous(i)
      BY <1>2, <1>4, <2>1 DEF Previous
    <3> QED
      BY <1>4, <2>1, <3>1 DEF LegalQueue
  <2>2. CASE i = Len(fNextStates) + 1
    <3>1. Previous(i)' = Back(fNextStates, fState)
      BY <1>2, <1>4, <2>2 DEF Previous, Back
    <3> QED
      BY <1>4, <1>5, <2>2, <3>1
  <2> QED
    BY <1>4, <2>1, <2>2
<1> QED
  BY <1>1, <1>2, <1>3, <1>6 DEF LegalQueue, Successors

\* Entering the front of the queue leaves a legal queue, and is legal itself.
LEMMA EnterStep ==
    ASSUME TypeOK, LegalQueue, Enter
    PROVE  /\ TypeOK'
           /\ LegalQueue'
           /\ fState' # fState => fState' \in Successors(fState)
<1>1. /\ fNextStates \in Seq(RegularStates \cup {"Error"})
      /\ fNextStates # <<>>
      /\ fNextStates' = Tail(fNextStates)
      /\ Head(fNextStates) = fNextStates[1]
  BY DEF TypeOK, Enter
<1>2. /\ Len(fNextStates) \in Nat \ {0}
      /\ Len(fNextStates') = Len(fNextStates) - 1
      /\ \A i \in 1 .. Len(fNextStates) - 1 : fNextStates'[i] = fNextStates[i + 1]
      /\ fNextStates' \in Seq(RegularStates \cup {"Error"})
      /\ fNextStates[1] \in RegularStates \cup {"Error"}
  BY <1>1
<1>3. TypeOK'
  BY <1>1, <1>2 DEF TypeOK, Enter, Advance
<1>4. fNextStates[1] = "Error" \/ fNextStates[1] \in Successors(fState)
  BY <1>2 DEF LegalQueue, Previous
<1>5. \A t \in Successors("Error") : FALSE
  BY DEF Successors, Transition
<1>6. ASSUME NEW i \in 1 .. Len(fNextStates')
      PROVE  fNextStates'[i] = "Error" \/ fNextStates'[i] \in Successors(Previous(i)')
  <2>1. /\ i + 1 \in 1 .. Len(fNextStates) /\ i + 1 # 1
        /\ fNextStates'[i] = fNextStates[i + 1]
    BY <1>2
  <2>2. fNextStates[i + 1] = "Error" \/ fNextStates[i + 1] \in Successors(fNextStates[i])
    BY <1>2, <2>1 DEF LegalQueue, Previous
  <2>3. CASE i = 1
    <3>1. CASE fNextStates[1] = "Error"
      BY <1>5, <2>1, <2>2, <2>3, <3>1
    <3>2. CASE fNextStates[1] # "Error"
      <4>1. Previous(i)' = fNextStates[1]
        BY <1>1, <2>3, <3>2 DEF Previous, Enter, Advance
      <4> QED
        BY <2>1, <2>2, <2>3, <4>1
    <3> QED
      BY <3>1, <3>2
  <2>4. CASE i # 1
    <3>1. Previous(i)' = fNextStates[i]
      BY <1>2, <2>4 DEF Previous
    <3> QED
      BY <2>1, <2>2, <3>1
  <2> QED
    BY <2>3, <2>4
<1> QED
  BY <1>1, <1>3, <1>4, <1>6 DEF LegalQueue, Successors, Enter, Advance

\* One case for each action.
LEMMA QueueInvStep == QueueInv /\ [Next]_vars => QueueInv'
<1> SUFFICES ASSUME QueueInv, [Next]_vars PROVE QueueInv'
  OBVIOUS
<1> USE DEF QueueInv
<1>1. ASSUME NEW c \in Callers, ChangeState(c) PROVE QueueInv'
  <2>1. Queue
    BY <1>1 DEF ChangeState
  <2>2. TypeOK' /\ LegalQueue'
    BY <1>1, <2>1, QueueStep DEF ChangeState, TypeOK, Queue
  <2> QED
    BY <1>1, <2>2 DEF ChangeState, NoLostNotification
<1>2. CASE CallbackChangesState
  <2>1. Queue
    BY <1>2 DEF CallbackChangesState
  <2>2. TypeOK' /\ LegalQueue'
    BY <1>2, <2>1, QueueStep DEF CallbackChangesState, TypeOK, Queue
  <2> QED
    BY <1>2, <2>2 DEF CallbackChangesState, NoLostNotification
<1>3. ASSUME UNCHANGED <<fState, fErrorState, fNextStates>>,
             runner' \in {"out", "loop", "wait", "emit"}, calling' \subseteq Callers
      PROVE  TypeOK' /\ LegalQueue'
  BY <1>3 DEF TypeOK, LegalQueue, Previous, Successors
<1>4. ASSUME NEW c \in Callers, Notify(c) PROVE QueueInv'
  BY <1>3, <1>4 DEF Notify, NoLostNotification, TypeOK
<1>5. CASE Run \/ Wait \/ SpuriousWakeup \/ Emitted
  BY <1>3, <1>5 DEF Run, Wait, SpuriousWakeup, Emitted, NoLostNotification, TypeOK
<1>6. CASE Enter
  BY <1>6, EnterStep DEF Enter, NoLostNotification
<1>7. CASE Reset
  BY <1>7 DEF Reset, TypeOK, LegalQueue, NoLostNotification, RegularStates
<1>8. CASE UNCHANGED vars
  BY <1>3, <1>8 DEF vars, NoLostNotification, TypeOK
<1> QED
  BY <1>1, <1>2, <1>4, <1>5, <1>6, <1>7, <1>8 DEF Next, RunnerStep

\* The invariant holds in every reachable state.
LEMMA QueueInvariance == Spec => []QueueInv
<1>1. Init => QueueInv
  BY DEF Init, QueueInv, TypeOK, LegalQueue, NoLostNotification, RegularStates
<1> QED
  BY <1>1, QueueInvStep, PTL DEF Spec

\* The queue is a legal continuation of the current state, whatever the callers,
\* the subscribers and Reset do.
THEOREM QueueIsLegal == Spec => []LegalQueue
<1>1. QueueInv => LegalQueue
  BY DEF QueueInv
<1> QED
  BY <1>1, QueueInvariance, PTL

\* Run() never sleeps with a queued state that nobody will tell it of.
THEOREM NotificationNotLost == Spec => []NoLostNotification
<1>1. QueueInv => NoLostNotification
  BY DEF QueueInv
<1> QED
  BY <1>1, QueueInvariance, PTL

\* Run() enters only states that are legal from the current one.
THEOREM LegalStates == Spec => EntersLegally
<1>1. QueueInv /\ [Next]_vars =>
        [fState' # fState => fState' \in Successors(fState) \/ IsReset']_vars
  <2> SUFFICES ASSUME QueueInv, [Next]_vars, fState' # fState
               PROVE  fState' \in Successors(fState) \/ IsReset'
    BY DEF vars
  <2>1. CASE Enter
    BY <2>1, EnterStep DEF QueueInv
  <2>2. CASE Reset
    BY <2>2 DEF Reset, IsReset
  <2>3. CASE ~Enter /\ ~Reset
    BY <2>3 DEF Next, RunnerStep, ChangeState, CallbackChangesState, Queue, Notify, Run, Wait,
       SpuriousWakeup, Emitted, vars
  <2> QED
    BY <2>1, <2>2, <2>3
<1> QED
  BY <1>1, QueueInvariance, PTL DEF Spec, EntersLegally
=============================================================================
