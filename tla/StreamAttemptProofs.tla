------------------------ MODULE StreamAttemptProofs ------------------------
(***************************************************************************)
(* Proofs about StreamAttempt for any timeouts, any number of lines and    *)
(* any number of expire() goroutines that wait for the mutex.              *)
(*                                                                         *)
(* The first invariant is about the client: bytes that may have reached it *)
(* are remembered as committed (Committed).  The second one is about the   *)
(* watchdog: what the handler reads under the mutex in stop() is the last  *)
(* word (LastWord), although a goroutine may be on its way to cancel.      *)
(***************************************************************************)
EXTENDS StreamAttempt, TLAPS

\* What has been written is committed, and a verdict is given at the end only.
Committed ==
  /\ loop.wrote => loop.committed
  /\ loop.verdict # "none" => loop.pc = "done"
  /\ loop.verdict \in {"retry", "cancelled"} => ~loop.committed

Ended == loop.pc \in {"judge", "done"}

\* After stop() the watchdog is quiet, and its timeout is the attempt's error;
\* a loop without an error has read the end of the stream.
LastWord ==
  /\ cancels => dog.fired # "none"
  /\ Ended => dog.stopped
  /\ Ended /\ dog.fired # "none" => loop.err = "timeout"
  /\ (Ended \/ loop.pc = "returned") /\ loop.err = "none" => pipe = "eof"
  /\ loop.verdict = "success" => loop.err = "none"

IInv == TypeOK /\ Committed /\ LastWord

-----------------------------------------------------------------------------

\* The stop of a timer, and every value it is set to, is one it may have.
LEMMA TimerValues ==
  /\ Off \in Int /\ Off = -1
  /\ Idle \in 0..Idle /\ Idle \in Nat /\ FirstOutput \in Nat
BY TimeoutAssumption DEF Off

\* The initial state satisfies every part.
LEMMA InitInvariant == Init => IInv
<1> SUFFICES ASSUME Init PROVE IInv
  OBVIOUS
<1>1. TypeOK
  <2>1. loop \in LoopState /\ dog \in [phase: Phase, fired: Phase \union {"none"}, stopped: BOOLEAN]
    BY DEF Init, LoopState, Phase
  <2>2. timer \in 0..FirstOutput /\ expiring \in 0..MaxExpiring /\ lines \in 0..MaxLines
        /\ silence \in 0..Idle
    BY TimeoutAssumption, BoundAssumption DEF Init
  <2> QED BY <2>1, <2>2 DEF Init, TypeOK
<1>2. Committed /\ LastWord
  BY DEF Init, Committed, LastWord, Ended
<1> QED BY <1>1, <1>2 DEF IInv

\* Types are kept by the copy loop and the handler around it.
LEMMA LoopKeepsTypes == TypeOK /\ LoopNext => TypeOK'
<1> SUFFICES ASSUME TypeOK, LoopNext PROVE TypeOK'
  OBVIOUS
<1> USE DEF TypeOK, LoopState, Phase
<1>1. CASE ReadLine
  BY <1>1 DEF ReadLine
<1>2. CASE ReadOverflows
  BY ZenonT(60), <1>2 DEF ReadOverflows, Return
<1>3. CASE ReadEnds
  <2>1. \E err \in {"none", "early_eof", "read"} : loop' = Return(err)
    BY <1>3 DEF ReadEnds
  <2>2. loop' \in LoopState
    BY <2>1 DEF Return
  <2> QED BY <1>3, <2>2 DEF ReadEnds
<1>4. CASE SemanticOutput
  BY <1>4, TimerValues DEF SemanticOutput
<1>5. CASE Activity
  BY <1>5, TimerValues DEF Activity
<1>6. CASE Write
  BY ZenonT(60), <1>6 DEF Write
<1>7. CASE WriteFails
  <2>1. Return("write") \in LoopState
    BY DEF Return
  <2>2. loop' \in LoopState
    BY <1>7, <2>1 DEF WriteFails
  <2> QED BY <1>7, <2>2 DEF WriteFails
<1>8. CASE Stop
  BY <1>8 DEF Stop, Stopped, ErrorAfterStop
<1>9. CASE Judge
  <2>1. Verdict \in {"success", "cancelled", "charged_cancelled", "failed", "retry"}
    BY DEF Verdict
  <2>2. loop' \in LoopState
    BY <1>9, <2>1 DEF Judge
  <2> QED BY <1>9, <2>2 DEF Judge
<1> QED BY <1>1, <1>2, <1>3, <1>4, <1>5, <1>6, <1>7, <1>8, <1>9 DEF LoopNext

\* Types are kept by the watchdog, the upstream, the client and time.
LEMMA OthersKeepTypes ==
  TypeOK /\ (DogNext \/ UpstreamSends \/ ClientLeaves \/ DeadlinePasses \/ Tick) => TypeOK'
<1> SUFFICES ASSUME TypeOK, DogNext \/ UpstreamSends \/ ClientLeaves \/ DeadlinePasses \/ Tick
             PROVE  TypeOK'
  OBVIOUS
<1> USE DEF TypeOK, Phase
<1>1. CASE TimerFires
  BY <1>1, BoundAssumption DEF TimerFires
<1>2. CASE Expire
  <2>1. expiring' \in 0..MaxExpiring
    BY <1>2, BoundAssumption DEF Expire
  <2>2. dog' \in [phase: Phase, fired: Phase \union {"none"}, stopped: BOOLEAN] /\ cancels' \in BOOLEAN
    BY <1>2 DEF Expire
  <2> QED BY <1>2, <2>1, <2>2 DEF Expire
<1>3. CASE Cancel
  BY <1>3 DEF Cancel
<1>4. CASE UpstreamSends
  BY <1>4, BoundAssumption, TimeoutAssumption DEF UpstreamSends
<1>5. CASE ClientLeaves
  BY <1>5 DEF ClientLeaves
<1>6. CASE DeadlinePasses
  BY <1>6 DEF DeadlinePasses
<1>7. CASE Tick
  <2>1. timer' \in {Off} \union 0..FirstOutput \union 0..Idle
    BY <1>7, TimerValues DEF Tick
  <2>2. silence' \in 0..Idle
    BY <1>7, TimeoutAssumption DEF Tick
  <2> QED BY <1>7, <2>1, <2>2 DEF Tick
<1> QED BY <1>1, <1>2, <1>3, <1>4, <1>5, <1>6, <1>7 DEF DogNext

\* Every step keeps the two invariants.
LEMMA LoopKeepsInvariant == IInv /\ LoopNext => (Committed /\ LastWord)'
<1> SUFFICES ASSUME IInv, LoopNext PROVE (Committed /\ LastWord)'
  OBVIOUS
<1> USE DEF IInv, TypeOK, LoopState, Phase, Committed, LastWord, Ended
<1>1. CASE ReadLine
  BY <1>1 DEF ReadLine
<1>2. CASE ReadOverflows
  BY <1>2 DEF ReadOverflows, Return
<1>3. CASE ReadEnds
  BY ZenonT(60), <1>3 DEF ReadEnds, Return
<1>4. CASE SemanticOutput
  BY <1>4 DEF SemanticOutput
<1>5. CASE Activity
  BY <1>5 DEF Activity
<1>6. CASE Write
  BY <1>6 DEF Write
<1>7. CASE WriteFails
  BY <1>7 DEF WriteFails, Return
<1>8. CASE Stop
  BY <1>8 DEF Stop, Stopped, ErrorAfterStop
<1>9. CASE Judge
  BY <1>9 DEF Judge, Verdict
<1> QED BY <1>1, <1>2, <1>3, <1>4, <1>5, <1>6, <1>7, <1>8, <1>9 DEF LoopNext

LEMMA OthersKeepInvariant ==
  IInv /\ (DogNext \/ UpstreamSends \/ ClientLeaves \/ DeadlinePasses \/ Tick)
    => (Committed /\ LastWord)'
<1> SUFFICES ASSUME IInv, DogNext \/ UpstreamSends \/ ClientLeaves \/ DeadlinePasses \/ Tick
             PROVE  (Committed /\ LastWord)'
  OBVIOUS
<1> USE DEF IInv, TypeOK, LoopState, Phase, Committed, LastWord, Ended
<1>1. CASE TimerFires
  BY <1>1 DEF TimerFires
<1>2. CASE Expire
  BY <1>2 DEF Expire
<1>3. CASE Cancel
  BY <1>3 DEF Cancel
<1>4. CASE UpstreamSends
  BY <1>4 DEF UpstreamSends
<1>5. CASE ClientLeaves
  BY <1>5 DEF ClientLeaves
<1>6. CASE DeadlinePasses
  BY <1>6 DEF DeadlinePasses
<1>7. CASE Tick
  BY <1>7 DEF Tick
<1> QED BY <1>1, <1>2, <1>3, <1>4, <1>5, <1>6, <1>7 DEF DogNext

LEMMA StepInvariant == IInv /\ [Next]_vars => IInv'
<1> SUFFICES ASSUME IInv, [Next]_vars PROVE IInv'
  OBVIOUS
<1>1. CASE LoopNext
  BY <1>1, LoopKeepsTypes, LoopKeepsInvariant DEF IInv
<1>2. CASE DogNext \/ UpstreamSends \/ ClientLeaves \/ DeadlinePasses \/ Tick
  BY <1>2, OthersKeepTypes, OthersKeepInvariant DEF IInv
<1>3. CASE UNCHANGED vars
  BY <1>3 DEF IInv, TypeOK, Committed, LastWord, Ended, vars
<1> QED BY <1>1, <1>2, <1>3 DEF Next

-----------------------------------------------------------------------------

\* The inductive invariant of an attempt and its watchdog.
THEOREM AttemptInvariant == Spec => []IInv
BY InitInvariant, StepInvariant, PTL DEF Spec

\* Loop, watchdog and timer keep their types.
THEOREM TypeCorrect == Spec => []TypeOK
<1>1. IInv => TypeOK
  BY DEF IInv
<1> QED BY <1>1, AttemptInvariant, PTL

\* A retry, and a free cancellation, are only for clients that saw nothing
\* (proxyDelayedStreamControlled reports the failing first write as committed).
THEOREM OnlySilentRetry == Spec => []OnlySilentAttemptsRetry
<1>1. IInv => OnlySilentAttemptsRetry
  BY DEF IInv, TypeOK, LoopState, Committed, OnlySilentAttemptsRetry
<1> QED BY <1>1, AttemptInvariant, PTL

\* A stream cut by the watchdog is not a success, however late the goroutine
\* of its timer was.
THEOREM NoCutSuccess == Spec => []CutIsNeverSuccess
<1>1. IInv => CutIsNeverSuccess
  BY DEF IInv, TypeOK, LoopState, Committed, LastWord, Ended, CutIsNeverSuccess
<1> QED BY <1>1, AttemptInvariant, PTL

\* The step relation inside the next theorem.
Final == Ended => dog'.fired = dog.fired /\ (dog.fired = "none" => ~cancels')

\* What stop() answers is final: no expire() that was waiting for the mutex
\* fires or cancels anything after it.
THEOREM StopIsFinal == Spec => [][Final]_vars
<1>1. IInv /\ [Next]_vars => [Final]_vars
  <2> SUFFICES ASSUME IInv, Next PROVE Final
    OBVIOUS
  <2> USE DEF IInv, TypeOK, LoopState, Phase, LastWord, Ended, Final
  <2>1. CASE LoopNext
    BY <2>1 DEF LoopNext, ReadLine, ReadOverflows, ReadEnds, SemanticOutput, Activity, Write,
       WriteFails, Stop, Judge
  <2>2. CASE DogNext
    BY <2>2 DEF DogNext, TimerFires, Expire, Cancel
  <2>3. CASE UpstreamSends \/ ClientLeaves \/ DeadlinePasses \/ Tick
    BY <2>3 DEF UpstreamSends, ClientLeaves, DeadlinePasses, Tick
  <2> QED BY <2>1, <2>2, <2>3 DEF Next
<1> QED BY <1>1, AttemptInvariant, PTL DEF Spec

=============================================================================
