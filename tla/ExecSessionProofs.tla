---------------------------- MODULE ExecSessionProofs ----------------------------
(***************************************************************************)
(* Proofs about ExecSession, for any capacity of the channel and any       *)
(* number of shells and errors.                                            *)
(***************************************************************************)
EXTENDS ExecSession, TLAPS

USE ExecAssumption DEF Shells, linkVars, shellVars, slotVars, podVars, StopSender

LEMMA InitIInv == Init => IInv
  <1> SUFFICES ASSUME Init PROVE IInv
    OBVIOUS
  <1>1. Flags
    BY DEF Init, Flags
  <1>2. QED
    BY <1>1 DEF Init, IInv, TypeOK, NoShellLeft, Phases, Slots, PodIsKept

-----------------------------------------------------------------------------
(* Each action keeps the invariant. *)

LEMMA SpawnShellIInv == IInv /\ SpawnShell => IInv'
  <1> SUFFICES ASSUME IInv, SpawnShell PROVE IInv'
    OBVIOUS
  <1> USE DEF IInv, SpawnShell
  <1>1. TypeOK'
    <2>1. Flags'
      BY DEF TypeOK, Flags
    <2>2. QED
      BY <2>1 DEF TypeOK, Phases
  <1>2. NoShellLeft' /\ Phases'
    BY DEF TypeOK, NoShellLeft, Phases
  <1>3. Slots'
    BY <1>1 DEF TypeOK, Flags, Phases, Slots
  <1>4. PodIsKept'
    BY DEF TypeOK, Phases, Slots, PodIsKept
  <1>5. QED
    BY <1>1, <1>2, <1>3, <1>4

LEMMA SpawnFailsIInv == IInv /\ SpawnFails => IInv'
  <1> SUFFICES ASSUME IInv, SpawnFails PROVE IInv'
    OBVIOUS
  <1> USE DEF IInv, SpawnFails, Fault
  <1>1. TypeOK'
    <2>1. Flags'
      BY DEF TypeOK, Flags
    <2>2. QED
      BY <2>1 DEF TypeOK
  <1>2. NoShellLeft' /\ Phases'
    BY DEF TypeOK, NoShellLeft, Phases
  <1>3. Slots'
    BY DEF TypeOK, Phases, Slots
  <1>4. PodIsKept'
    BY DEF TypeOK, Phases, Slots, PodIsKept
  <1>5. QED
    BY <1>1, <1>2, <1>3, <1>4

LEMMA TypeIInv == IInv /\ Type => IInv'
  <1> SUFFICES ASSUME IInv, Type PROVE IInv'
    OBVIOUS
  <1> USE DEF IInv, Type
  <1>1. TypeOK'
    BY DEF TypeOK, Flags
  <1>2. NoShellLeft' /\ Phases'
    BY DEF TypeOK, NoShellLeft, Phases
  <1>3. Slots'
    BY DEF TypeOK, Phases, Slots
  <1>4. PodIsKept'
    BY DEF TypeOK, Phases, Slots, PodIsKept
  <1>5. QED
    BY <1>1, <1>2, <1>3, <1>4

LEMMA WriteIInv == IInv /\ Write => IInv'
  <1> SUFFICES ASSUME IInv, Write PROVE IInv'
    OBVIOUS
  <1> USE DEF IInv, Write
  <1>1. TypeOK'
    BY DEF TypeOK, Flags
  <1>2. NoShellLeft' /\ Phases'
    BY DEF TypeOK, NoShellLeft, Phases
  <1>3. Slots'
    BY DEF TypeOK, Phases, Slots
  <1>4. PodIsKept'
    BY DEF TypeOK, Phases, Slots, PodIsKept
  <1>5. QED
    BY <1>1, <1>2, <1>3, <1>4

LEMMA InterruptIInv == IInv /\ Interrupt => IInv'
  <1> SUFFICES ASSUME IInv, Interrupt PROVE IInv'
    OBVIOUS
  <1> USE DEF IInv, Interrupt
  <1>1. TypeOK'
    BY DEF TypeOK, Flags
  <1>2. NoShellLeft' /\ Phases'
    BY DEF TypeOK, NoShellLeft, Phases
  <1>3. Slots'
    BY DEF TypeOK, Phases, Slots
  <1>4. PodIsKept'
    BY DEF TypeOK, Phases, Slots, PodIsKept
  <1>5. QED
    BY <1>1, <1>2, <1>3, <1>4

LEMMA DeletePodType ==
    ASSUME TypeOK, DeletePod
    PROVE  pods' \subseteq Shells /\ failed' \subseteq Shells /\ errors' \in Nat
  <1>1. CASE pods' = pods \ {slot} /\ UNCHANGED <<errors, failed>>
    BY <1>1 DEF TypeOK
  <1>2. CASE slot \in pods /\ Fault /\ failed' = failed \cup {slot} /\ UNCHANGED pods
    <2>1. errors' \in Nat
      BY <1>2 DEF TypeOK, Fault
    <2>2. QED
      BY <1>2, <2>1 DEF TypeOK
  <1>3. QED
    BY <1>1, <1>2 DEF DeletePod

LEMMA ForgetIInv == IInv /\ Forget => IInv'
  <1> SUFFICES ASSUME IInv, Forget PROVE IInv'
    OBVIOUS
  <1> USE DEF IInv, Forget, DeletePod, Fault
  <1>1. TypeOK'
    <2>1. Flags'
      BY DEF TypeOK, Flags
    <2>2. pods' \subseteq Shells /\ failed' \subseteq Shells /\ errors' \in Nat
      BY DeletePodType DEF TypeOK
    <2>3. QED
      BY <2>1, <2>2 DEF TypeOK
  <1>2. NoShellLeft' /\ Phases'
    BY DEF TypeOK, NoShellLeft, Phases
  <1>3. Slots'
    BY DEF TypeOK, Phases, Slots
  <1>4. PodIsKept'
    BY DEF TypeOK, Phases, Slots, PodIsKept
  <1>5. QED
    BY <1>1, <1>2, <1>3, <1>4

LEMMA SayIInv == IInv /\ Say => IInv'
  <1> SUFFICES ASSUME IInv, Say PROVE IInv'
    OBVIOUS
  <1> USE DEF IInv, Say
  <1>1. TypeOK'
    BY DEF TypeOK, Flags
  <1>2. NoShellLeft' /\ Phases'
    BY DEF TypeOK, NoShellLeft, Phases
  <1>3. Slots'
    BY DEF TypeOK, Phases, Slots
  <1>4. PodIsKept'
    BY DEF TypeOK, Phases, Slots, PodIsKept
  <1>5. QED
    BY <1>1, <1>2, <1>3, <1>4

LEMMA LeaveIInv == IInv /\ Leave => IInv'
  <1> SUFFICES ASSUME IInv, Leave PROVE IInv'
    OBVIOUS
  <1> USE DEF IInv, Leave
  <1>1. TypeOK'
    BY DEF TypeOK, Flags
  <1>2. NoShellLeft' /\ Phases'
    BY DEF TypeOK, NoShellLeft, Phases
  <1>3. Slots'
    BY DEF TypeOK, Phases, Slots
  <1>4. PodIsKept'
    BY DEF TypeOK, Phases, Slots, PodIsKept
  <1>5. QED
    BY <1>1, <1>2, <1>3, <1>4

LEMMA KillIInv == IInv /\ Kill => IInv'
  <1> SUFFICES ASSUME IInv, Kill PROVE IInv'
    OBVIOUS
  <1> USE DEF IInv, Kill
  <1>1. TypeOK'
    BY DEF TypeOK, Flags
  <1>2. NoShellLeft' /\ Phases'
    BY DEF TypeOK, NoShellLeft, Phases
  <1>3. Slots'
    BY DEF TypeOK, Phases, Slots
  <1>4. PodIsKept'
    BY DEF TypeOK, Phases, Slots, PodIsKept
  <1>5. QED
    BY <1>1, <1>2, <1>3, <1>4

LEMMA ForgetLastIInv == IInv /\ ForgetLast => IInv'
  <1> SUFFICES ASSUME IInv, ForgetLast PROVE IInv'
    OBVIOUS
  <1> USE DEF IInv, ForgetLast, DeletePod, Fault
  <1>1. TypeOK'
    <2>1. Flags'
      BY DEF TypeOK, Flags
    <2>2. pods' \subseteq Shells /\ failed' \subseteq Shells /\ errors' \in Nat
      BY DeletePodType DEF TypeOK
    <2>3. QED
      BY <2>1, <2>2 DEF TypeOK
  <1>2. NoShellLeft' /\ Phases'
    BY DEF TypeOK, NoShellLeft, Phases
  <1>3. Slots'
    BY DEF TypeOK, Phases, Slots
  <1>4. PodIsKept'
    BY DEF TypeOK, Phases, Slots, PodIsKept
  <1>5. QED
    BY <1>1, <1>2, <1>3, <1>4

LEMMA LetGoIInv == IInv /\ LetGo => IInv'
  <1> SUFFICES ASSUME IInv, LetGo PROVE IInv'
    OBVIOUS
  <1> USE DEF IInv, LetGo
  <1>1. TypeOK'
    <2>1. Flags'
      BY DEF TypeOK, Flags
    <2>2. QED
      BY <2>1 DEF TypeOK
  <1>2. NoShellLeft' /\ Phases'
    BY DEF TypeOK, NoShellLeft, Phases
  <1>3. Slots'
    BY DEF TypeOK, Phases, Slots
  <1>4. PodIsKept'
    BY DEF TypeOK, Phases, Slots, PodIsKept
  <1>5. QED
    BY <1>1, <1>2, <1>3, <1>4

LEMMA ReadIInv == IInv /\ Read => IInv'
  <1> SUFFICES ASSUME IInv, Read PROVE IInv'
    OBVIOUS
  <1> USE DEF IInv, Read
  <1>1. TypeOK'
    <2>1. Flags'
      BY DEF TypeOK, Flags
    <2>2. QED
      BY <2>1 DEF TypeOK, Phases, Slots
  <1>2. NoShellLeft' /\ Phases'
    BY DEF TypeOK, NoShellLeft, Phases
  <1>3. Slots'
    BY DEF TypeOK, Phases, Slots
  <1>4. PodIsKept'
    BY DEF TypeOK, Phases, Slots, PodIsKept
  <1>5. QED
    BY <1>1, <1>2, <1>3, <1>4

LEMMA ForwardIInv == IInv /\ Forward => IInv'
  <1> SUFFICES ASSUME IInv, Forward PROVE IInv'
    OBVIOUS
  <1> USE DEF IInv, Forward
  <1>1. TypeOK'
    BY DEF TypeOK, Flags
  <1>2. NoShellLeft' /\ Phases'
    BY DEF TypeOK, NoShellLeft, Phases
  <1>3. Slots'
    BY DEF TypeOK, Phases, Slots
  <1>4. PodIsKept'
    BY DEF TypeOK, Phases, Slots, PodIsKept
  <1>5. QED
    BY <1>1, <1>2, <1>3, <1>4

LEMMA EndOfOutputIInv == IInv /\ EndOfOutput => IInv'
  <1> SUFFICES ASSUME IInv, EndOfOutput PROVE IInv'
    OBVIOUS
  <1> USE DEF IInv, EndOfOutput
  <1>1. TypeOK'
    BY DEF TypeOK, Flags
  <1>2. NoShellLeft' /\ Phases'
    BY DEF TypeOK, NoShellLeft, Phases
  <1>3. Slots'
    BY DEF TypeOK, Phases, Slots
  <1>4. PodIsKept'
    BY DEF TypeOK, Phases, Slots, PodIsKept
  <1>5. QED
    BY <1>1, <1>2, <1>3, <1>4

LEMMA SendIInv == IInv /\ Send => IInv'
  <1> SUFFICES ASSUME IInv, Send PROVE IInv'
    OBVIOUS
  <1> USE DEF IInv, Send
  <1>1. TypeOK'
    BY DEF TypeOK, Flags
  <1>2. NoShellLeft' /\ Phases'
    BY DEF TypeOK, NoShellLeft, Phases
  <1>3. Slots'
    BY DEF TypeOK, Phases, Slots
  <1>4. PodIsKept'
    BY DEF TypeOK, Phases, Slots, PodIsKept
  <1>5. QED
    BY <1>1, <1>2, <1>3, <1>4

LEMMA SendFailsIInv == IInv /\ SendFails => IInv'
  <1> SUFFICES ASSUME IInv, SendFails PROVE IInv'
    OBVIOUS
  <1> USE DEF IInv, SendFails
  <1>1. TypeOK'
    <2>1. Flags'
      BY DEF TypeOK, Flags
    <2>2. QED
      BY <2>1 DEF TypeOK
  <1>2. NoShellLeft' /\ Phases'
    BY DEF TypeOK, NoShellLeft, Phases
  <1>3. Slots'
    BY DEF TypeOK, Phases, Slots
  <1>4. PodIsKept'
    BY DEF TypeOK, Phases, Slots, PodIsKept
  <1>5. QED
    BY <1>1, <1>2, <1>3, <1>4

LEMMA GoOfflineIInv == IInv /\ GoOffline => IInv'
  <1> SUFFICES ASSUME IInv, GoOffline PROVE IInv'
    OBVIOUS
  <1> USE DEF IInv, GoOffline
  <1>1. TypeOK'
    <2>1. Flags'
      BY DEF TypeOK, Flags
    <2>2. QED
      BY <2>1 DEF TypeOK
  <1>2. NoShellLeft' /\ Phases'
    BY DEF TypeOK, NoShellLeft, Phases
  <1>3. Slots'
    BY DEF TypeOK, Phases, Slots
  <1>4. PodIsKept'
    BY DEF TypeOK, Phases, Slots, PodIsKept
  <1>5. QED
    BY <1>1, <1>2, <1>3, <1>4

LEMMA CreatePodIInv == IInv /\ CreatePod => IInv'
  <1> SUFFICES ASSUME IInv, CreatePod PROVE IInv'
    OBVIOUS
  <1> USE DEF IInv, CreatePod
  <1>1. TypeOK'
    <2>1. Flags'
      BY DEF TypeOK, Flags
    <2>2. QED
      BY <2>1 DEF TypeOK, Phases
  <1>2. NoShellLeft' /\ Phases'
    BY DEF TypeOK, NoShellLeft, Phases
  <1>3. Slots'
    BY DEF TypeOK, Phases, Slots
  <1>4. PodIsKept'
    BY DEF TypeOK, Phases, Slots, PodIsKept
  <1>5. QED
    BY <1>1, <1>2, <1>3, <1>4

LEMMA EmitIInv == IInv /\ Emit => IInv'
  <1> SUFFICES ASSUME IInv, Emit PROVE IInv'
    OBVIOUS
  <1> USE DEF IInv, Emit
  <1>1. TypeOK'
    BY DEF TypeOK, Flags
  <1>2. NoShellLeft' /\ Phases'
    BY DEF TypeOK, NoShellLeft, Phases
  <1>3. Slots'
    BY DEF TypeOK, Phases, Slots
  <1>4. PodIsKept'
    BY DEF TypeOK, Phases, Slots, PodIsKept
  <1>5. QED
    BY <1>1, <1>2, <1>3, <1>4

LEMMA ConsumeIInv == IInv /\ Consume => IInv'
  <1> SUFFICES ASSUME IInv, Consume PROVE IInv'
    OBVIOUS
  <1> USE DEF IInv, Consume
  <1>1. TypeOK'
    <2>1. Flags'
      BY DEF TypeOK, Flags
    <2>2. QED
      BY <2>1 DEF TypeOK
  <1>2. NoShellLeft' /\ Phases'
    BY DEF TypeOK, NoShellLeft, Phases
  <1>3. Slots'
    BY DEF TypeOK, Phases, Slots
  <1>4. PodIsKept'
    BY DEF TypeOK, Phases, Slots, PodIsKept
  <1>5. QED
    BY <1>1, <1>2, <1>3, <1>4

LEMMA ExitIInv == IInv /\ Exit => IInv'
  <1> SUFFICES ASSUME IInv, Exit PROVE IInv'
    OBVIOUS
  <1> USE DEF IInv, Exit
  <1>1. TypeOK'
    BY DEF TypeOK, Flags
  <1>2. NoShellLeft' /\ Phases'
    BY DEF TypeOK, NoShellLeft, Phases
  <1>3. Slots'
    BY DEF TypeOK, Phases, Slots
  <1>4. PodIsKept'
    BY DEF TypeOK, Phases, Slots, PodIsKept
  <1>5. QED
    BY <1>1, <1>2, <1>3, <1>4

LEMMA HangUpIInv == IInv /\ HangUp => IInv'
  <1> SUFFICES ASSUME IInv, HangUp PROVE IInv'
    OBVIOUS
  <1> USE DEF IInv, HangUp
  <1>1. TypeOK'
    BY DEF TypeOK, Flags
  <1>2. NoShellLeft' /\ Phases'
    BY DEF TypeOK, NoShellLeft, Phases
  <1>3. Slots'
    BY DEF TypeOK, Phases, Slots
  <1>4. PodIsKept'
    BY DEF TypeOK, Phases, Slots, PodIsKept
  <1>5. QED
    BY <1>1, <1>2, <1>3, <1>4

LEMMA NextIInv == IInv /\ [Next]_vars => IInv'
  <1> SUFFICES ASSUME IInv, [Next]_vars PROVE IInv'
    OBVIOUS
  <1>1. CASE UNCHANGED vars
    BY <1>1 DEF vars, IInv, TypeOK, Flags, NoShellLeft, Phases, Slots, PodIsKept
  <1>2. CASE Handler
    BY <1>2, SpawnShellIInv, SpawnFailsIInv, WriteIInv, ForgetIInv, SayIInv,
       LeaveIInv, KillIInv, ForgetLastIInv, LetGoIInv DEF Handler
  <1>3. CASE Output
    BY <1>3, ReadIInv, ForwardIInv, EndOfOutputIInv DEF Output
  <1>4. QED
    BY <1>1, <1>2, <1>3, TypeIInv, InterruptIInv, SendIInv, SendFailsIInv,
       GoOfflineIInv, CreatePodIInv, EmitIInv, ConsumeIInv, ExitIInv, HangUpIInv
    DEF Next

(* The whole invariant, for any capacity and any number of shells: what has *)
(* ended at each point of the handler, who holds the slot of the node shell *)
(* and which debug pods are still to be deleted.                            *)
THEOREM TerminalsStayInOrder == Spec => []IInv
  <1>1. IInv /\ [Next]_vars => IInv'
    BY NextIInv
  <1>2. QED
    BY InitIInv, <1>1, PTL DEF Spec

-----------------------------------------------------------------------------
(* No kubectl of a node shell runs once its terminal has closed, whichever *)
(* way out the handler took.                                               *)
THEOREM NodeShellsEnd == Spec => []NoShellLeft
  <1>1. IInv => NoShellLeft
    BY DEF IInv
  <1>2. QED
    BY TerminalsStayInOrder, <1>1, PTL

(* The pod of a node shell is gone with its terminal, if its name was read *)
(* and kubectl delete worked, and no Ctrl-C has replaced the shell.        *)
THEOREM NamedPodsAreDeleted == Spec => []PodsAreDeleted
  <1>1. IInv => PodsAreDeleted
    BY DEF IInv, TypeOK, PodIsKept, PodsAreDeleted
  <1>2. QED
    BY TerminalsStayInOrder, <1>1, PTL

(* No debug pod is deleted under a shell that still runs in it.            *)
THEOREM RunningPodsStay == Spec => DeletesOnlyDead
  <1>1. IInv /\ [Next]_vars => [\A g \in pods \ pods' : g # shell \/ child = "dead"]_vars
    <2> SUFFICES ASSUME IInv, Next, NEW g \in pods \ pods' PROVE child = "dead"
      BY DEF vars
    <2>1. Forget \/ ForgetLast
      BY DEF Next, Handler, Output, SpawnShell, SpawnFails, Type, Write, Interrupt,
         Say, Leave, Kill, LetGo, Read, Forward, EndOfOutput, Send, SendFails,
         GoOffline, CreatePod, Emit, Consume, Exit, HangUp
    <2>2. QED
      BY <2>1 DEF Forget, ForgetLast, IInv, Phases
  <1>2. QED
    BY TerminalsStayInOrder, <1>1, PTL DEF Spec, DeletesOnlyDead

=============================================================================
