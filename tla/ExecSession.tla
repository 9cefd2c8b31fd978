------------------------------- MODULE ExecSession -------------------------------
(***************************************************************************)
(* One terminal of the page (backend/src/ws_handler.rs, the exec part):    *)
(* the WebSocket, the task that sends on it, the loop that handles its     *)
(* messages, the shell and what reads its output.                          *)
(*                                                                         *)
(* A node shell is a kubectl debug on pipes, which makes a debug pod that  *)
(* the handler has to delete; host and pod shells run on a PTY.  A pipe, a *)
(* PTY buffer included, holds one piece in each direction.  stdout and     *)
(* stderr have a task each in the code and share one here.  Left out: what *)
(* is typed and printed, resizing, pings, and the rejected token.          *)
(***************************************************************************)
EXTENDS Naturals

CONSTANTS
    Capacity,  \* messages the channel to the browser holds (256 in the code)
    MaxShells, \* bound on shells started
    MaxErrors  \* bound on shells that do not start and pods not deleted

ASSUME ExecAssumption ==
    /\ Capacity \in Nat \ {0}
    /\ MaxShells \in Nat \ {0}
    /\ MaxErrors \in Nat

Shells == 1 .. MaxShells

VARIABLES
    pty,     \* a host or pod shell
    online,  \* the WebSocket is there
    queue,   \* messages in the channel tx, rx
    sender,  \* ws_send_task runs, and holds rx
    loop,    \* where handle_exec_socket is
    shell,   \* shells started so far; the last one is current
    child,   \* the process of the current shell
    input,   \* something is in its input pipe
    output,  \* what is in its output pipe
    reader,  \* the task or thread that reads it
    slot,    \* node_debug_pod_name: the shell whose pod it names, or 0
    hasSlot, \* ... it is Some
    pods,    \* shells whose debug pod exists
    created, \* kubectl has made the pod of the current shell
    errors,
    learnt,  \* history: shells whose pod's name was read
    failed   \* history: shells whose pod could not be deleted

linkVars  == <<online, queue, sender>>
shellVars == <<child, input, output, created>>
slotVars  == <<slot, hasSlot>>
podVars   == <<pods, errors, learnt, failed>>
vars == <<pty, linkVars, loop, shell, shellVars, reader, slotVars, podVars>>

Init ==
    /\ pty \in BOOLEAN
    /\ online = TRUE /\ queue = 0 /\ sender = TRUE
    /\ loop = "spawn" /\ shell = 0
    /\ child = "none" /\ output = "none" /\ reader = "off"
    /\ input = FALSE /\ created = FALSE
    /\ slot = 0 /\ hasSlot = FALSE
    /\ pods = {} /\ errors = 0 /\ learnt = {} /\ failed = {}

-----------------------------------------------------------------------------
(* The handler *)

Fault == errors < MaxErrors /\ errors' = errors + 1

(* ws_send_task ends and drops rx.                                         *)
StopSender == sender' = FALSE /\ queue' = 0

(* Mutant of SpawnShell: the name of the old pod is kept.                  *)
SpawnKeepsName ==
    /\ loop = "spawn" /\ loop' = "serve"
    /\ shell' = shell + 1
    /\ child' = "alive" /\ output' = "none"
    /\ input' = FALSE /\ created' = FALSE
    /\ reader' = "reading"
    /\ hasSlot' = ~pty
    /\ UNCHANGED <<pty, linkVars, slot, podVars>>

(* spawn_exec_shell succeeds.  Only the first shell has somewhere to put   *)
(* the name of its pod: suppress_kubectl_debug_noise is false.             *)
SpawnShell ==
    /\ loop = "spawn" /\ loop' = "serve"
    /\ shell' = shell + 1
    /\ child' = "alive" /\ output' = "none"
    /\ input' = FALSE /\ created' = FALSE
    /\ reader' = "reading"
    /\ slot' = 0 /\ hasSlot' = (~pty /\ shell = 0)
    /\ UNCHANGED <<pty, linkVars, podVars>>

(* It fails: no session comes about, or the loop ends.                     *)
SpawnFails ==
    /\ loop = "spawn"
    /\ Fault
    /\ IF shell = 0 THEN loop' = "done" /\ StopSender
                    ELSE loop' = "break" /\ UNCHANGED <<queue, sender>>
    /\ UNCHANGED <<pty, online, shell, shellVars, reader, slotVars,
                   pods, learnt, failed>>

(* A message with input, to be written to the shell ...                    *)
Type ==
    /\ loop = "serve" /\ online
    /\ loop' = "write"
    /\ UNCHANGED <<pty, linkVars, shell, shellVars, reader, slotVars, podVars>>

(* ... once there is room, unless the shell has ended.                     *)
Write ==
    /\ loop = "write"
    /\ \/ child = "alive" /\ ~input /\ input' = TRUE /\ loop' = "serve"
       \/ child = "dead" /\ loop' = "break" /\ UNCHANGED input
    /\ UNCHANGED <<pty, linkVars, shell, child, output, created, reader,
                   slotVars, podVars>>

(* Mutant of Interrupt: Ctrl-C is left to the shell.                       *)
InterruptOnly ==
    /\ loop = "serve" /\ online /\ ~pty
    /\ shell < MaxShells
    /\ loop' = "forget"
    /\ reader' = "off"
    /\ UNCHANGED <<pty, linkVars, shell, shellVars, slotVars, podVars>>

(* Ctrl-C on pipes kills the shell; on a PTY it is input.                  *)
Interrupt ==
    /\ loop = "serve" /\ online /\ ~pty
    /\ shell < MaxShells
    /\ loop' = "forget"
    /\ child' = "dead" /\ reader' = "off"
    /\ UNCHANGED <<pty, linkVars, shell, input, output, created, slotVars, podVars>>

(* cleanup_node_debug_pod                                                  *)
DeletePod ==
    \/ pods' = pods \ {slot} /\ UNCHANGED <<errors, failed>>
    \/ slot \in pods /\ Fault /\ failed' = failed \cup {slot} /\ UNCHANGED pods

Forget ==
    /\ loop = "forget" /\ loop' = "say"
    /\ DeletePod
    /\ UNCHANGED <<pty, linkVars, shell, shellVars, reader, slotVars, learnt>>

(* "^C" goes through the same channel as the output.                       *)
Say ==
    /\ loop = "say" /\ loop' = "spawn"
    /\ IF sender THEN queue < Capacity /\ queue' = queue + 1 ELSE UNCHANGED queue
    /\ UNCHANGED <<pty, online, sender, shell, shellVars, reader, slotVars, podVars>>

(* ws_receiver ends.                                                       *)
Leave ==
    /\ loop = "serve" /\ ~online
    /\ loop' = "break"
    /\ UNCHANGED <<pty, linkVars, shell, shellVars, reader, slotVars, podVars>>

(* Mutant of Kill: the shell is left to notice by itself.                  *)
KillNot ==
    /\ loop = "break" /\ ~pty
    /\ loop' = "forgetLast"
    /\ reader' = "off"
    /\ UNCHANGED <<pty, linkVars, shell, shellVars, slotVars, podVars>>

(* After the loop: a shell on pipes is killed, and its pod deleted.        *)
Kill ==
    /\ loop = "break" /\ ~pty
    /\ loop' = "forgetLast"
    /\ child' = "dead" /\ reader' = "off"
    /\ UNCHANGED <<pty, linkVars, shell, input, output, created, slotVars, podVars>>

(* Mutant of ForgetLast: the pod stays.                                    *)
ForgetLastNot ==
    /\ loop = "forgetLast" /\ loop' = "done"
    /\ StopSender
    /\ UNCHANGED <<pty, online, shell, shellVars, reader, slotVars, podVars>>

ForgetLast ==
    /\ loop = "forgetLast" /\ loop' = "done"
    /\ DeletePod
    /\ StopSender
    /\ UNCHANGED <<pty, online, shell, shellVars, reader, slotVars, learnt>>

(* A PTY is let go.  Its shell is told that the input has ended, and may   *)
(* act on it (Exit); aborting a blocking thread does nothing, so the       *)
(* reader stays.                                                           *)
LetGo ==
    /\ loop = "break" /\ pty
    /\ loop' = "done"
    /\ StopSender
    /\ UNCHANGED <<pty, online, shell, shellVars, reader, slotVars, podVars>>

-----------------------------------------------------------------------------
(* The output: reader, channel, ws_send_task *)

(* sanitize_piped_output looks for the name of the pod.                    *)
Read ==
    /\ reader = "reading" /\ output # "none"
    /\ reader' = "sending" /\ output' = "none"
    /\ slot' = IF output = "name" /\ hasSlot THEN shell ELSE slot
    /\ learnt' = IF output = "name" THEN learnt \cup {shell} ELSE learnt
    /\ UNCHANGED <<pty, linkVars, loop, shell, child, input, created, hasSlot,
                   pods, errors, failed>>

(* Mutant of Forward: it waits for room although nobody will make any.     *)
ForwardWaits ==
    /\ reader = "sending" /\ sender
    /\ queue < Capacity /\ queue' = queue + 1 /\ reader' = "reading"
    /\ UNCHANGED <<pty, online, sender, loop, shell, shellVars, slotVars, podVars>>

Forward ==
    /\ reader = "sending"
    /\ IF sender
       THEN queue < Capacity /\ queue' = queue + 1 /\ reader' = "reading"
       ELSE reader' = "over" /\ UNCHANGED queue
    /\ UNCHANGED <<pty, online, sender, loop, shell, shellVars, slotVars, podVars>>

EndOfOutput ==
    /\ reader = "reading" /\ output = "none" /\ child = "dead"
    /\ reader' = "over"
    /\ UNCHANGED <<pty, linkVars, loop, shell, shellVars, slotVars, podVars>>

Send ==
    /\ sender /\ online /\ queue > 0
    /\ queue' = queue - 1
    /\ UNCHANGED <<pty, online, sender, loop, shell, shellVars, reader, slotVars, podVars>>

(* Mutant of SendFails: it is only noticed with room in the channel.       *)
SendFailsLate ==
    /\ sender /\ ~online /\ queue < Capacity
    /\ StopSender
    /\ UNCHANGED <<pty, online, loop, shell, shellVars, reader, slotVars, podVars>>

(* A message or a ping cannot be sent.                                     *)
SendFails ==
    /\ sender /\ ~online
    /\ StopSender
    /\ UNCHANGED <<pty, online, loop, shell, shellVars, reader, slotVars, podVars>>

-----------------------------------------------------------------------------
(* The browser, kubectl and the shell *)

GoOffline ==
    /\ online /\ online' = FALSE
    /\ UNCHANGED <<pty, queue, sender, loop, shell, shellVars, reader, slotVars, podVars>>

(* kubectl debug -q makes the pod; whether it prints the name in spite of  *)
(* -q is up to its version.                                                *)
CreatePod ==
    /\ ~pty /\ child = "alive" /\ ~created /\ output = "none"
    /\ created' = TRUE
    /\ pods' = pods \cup {shell}
    /\ output' \in {"none", "name"}
    /\ UNCHANGED <<pty, linkVars, loop, shell, child, input, reader, slotVars,
                   errors, learnt, failed>>

Emit ==
    /\ child = "alive" /\ output = "none"
    /\ output' = "text"
    /\ UNCHANGED <<pty, linkVars, loop, shell, child, input, created, reader,
                   slotVars, podVars>>

Consume ==
    /\ child = "alive" /\ input
    /\ input' = FALSE
    /\ UNCHANGED <<pty, linkVars, loop, shell, child, output, created, reader,
                   slotVars, podVars>>

(* A shell ends when it likes, at the end of its input for example.        *)
Exit ==
    /\ child = "alive"
    /\ child' = "dead"
    /\ UNCHANGED <<pty, linkVars, loop, shell, input, output, created, reader,
                   slotVars, podVars>>

(* The kernel hangs up a PTY nobody holds any more.                        *)
HangUp ==
    /\ pty /\ loop = "done" /\ reader = "over"
    /\ child = "alive" /\ child' = "dead"
    /\ UNCHANGED <<pty, linkVars, loop, shell, input, output, created, reader,
                   slotVars, podVars>>

-----------------------------------------------------------------------------
Handler == \/ SpawnShell \/ SpawnFails
           \/ Write \/ Forget \/ Say \/ Leave \/ Kill \/ ForgetLast \/ LetGo

Output == Read \/ Forward \/ EndOfOutput

Next == \/ Handler \/ Type \/ Interrupt
        \/ Output \/ Send \/ SendFails
        \/ GoOffline \/ CreatePod \/ Emit \/ Consume \/ Exit \/ HangUp

Spec == Init /\ [][Next]_vars

(* tokio runs its tasks, the browser reads what it is sent, and kubectl    *)
(* delete returns.  Nobody has to type, and a shell need not read, print   *)
(* or end.                                                                 *)
FairSpec ==
    /\ Spec
    /\ WF_vars(Handler) /\ WF_vars(Output)
    /\ WF_vars(Send) /\ WF_vars(SendFails) /\ WF_vars(HangUp)

-----------------------------------------------------------------------------
Flags == {pty, online, sender, input, hasSlot, created} \subseteq BOOLEAN

TypeOK ==
    /\ Flags
    /\ queue \in 0 .. Capacity
    /\ loop \in {"spawn", "serve", "write", "forget", "say", "break",
                 "forgetLast", "done"}
    /\ shell \in 0 .. MaxShells
    /\ child \in {"none", "alive", "dead"}
    /\ output \in {"none", "text", "name"}
    /\ reader \in {"off", "reading", "sending", "over"}
    /\ slot \in {0} \cup Shells
    /\ pods \subseteq Shells /\ learnt \subseteq Shells /\ failed \subseteq Shells
    /\ errors \in Nat

(* A node shell does not outlive its terminal, however the loop ended.     *)
NoShellLeft == loop = "done" /\ ~pty => child # "alive"

(* A debug pod that outlives the terminal is one whose name was not read   *)
(* before the terminal closed, that kubectl failed to delete, or, a defect *)
(* of the code, that belongs to a shell started by Ctrl-C.                 *)
PodsAreDeleted ==
    loop = "done" => \A g \in pods : g \notin learnt \/ g \in failed \/ g > 1

(* A pod is deleted only after its shell has ended.                        *)
DeletesOnlyDead ==
    [][\A g \in pods \ pods' : g # shell \/ child = "dead"]_vars

(* Input waits for a shell that does not read.                             *)
Deaf == loop = "write" /\ child = "alive" /\ input

(* Once the browser is gone the terminal ends, whatever is full; but not   *)
(* before a shell that does not read has taken its input.                  *)
SessionEnds == ~online ~> loop = "done" \/ Deaf

(* Ctrl-C ends with a new shell or none, even when the channel is full of  *)
(* output of the old one.                                                  *)
InterruptIsAnswered == loop = "forget" ~> loop \in {"serve", "done"}

(* A shell on a PTY that prints something after its terminal has closed    *)
(* ends, and so does the thread that reads from it: what stays for good is *)
(* silent.                                                                 *)
TerminalsEnd ==
    <>[](pty /\ loop = "done" /\ child = "alive" =>
            reader = "reading" /\ output = "none")

-----------------------------------------------------------------------------
(* What the proofs need besides.  A killed shell stays dead until the next *)
(* one; what reads a node shell runs only beside the loop; only the first  *)
(* shell of a node has a slot, and the slot keeps the name of its pod      *)
(* until that is deleted.                                                  *)
Phases ==
    /\ loop \in {"forget", "say", "forgetLast"} =>
          ~pty /\ child = "dead" /\ reader = "off"
    /\ loop \in {"forget", "say", "spawn"} => shell < MaxShells
    /\ loop = "spawn" => child # "alive" /\ reader = "off" /\ (shell # 0 => ~pty)
    /\ loop \notin {"spawn", "done"} => shell # 0
    /\ ~pty /\ reader \in {"reading", "sending"} => loop \in {"serve", "write", "break"}
    /\ shell = 0 => child = "none" /\ reader = "off"

Slots ==
    /\ reader \in {"reading", "sending"} => hasSlot = (~pty /\ shell = 1)
    /\ hasSlot => shell = 1
    /\ slot \in {0, 1} /\ (slot = 1 => hasSlot)
    /\ shell = 0 => pods = {} /\ learnt = {} /\ ~created
    /\ pty => pods = {}
    /\ \A g \in pods \cup learnt : g < shell \/ (g = shell /\ created)
    /\ output = "name" => created

PodIsKept ==
    1 \in (pods \cap learnt) \ failed =>
        slot = 1 /\ loop \in {"serve", "write", "break", "forget", "forgetLast"}

IInv == TypeOK /\ NoShellLeft /\ Phases /\ Slots /\ PodIsKept

=============================================================================
