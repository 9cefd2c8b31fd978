--------------------------- MODULE ClusterClientProofs ---------------------------
(***************************************************************************)
(* Proofs about ClusterClient, for any kubeconfigs, contexts, requests,    *)
(* attempts and faults.                                                    *)
(***************************************************************************)
EXTENDS ClusterClient, TLAPS

USE ClusterAssumption DEF Clients, Steps, Switching, UpSteps, UpWrites

LEMMA BootType ==
    ASSUME NEW f \in Files \cup {None}, NEW e \in Contexts \cup {None},
           NEW b \in Boot(f, e)
    PROVE  /\ b.file \in Files \cup {None}
           /\ b.client \in Clients \cup {None}
           /\ b.up \in {"check", "done"}
           /\ Fresh(b) /\ b.client # None =>
                b.client = <<b.file, Resolve(e, b.file)>>
  BY DEF Boot, Resolve, Defined, Current, Fresh

LEMMA ResolveType ==
    ASSUME NEW f \in Files \cup {None}, NEW e \in Contexts \cup {None}
    PROVE  Resolve(e, f) \in Contexts \cup {None}
  BY DEF Resolve, Current

LEMMA InitIInv == Init => IInv
  <1> SUFFICES ASSUME Init PROVE IInv
    OBVIOUS
  <1>1. env \in Contexts \cup {None}
    BY DEF Init
  <1>2. /\ file \in Files \cup {None} /\ client \in Clients \cup {None}
        /\ up \in {"check", "done"}
        /\ calm /\ client # None => client = <<file, Resolve(env, file)>>
    BY <1>1, BootType DEF Init
  <1>6. /\ flag = (client = None) /\ message = (client = None)
        /\ calm \in BOOLEAN
    BY DEF Init, Fresh
  <1>3. TypeOK
    BY <1>1, <1>2, <1>6 DEF Init, TypeOK
  <1>4. Busy = {}
    BY DEF Init, Busy
  <1>5. QED
    BY <1>1, <1>2, <1>3, <1>4, <1>6
    DEF Init, IInv, ConnectedIsReal, ClientIsBuilt, Undisturbed, Calm, Agree,
        AtRest, Shown, Resolve, Applying

LEMMA RestartIInv == IInv /\ Restart => IInv'
  <1> SUFFICES ASSUME IInv, Restart PROVE IInv'
    OBVIOUS
  <1>0. TypeOK
    BY DEF IInv
  <1>1. env' \in Contexts \cup {None}
    BY DEF Restart
  <1>2. /\ file' \in Files \cup {None} /\ client' \in Clients \cup {None}
        /\ up' \in {"check", "done"}
        /\ calm' /\ client' # None => client' = <<file', Resolve(env', file')>>
        /\ calm' \in BOOLEAN
    <2>1. PICK b \in Boot(file, env') :
             /\ file' = b.file /\ client' = b.client /\ up' = b.up
             /\ flag' = (b.client = None) /\ message' = (b.client = None)
             /\ calm' = Fresh(b)
      BY DEF Restart
    <2>2. Fresh(b) \in BOOLEAN
      BY DEF Fresh
    <2>3. QED
      BY <1>0, <1>1, <2>1, <2>2, BootType DEF TypeOK
  <1>3. /\ flag' = (client' = None) /\ message' = (client' = None)
    BY DEF Restart
  <1>4. TypeOK'
    BY <1>0, <1>1, <1>2, <1>3 DEF Restart, TypeOK
  <1>5. Busy' = {}
    BY DEF Restart, Busy
  <1>6. QED
    BY <1>1, <1>2, <1>3, <1>4, <1>5
    DEF Restart, IInv, ConnectedIsReal, ClientIsBuilt, Undisturbed, Calm, Agree,
        AtRest, Shown, Resolve, Applying

-----------------------------------------------------------------------------
(* Types *)

LEMMA TypeStep == TypeOK /\ ClientIsBuilt /\ [Next]_vars => TypeOK'
  <1> SUFFICES ASSUME TypeOK, ClientIsBuilt, [Next]_vars PROVE TypeOK'
    OBVIOUS
  <1>1. ASSUME NEW r \in Requests, Advance(r) PROVE TypeOK'
    <2>1. CASE Build(r)
      <3>1. Wanted(r) \in Defined(file) => <<file, Wanted(r)>> \in Clients
        BY DEF TypeOK, Wanted, Defined, Current
      <3>2. faults' \in Nat
        BY <2>1 DEF Build, TypeOK
      <3>3. made' \in [Requests -> Clients \cup {None}]
        BY <2>1, <3>1 DEF Build, TypeOK
      <3>4. pc' \in [Requests -> Steps]
        BY <2>1 DEF Build, Goto, TypeOK
      <3>5. calm' \in BOOLEAN /\ alone' \in Requests \cup {None}
        BY <2>1 DEF Build, Leave, TypeOK
      <3>6. QED
        BY <2>1, <3>2, <3>3, <3>4, <3>5 DEF Build, TypeOK, cellVars, upVars
    <2>2. CASE SetClient(r)
      BY <2>2 DEF SetClient, Goto, TypeOK, upVars
    <2>7. CASE LowerFlag(r)
      BY <2>7 DEF LowerFlag, Goto, TypeOK, upVars
    <2>8. CASE ClearMessage(r)
      BY <2>8 DEF ClearMessage, Goto, TypeOK, upVars
    <2>9. CASE RaiseFlag(r)
      BY <2>9 DEF RaiseFlag, Goto, TypeOK, upVars
    <2>3. CASE SetContext(r)
      <3>1. context' \in Contexts \cup {None}
        BY <2>3 DEF SetContext, TypeOK, ClientIsBuilt, Applying
      <3>2. QED
        BY <2>3, <3>1 DEF SetContext, Goto, TypeOK, upVars
    <2>4. CASE Explain(r)
      BY <2>4 DEF Explain, Leave, Goto, TypeOK, upVars
    <2>5. CASE Cordon(r)
      BY <2>5 DEF Cordon, Goto, TypeOK, cellVars, upVars
    <2>10. CASE Kubectl(r)
      BY <2>10 DEF Kubectl, Goto, TypeOK, cellVars, upVars
    <2>6. QED
      BY <1>1, <2>1, <2>2, <2>3, <2>4, <2>5, <2>7, <2>8, <2>9, <2>10 DEF Advance
  <1>2. ASSUME NEW r \in Requests, Hangup(r) PROVE TypeOK'
    <2>1. pc' \in [Requests -> Steps]
      BY <1>2 DEF Hangup, Goto, TypeOK
    <2>2. faults' \in Nat /\ alone' \in Requests \cup {None}
      BY <1>2 DEF Hangup, TypeOK
    <2>3. QED
      BY <1>2, <2>1, <2>2 DEF Hangup, TypeOK, cellVars, upVars
  <1>3. ASSUME NEW r \in Requests, NEW f \in Files, NEW c \in Contexts \cup {None},
               Upload(r, f, c)
        PROVE  TypeOK'
    BY <1>3 DEF Upload, Serve, Enter, Goto, TypeOK, cellVars, upVars
  <1>4. ASSUME NEW r \in Requests, NEW c \in Contexts, Select(r, c) PROVE TypeOK'
    BY <1>4 DEF Select, Serve, Enter, Goto, TypeOK, cellVars, upVars
  <1>5. ASSUME NEW r \in Requests, Drain(r) PROVE TypeOK'
    BY <1>5 DEF Drain, Serve, Goto, TypeOK, cellVars, upVars
  <1>6. CASE Upgrade
    <2>1. CASE Check
      BY <2>1 DEF Check, TypeOK, cellVars, reqVars
    <2>5. CASE UpFlag
      BY <2>5 DEF UpFlag, TypeOK, reqVars
    <2>6. CASE UpMessage
      BY <2>6 DEF UpMessage, TypeOK, reqVars
    <2>2. CASE Wake
      BY <2>2, ResolveType DEF Wake, TypeOK, cellVars, reqVars
    <2>3. CASE Load
      <3>1. upCtx \in Defined(file) => <<file, upCtx>> \in Clients
        BY DEF TypeOK, Defined
      <3>2. faults' \in Nat
        BY <2>3 DEF Load, TypeOK
      <3>3. QED
        BY <2>3, <3>1, <3>2 DEF Load, TypeOK, reqVars
    <2>4. QED
      BY <1>6, <2>1, <2>2, <2>3, <2>5, <2>6 DEF Upgrade
  <1>7. CASE Restart
    BY <1>7, BootType DEF Restart, TypeOK, Fresh
  <1>8. CASE UNCHANGED vars
    BY <1>8 DEF vars, cellVars, reqVars, upVars, TypeOK
  <1>9. QED
    BY <1>1, <1>2, <1>3, <1>4, <1>5, <1>6, <1>7, <1>8 DEF Next

-----------------------------------------------------------------------------
(* The cells *)

Rest == ConnectedIsReal /\ ClientIsBuilt /\ Undisturbed /\ Calm

LEMMA BuildRest ==
    ASSUME IInv, NEW r \in Requests, Build(r)
    PROVE  Rest'
  <1> USE DEF IInv, Build, Goto, cellVars, upVars, TypeOK
  <1>1. r \in Busy
    BY DEF Busy
  <1>2. Wanted(r) \in Defined(file) =>
           <<file, Wanted(r)>> \in Clients /\ <<file, Wanted(r)>> # None
    BY DEF Wanted, Defined, Current
  <1>3. ClientIsBuilt' /\ ConnectedIsReal'
    BY <1>2 DEF ClientIsBuilt, ConnectedIsReal, Applying
  <1>4. CASE Wanted(r) \in Defined(file) /\ pc' = [pc EXCEPT ![r] = "client"]
             /\ made' = [made EXCEPT ![r] = <<file, Wanted(r)>>]
             /\ UNCHANGED <<alone, calm>>
    <2>1. Busy' = Busy
      BY <1>4 DEF Busy
    <2>2. Undisturbed'
      BY <1>1, <1>2, <1>4, <2>1 DEF Undisturbed, AloneAt, Applying
    <2>3. Calm'
      BY <1>1, <1>4, <2>1 DEF Calm, AtRest, Agree, Shown
    <2>4. QED
      BY <1>3, <2>2, <2>3 DEF Rest
  <1>5. CASE upload[r] /\ pc' = [pc EXCEPT ![r] = "raise"]
             /\ UNCHANGED <<made, alone, calm>>
    <2>1. Busy' = Busy
      BY <1>5 DEF Busy
    <2>2. Undisturbed'
      BY <1>1, <1>5, <2>1 DEF Undisturbed, AloneAt, Applying
    <2>3. Calm'
      BY <1>1, <1>5, <2>1 DEF Calm, AtRest, Agree, Shown
    <2>4. QED
      BY <1>3, <2>2, <2>3 DEF Rest
  <1>6. CASE ~upload[r] /\ pc' = [pc EXCEPT ![r] = "idle"] /\ Leave(r)
             /\ UNCHANGED made
    <2>1. Busy' = Busy \ {r}
      BY <1>6 DEF Busy
    <2>2. Undisturbed'
      BY <1>1, <1>6, <2>1 DEF Undisturbed, AloneAt, Applying, Leave
    <2>3. Calm'
      BY <1>1, <1>6, <2>1 DEF Calm, AtRest, Agree, Shown, Leave, Undisturbed, AloneAt
    <2>4. QED
      BY <1>3, <2>2, <2>3 DEF Rest
  <1>7. QED
    BY <1>4, <1>5, <1>6

LEMMA SetClientRest ==
    ASSUME IInv, NEW r \in Requests, SetClient(r)
    PROVE  Rest'
  <1> USE DEF IInv, SetClient, Goto, upVars, TypeOK
  <1>1. Busy' = Busy /\ r \in Busy
    BY DEF Busy
  <1>2. ConnectedIsReal' /\ ClientIsBuilt'
    BY DEF ConnectedIsReal, ClientIsBuilt, Applying
  <1>3. Undisturbed'
    BY <1>1 DEF Undisturbed, AloneAt, Applying
  <1>4. Calm'
    BY <1>1 DEF Calm, Undisturbed, AloneAt, AtRest, Agree, Shown
  <1>5. QED
    BY <1>2, <1>3, <1>4 DEF Rest

LEMMA LowerFlagRest ==
    ASSUME IInv, NEW r \in Requests, LowerFlag(r)
    PROVE  Rest'
  <1> USE DEF IInv, LowerFlag, Goto, upVars, TypeOK
  <1>1. Busy' = Busy /\ r \in Busy
    BY DEF Busy
  <1>2. ConnectedIsReal' /\ ClientIsBuilt'
    BY DEF ConnectedIsReal, ClientIsBuilt, Applying
  <1>3. Undisturbed'
    BY <1>1 DEF Undisturbed, AloneAt, Applying
  <1>4. Calm'
    BY <1>1 DEF Calm, Undisturbed, AloneAt, AtRest, Agree, Shown
  <1>5. QED
    BY <1>2, <1>3, <1>4 DEF Rest

LEMMA ClearMessageRest ==
    ASSUME IInv, NEW r \in Requests, ClearMessage(r)
    PROVE  Rest'
  <1> USE DEF IInv, ClearMessage, Goto, upVars, TypeOK
  <1>1. Busy' = Busy /\ r \in Busy
    BY DEF Busy
  <1>2. ConnectedIsReal' /\ ClientIsBuilt'
    BY DEF ConnectedIsReal, ClientIsBuilt, Applying
  <1>3. Undisturbed'
    BY <1>1 DEF Undisturbed, AloneAt, Applying
  <1>4. Calm'
    BY <1>1 DEF Calm, Undisturbed, AloneAt, AtRest, Agree, Shown
  <1>5. QED
    BY <1>2, <1>3, <1>4 DEF Rest

LEMMA SetContextRest ==
    ASSUME IInv, NEW r \in Requests, SetContext(r)
    PROVE  Rest'
  <1> USE DEF IInv, SetContext, Goto, upVars, TypeOK
  <1>1. Busy' = Busy \ {r} /\ r \in Busy
    BY DEF Busy
  <1>2. ConnectedIsReal' /\ ClientIsBuilt'
    BY DEF ConnectedIsReal, ClientIsBuilt, Applying
  <1>3. Undisturbed'
    BY <1>1 DEF Undisturbed, AloneAt, Applying
  <1>4. CASE alone = r
    <2>1. /\ Busy' = {} /\ alone' = None /\ up' \notin UpWrites
          /\ ~flag' /\ ~message'
          /\ client' = made[r] /\ made[r][1] = file' /\ context' = made[r][2]
          /\ made[r] \in Clients
      BY <1>1, <1>4 DEF Undisturbed, AloneAt, Applying
    <2>2. context' # None /\ client' = <<file', context'>>
      <3>1. PICK f \in Files, c \in Contexts : made[r] = <<f, c>>
        BY <2>1
      <3>2. QED
        BY <2>1, <3>1
    <2>3. QED
      BY <1>2, <1>3, <2>1, <2>2 DEF Rest, Calm, AtRest, Agree, Shown
  <1>5. CASE alone # r
    <2>1. ~calm /\ ~calm'
      BY <1>1, <1>5 DEF Calm, Undisturbed, AloneAt
    <2>2. QED
      BY <1>2, <1>3, <2>1 DEF Rest, Calm
  <1>6. QED
    BY <1>4, <1>5

LEMMA RaiseFlagRest ==
    ASSUME IInv, NEW r \in Requests, RaiseFlag(r)
    PROVE  Rest'
  <1> USE DEF IInv, RaiseFlag, Goto, upVars, TypeOK
  <1>1. Busy' = Busy /\ r \in Busy
    BY DEF Busy
  <1>2. ConnectedIsReal' /\ ClientIsBuilt'
    BY DEF ConnectedIsReal, ClientIsBuilt, Applying
  <1>3. Undisturbed'
    BY <1>1 DEF Undisturbed, AloneAt, Applying
  <1>4. Calm'
    BY <1>1 DEF Calm, Undisturbed, AloneAt, AtRest, Agree, Shown
  <1>5. QED
    BY <1>2, <1>3, <1>4 DEF Rest

LEMMA ExplainRest ==
    ASSUME IInv, NEW r \in Requests, Explain(r)
    PROVE  Rest'
  <1> USE DEF IInv, Explain, Leave, Goto, upVars, TypeOK
  <1>1. Busy' = Busy \ {r} /\ r \in Busy
    BY DEF Busy
  <1>2. ConnectedIsReal' /\ ClientIsBuilt'
    BY DEF ConnectedIsReal, ClientIsBuilt, Applying
  <1>3. Undisturbed'
    BY <1>1 DEF Undisturbed, AloneAt, Applying
  <1>4. Calm'
    BY <1>1 DEF Calm, Undisturbed, AloneAt, AtRest, Agree, Shown
  <1>5. QED
    BY <1>2, <1>3, <1>4 DEF Rest

LEMMA HangupRest ==
    ASSUME IInv, NEW r \in Requests, Hangup(r)
    PROVE  Rest'
  <1> USE DEF IInv, Hangup, Goto, cellVars, upVars, TypeOK
  <1>1. Busy' = Busy \ {r} /\ r \in Busy
    BY DEF Busy
  <1>2. ConnectedIsReal' /\ ClientIsBuilt'
    BY DEF ConnectedIsReal, ClientIsBuilt, Applying
  <1>3. Undisturbed'
    BY <1>1 DEF Undisturbed, AloneAt, Applying
  <1>4. QED
    BY <1>2, <1>3 DEF Rest, Calm

(* A switch that begins takes a slot that was not writing.                 *)
LEMMA UploadRest ==
    ASSUME IInv, NEW r \in Requests, NEW f \in Files, NEW c, Upload(r, f, c)
    PROVE  Rest'
  <1> USE DEF IInv, Upload, Serve, Enter, Goto, cellVars, upVars, TypeOK
  <1>1. Busy' = Busy \cup {r} /\ r \notin Busy
    BY DEF Busy
  <1>2. ConnectedIsReal' /\ ClientIsBuilt'
    BY DEF ConnectedIsReal, ClientIsBuilt, Applying
  <1>3. Undisturbed'
    BY <1>1 DEF Undisturbed, AloneAt, Applying
  <1>4. Calm'
    <2>1. calm' => /\ calm /\ Busy = {} /\ up \notin UpWrites /\ up' = up
                   /\ alone' = r /\ Busy' = {r} /\ r # None
      BY <1>1
    <2>2. calm => (Busy = {} /\ up \notin UpWrites => Agree)
      BY DEF Calm, AtRest
    <2>3. QED
      BY <1>1, <2>1, <2>2 DEF Calm, AtRest, Agree, Shown
  <1>5. QED
    BY <1>2, <1>3, <1>4 DEF Rest

LEMMA SelectRest ==
    ASSUME IInv, NEW r \in Requests, NEW c, Select(r, c)
    PROVE  Rest'
  <1> USE DEF IInv, Select, Serve, Enter, Goto, cellVars, upVars, TypeOK
  <1>1. Busy' = Busy \cup {r} /\ r \notin Busy
    BY DEF Busy
  <1>2. ConnectedIsReal' /\ ClientIsBuilt'
    BY DEF ConnectedIsReal, ClientIsBuilt, Applying
  <1>3. Undisturbed'
    BY <1>1 DEF Undisturbed, AloneAt, Applying
  <1>4. Calm'
    <2>1. calm' => /\ calm /\ Busy = {} /\ up \notin UpWrites /\ up' = up
                   /\ alone' = r /\ Busy' = {r} /\ r # None
      BY <1>1
    <2>2. calm => (Busy = {} /\ up \notin UpWrites => Agree)
      BY DEF Calm, AtRest
    <2>3. QED
      BY <1>1, <2>1, <2>2 DEF Calm, AtRest, Agree, Shown
  <1>5. QED
    BY <1>2, <1>3, <1>4 DEF Rest

(* A drain changes nothing that is switched.                               *)
LEMMA DrainRest ==
    ASSUME IInv, NEW r \in Requests, Drain(r)
    PROVE  Rest'
  <1> USE DEF IInv, Drain, Serve, Goto, cellVars, upVars, TypeOK
  <1>1. Busy' = Busy /\ r \notin Busy
    BY DEF Busy
  <1>2. ConnectedIsReal' /\ ClientIsBuilt'
    BY DEF ConnectedIsReal, ClientIsBuilt, Applying
  <1>3. Undisturbed'
    BY <1>1 DEF Undisturbed, AloneAt, Applying
  <1>4. Calm'
    BY <1>1 DEF Calm, Undisturbed, AloneAt, AtRest, Agree, Shown
  <1>5. QED
    BY <1>2, <1>3, <1>4 DEF Rest

LEMMA CordonRest ==
    ASSUME IInv, NEW r \in Requests, Cordon(r)
    PROVE  Rest'
  <1> USE DEF IInv, Cordon, Serve, Goto, cellVars, upVars, TypeOK
  <1>1. Busy' = Busy /\ r \notin Busy
    BY DEF Busy
  <1>2. ConnectedIsReal' /\ ClientIsBuilt'
    BY DEF ConnectedIsReal, ClientIsBuilt, Applying
  <1>3. Undisturbed'
    BY <1>1 DEF Undisturbed, AloneAt, Applying
  <1>4. Calm'
    BY <1>1 DEF Calm, Undisturbed, AloneAt, AtRest, Agree, Shown
  <1>5. QED
    BY <1>2, <1>3, <1>4 DEF Rest

LEMMA KubectlRest ==
    ASSUME IInv, NEW r \in Requests, Kubectl(r)
    PROVE  Rest'
  <1> USE DEF IInv, Kubectl, Serve, Goto, cellVars, upVars, TypeOK
  <1>1. Busy' = Busy /\ r \notin Busy
    BY DEF Busy
  <1>2. ConnectedIsReal' /\ ClientIsBuilt'
    BY DEF ConnectedIsReal, ClientIsBuilt, Applying
  <1>3. Undisturbed'
    BY <1>1 DEF Undisturbed, AloneAt, Applying
  <1>4. Calm'
    BY <1>1 DEF Calm, Undisturbed, AloneAt, AtRest, Agree, Shown
  <1>5. QED
    BY <1>2, <1>3, <1>4 DEF Rest

LEMMA CheckRest ==
    ASSUME IInv, Check
    PROVE  Rest'
  <1> USE DEF IInv, Check, cellVars, reqVars, TypeOK
  <1>1. Busy' = Busy
    BY DEF Busy
  <1>2. ConnectedIsReal' /\ ClientIsBuilt' /\ Undisturbed'
    BY <1>1 DEF ConnectedIsReal, ClientIsBuilt, Undisturbed, AloneAt, Applying
  <1>3. Calm'
    BY <1>1 DEF Calm, AtRest, Agree, Shown
  <1>4. QED
    BY <1>2, <1>3 DEF Rest

LEMMA WakeRest ==
    ASSUME IInv, Wake
    PROVE  Rest'
  <1> USE DEF IInv, Wake, cellVars, reqVars, TypeOK
  <1>1. Busy' = Busy
    BY DEF Busy
  <1>2. ConnectedIsReal' /\ ClientIsBuilt' /\ Undisturbed'
    BY <1>1 DEF ConnectedIsReal, ClientIsBuilt, Undisturbed, AloneAt, Applying
  <1>3. CASE upCtx' = None
    BY <1>1, <1>2, <1>3 DEF Rest, Calm, AtRest, Agree, Shown
  <1>4. CASE upCtx' # None
    <2>1. calm' => /\ calm /\ Busy = {} /\ flag /\ Agree /\ env = context
      BY <1>4 DEF Calm, AtRest
    <2>2. QED
      BY <1>1, <1>2, <1>4, <2>1 DEF Rest, Calm, AtRest, Agree, Shown, Resolve
  <1>5. QED
    BY <1>3, <1>4

LEMMA LoadRest ==
    ASSUME IInv, Load
    PROVE  Rest'
  <1> USE DEF IInv, Load, reqVars, TypeOK
  <1>1. Busy' = Busy
    BY DEF Busy
  <1>2. /\ alone = None /\ alone' = None
        /\ calm => Busy = {}
    BY DEF Undisturbed, AloneAt, Calm
  <1>3. upCtx \in Defined(file) => <<file, upCtx>> # None
    BY DEF Defined
  <1>4. ConnectedIsReal' /\ ClientIsBuilt' /\ Undisturbed'
    BY <1>1, <1>2, <1>3 DEF ConnectedIsReal, ClientIsBuilt, Undisturbed, Applying
  <1>5. Calm'
    BY <1>1, <1>2 DEF Calm, AtRest, Agree, Shown
  <1>6. QED
    BY <1>4, <1>5 DEF Rest

LEMMA UpFlagRest ==
    ASSUME IInv, UpFlag
    PROVE  Rest'
  <1> USE DEF IInv, UpFlag, reqVars, TypeOK
  <1>1. Busy' = Busy
    BY DEF Busy
  <1>2. alone = None /\ alone' = None
    BY DEF Undisturbed, AloneAt
  <1>3. ConnectedIsReal' /\ ClientIsBuilt' /\ Undisturbed'
    BY <1>1, <1>2 DEF ConnectedIsReal, ClientIsBuilt, Undisturbed, Applying
  <1>4. Calm'
    BY <1>1, <1>2 DEF Calm, AtRest, Agree, Shown
  <1>5. QED
    BY <1>3, <1>4 DEF Rest

LEMMA UpMessageRest ==
    ASSUME IInv, UpMessage
    PROVE  Rest'
  <1> USE DEF IInv, UpMessage, reqVars, TypeOK
  <1>1. Busy' = Busy
    BY DEF Busy
  <1>2. alone = None /\ alone' = None
    BY DEF Undisturbed, AloneAt
  <1>3. ConnectedIsReal' /\ ClientIsBuilt' /\ Undisturbed'
    BY <1>1, <1>2 DEF ConnectedIsReal, ClientIsBuilt, Undisturbed, Applying
  <1>4. Calm'
    BY <1>1, <1>2 DEF Calm, AtRest, Agree, Shown
  <1>5. QED
    BY <1>3, <1>4 DEF Rest

LEMMA StutterRest == IInv /\ UNCHANGED vars => Rest'
  <1> SUFFICES ASSUME IInv, UNCHANGED vars PROVE Rest'
    OBVIOUS
  <1> USE DEF vars, cellVars, reqVars, upVars
  <1>1. Busy' = Busy
    BY DEF Busy
  <1>2. QED
    BY <1>1 DEF IInv, Rest, ConnectedIsReal, ClientIsBuilt, Undisturbed, AloneAt,
        Calm, AtRest, Agree, Shown, Applying

LEMMA NextIInv == IInv /\ [Next]_vars => IInv'
  <1> SUFFICES ASSUME IInv, [Next]_vars PROVE IInv'
    OBVIOUS
  <1>1. TypeOK'
    BY TypeStep DEF IInv
  <1>2. ASSUME NEW r \in Requests, Advance(r) PROVE Rest'
    BY <1>2, BuildRest, SetClientRest, LowerFlagRest, ClearMessageRest,
       SetContextRest, RaiseFlagRest, ExplainRest, CordonRest, KubectlRest
    DEF Advance
  <1>3. ASSUME NEW r \in Requests, Hangup(r) \/ Drain(r) PROVE Rest'
    BY <1>3, HangupRest, DrainRest
  <1>4. ASSUME NEW r \in Requests, NEW f \in Files, NEW c \in Contexts \cup {None},
               Upload(r, f, c)
        PROVE  Rest'
    BY <1>4, UploadRest
  <1>5. ASSUME NEW r \in Requests, NEW c \in Contexts, Select(r, c) PROVE Rest'
    BY <1>5, SelectRest
  <1>6. ASSUME Upgrade PROVE Rest'
    BY <1>6, CheckRest, WakeRest, LoadRest, UpFlagRest, UpMessageRest DEF Upgrade
  <1>7. ASSUME Restart PROVE Rest'
    BY <1>7, RestartIInv DEF IInv, Rest
  <1>8. ASSUME UNCHANGED vars PROVE Rest'
    BY <1>8, StutterRest
  <1>9. Rest'
    BY <1>2, <1>3, <1>4, <1>5, <1>6, <1>7, <1>8 DEF Next
  <1>10. QED
    BY <1>1, <1>9 DEF IInv, Rest

(* The whole invariant, for any kubeconfigs, requests and attempts: the     *)
(* types, a client that was really built, what a switch that runs alone     *)
(* finds at each of its writes, and the context an upgrade will load.       *)
THEOREM CellsStayInOrder == Spec => []IInv
  <1>1. QED
    BY InitIInv, NextIInv, PTL DEF Spec

-----------------------------------------------------------------------------
(* A backend that reports a connection has a client of some context, under *)
(* every interleaving of switches, upgrade, hang-ups and restarts.         *)
THEOREM ConnectionIsReal == Spec => []ConnectedIsReal
  <1>1. IInv => ConnectedIsReal
    BY DEF IInv
  <1>2. QED
    BY <1>1, CellsStayInOrder, PTL

(* After a switch that ran alone the five cells agree, whatever parted     *)
(* them before, and until one of the causes CellsAgree lists parts them.   *)
THEOREM SwitchesAreWhole == Spec => []CellsAgree
  <1>1. IInv => CellsAgree
    BY DEF IInv, Calm, CellsAgree, Agree
  <1>2. QED
    BY <1>1, CellsStayInOrder, PTL

=============================================================================
