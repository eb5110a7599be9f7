----------------------- MODULE ServiceLifecycleProofs -----------------------
(***************************************************************************)
(* The safety of the token's rotation and of the start, for any tokens,    *)
(* settings and number of workers.                                         *)
(***************************************************************************)
EXTENDS ServiceLifecycle, TLAPS

\* Whether the holder of t is let in.
Admits(e, t) == Trusted(e) = {} \/ t \in Trusted(e)

\* What the rotation has done to the settings and to the processes: the ones that were
\* started before its last step know the caller too, and while no replacement is under way
\* there are none of those.
Rotation ==
  /\ stage = "steady" =>
       /\ caller = current /\ fresh = 0
       /\ Trusted(settings) \subseteq {caller}
       /\ \A p \in Pod : Running(p) => Trusted(pods[p].env) \subseteq {caller}
  /\ stage = "widened" =>
       /\ caller = current
       /\ Trusted(settings) = {current, next}
       /\ \A p \in Pod : Running(p) =>
            /\ Admits(pods[p].env, caller)
            /\ fresh \in {0, p} => Trusted(pods[p].env) = {current, next}
  /\ stage = "switched" =>
       /\ caller = next /\ fresh = 0
       /\ Trusted(settings) = {current, next}
       /\ \A p \in Pod : Running(p) => Trusted(pods[p].env) = {current, next}
  /\ stage = "narrowed" =>
       /\ caller = next
       /\ Trusted(settings) = {next}
       /\ \A p \in Pod : Running(p) =>
            /\ Admits(pods[p].env, caller)
            /\ fresh \in {0, p} => Trusted(pods[p].env) = {next}

\* A process only runs with settings that main accepted.
Started == \A p \in Pod : Running(p) => Starts(pods[p].env)

Inv == TypeOK /\ Rotation /\ Started

-----------------------------------------------------------------------------
(* Steps.                                                                  *)

\* The variable of two tokens, and of one.
LEMMA TokenVariables ==
  ASSUME NEW s \in Token, NEW t \in Token
  PROVE  /\ <<s, t>> \in Text /\ <<t>> \in Text /\ <<>> \in Text
         /\ Pushed(<<s, t>>) = {s, t} /\ Pushed(<<t>>) = {t} /\ Pushed(<<>>) = {}
<1>1. /\ Range(<<s, t>>) = {s, t} /\ Range(<<t>>) = {t} /\ Range(<<>>) = {}
  BY DEF Range
<1>2. s # Nothing /\ t # Nothing
  BY LifecycleAssumption
<1>3. QED
  BY <1>1, <1>2 DEF Pushed, Text

\* The forms that a pod has.
LEMMA PodForms ==
  ASSUME TypeOK, NEW p \in Pod
  PROVE  /\ pods[p].state \in {"gone", "down", "up"}
         /\ pods[p].state = "up" => pods[p] \in Process
         /\ pods[p].state = "down" => pods[p] = Down
         /\ pods[p].state = "gone" => pods[p] = Gone
<1>1. pods[p] = Gone \/ pods[p] = Down \/ pods[p] \in Process
  BY DEF TypeOK
<1>2. CASE pods[p] = Gone
  BY <1>2 DEF Gone
<1>3. CASE pods[p] = Down
  BY <1>3 DEF Down
<1>4. CASE pods[p] \in Process
  BY <1>4 DEF Process
<1>5. QED
  BY <1>1, <1>2, <1>3, <1>4

\* A step of one process leaves the deployment alone, and the process that runs after it, if
\* any, is the one before it or starts with the present settings.
StepOf(p) ==
  /\ UNCHANGED deployment
  /\ \A q \in Pod \ {p} : pods'[q] = pods[q]
  /\ pods' \in [Pod -> {Gone, Down} \cup Process]
  /\ pods[p] # Gone /\ pods'[p] # Gone
  /\ Running(p)' => \/ Running(p) /\ pods'[p].env = pods[p].env
                    \/ pods'[p].env = settings /\ Starts(settings)

LEMMA ProcessSteps ==
  ASSUME TypeOK, NEW p \in Pod,
         \/ Start(p) \/ Generate(p) \/ Generated(p)
         \/ ReadinessProbe(p) \/ LivenessProbe(p) \/ Crash(p)
  PROVE  StepOf(p)
<1> USE DEF Running, StepOf
<1>1. /\ pods \in [Pod -> {Gone, Down} \cup Process] /\ Workers \in Nat \ {0}
      /\ settings \in Setting
  BY LifecycleAssumption DEF TypeOK
<1>2. CASE Start(p)
  <2>1. Up(settings) \in Process /\ Up(settings).env = settings
    BY <1>1 DEF Up, Process
  <2>2. pods[p] = Down /\ Down # Gone /\ Up(settings) # Gone
    BY <1>2, PodForms DEF Start, Down, Gone, Up
  <2>3. pods' = [pods EXCEPT ![p] = Up(settings)] /\ UNCHANGED deployment /\ Starts(settings)
    BY <1>2 DEF Start
  <2>4. QED
    BY <1>1, <2>1, <2>2, <2>3
<1>3. CASE Generate(p) \/ Generated(p) \/ ReadinessProbe(p)
  <2>1. pods[p] \in Process /\ pods[p] # Gone
    BY <1>3, PodForms DEF Generate, Generated, ReadinessProbe, Serving, Gone
  <2>2. PICK w \in Process : /\ pods' = [pods EXCEPT ![p] = w] /\ w.env = pods[p].env
    <3>1. CASE Generate(p)
      <4>1. [pods[p] EXCEPT !.blocked = @ + 1] \in Process
        BY <1>1, <2>1, <3>1 DEF Process, Generate
      <4>2. QED
        BY <2>1, <3>1, <4>1 DEF Generate, Process
    <3>2. CASE Generated(p)
      <4>1. [pods[p] EXCEPT !.blocked = @ - 1] \in Process
        BY <1>1, <2>1, <3>2 DEF Process, Generated
      <4>2. QED
        BY <2>1, <3>2, <4>1 DEF Generated, Process
    <3>3. CASE ReadinessProbe(p)
      <4>1. [pods[p] EXCEPT !.ready = ~@] \in Process
        BY <2>1 DEF Process
      <4>2. QED
        BY <2>1, <3>3, <4>1 DEF ReadinessProbe, Process
    <3>4. QED
      BY <1>3, <3>1, <3>2, <3>3
  <2>3. w # Gone
    BY DEF Process, Gone
  <2>4. UNCHANGED deployment
    BY <1>3 DEF Generate, Generated, ReadinessProbe
  <2>5. pods[p].state = "up"
    BY <2>1 DEF Process
  <2>6. QED
    BY <1>1, <2>1, <2>2, <2>3, <2>4, <2>5
<1>4. CASE LivenessProbe(p) \/ Crash(p)
  <2>1. pods[p] # Gone /\ Down # Gone /\ Down.state # "up"
    BY <1>4, PodForms DEF LivenessProbe, Crash, Gone, Down
  <2>2. pods' = [pods EXCEPT ![p] = Down] /\ UNCHANGED deployment
    BY <1>4 DEF LivenessProbe, Crash
  <2>3. QED
    BY <1>1, <2>1, <2>2
<1>5. QED
  BY <1>2, <1>3, <1>4

LEMMA StepOfKeeps ==
  ASSUME Inv, NEW p \in Pod, StepOf(p)
  PROVE  Inv'
<1> USE DEF Inv
<1>1. UNCHANGED <<settings, fresh, stage, current, next, caller>>
  BY DEF StepOf, deployment
<1>2. TypeOK'
  BY <1>1 DEF TypeOK, StepOf
<1>3. ASSUME NEW q \in Pod, Running(q)'
      PROVE  \/ Running(q) /\ pods'[q].env = pods[q].env
             \/ pods'[q].env = settings /\ Starts(settings)
  BY <1>3 DEF StepOf, Running
<1>4. Started'
  BY <1>3 DEF Started
<1>5. Rotation'
  BY <1>1, <1>3 DEF Rotation, Admits
<1>6. QED
  BY <1>2, <1>4, <1>5

\* A pod is created beside the one that serves.
LEMMA Created ==
  ASSUME TypeOK, \E p \in Pod : Replacing(p)
  PROVE  /\ fresh = 0 /\ fresh' \in Pod
         /\ pods' \in [Pod -> {Gone, Down} \cup Process] /\ \A q \in Pod : pods'[q] # Gone
         /\ \A q \in Pod : Running(q)' => q # fresh' /\ Running(q) /\ pods'[q] = pods[q]
<1>1. PICK p \in Pod : Replacing(p)
  OBVIOUS
<1>2. PICK s \in Pod \ {p} : Serving(s)
  BY <1>1 DEF Replacing
<1>3. pods[s] # Gone /\ \A q \in Pod : q = p \/ q = s
  BY <1>2, PodForms DEF Serving, Running, Gone, Pod
<1>4. Down # Gone /\ Down.state # "up"
  BY DEF Down, Gone
<1>5. QED
  BY <1>1, <1>3, <1>4 DEF Replacing, TypeOK, Running

LEMMA InvInit == Init => Inv
<1> SUFFICES ASSUME Init PROVE Inv
  OBVIOUS
<1>1. settings \in Setting /\ current \in Token
  <2>1. settings \in Setting
    BY LifecycleAssumption DEF Init
  <2>2. Trusted(settings) \subseteq Token
    <3>1. settings.token \in Text /\ settings.tokens \in Text
      BY <2>1 DEF Setting
    <3>2. Range(settings.token) \subseteq Token \cup {Nothing}
          /\ Range(settings.tokens) \subseteq Token \cup {Nothing}
      BY <3>1 DEF Range, Text
    <3>3. QED
      BY <3>2 DEF Trusted, Pushed
  <2>3. QED
    BY <2>1, <2>2 DEF Init
<1>2. \A p \in Pod : ~Running(p) /\ pods[p] \in {Gone, Down}
  BY DEF Init, Running, Gone, Down
<1>3. fresh = 0 /\ pods[2] = Gone /\ 2 \in Pod
  BY DEF Init, Pod
<1>4. TypeOK
  BY <1>1, <1>2, <1>3 DEF TypeOK, Init, Pod
<1>5. QED
  BY <1>2, <1>4 DEF Inv, Rotation, Started, Init

LEMMA ReplaceKeeps == Inv /\ Replace => Inv'
<1> SUFFICES ASSUME Inv, Replace PROVE Inv'
  OBVIOUS
<1>1. UNCHANGED <<settings, stage, current, next, caller>> /\ fresh' = 0 /\ fresh \in Pod
  BY DEF Inv, TypeOK, Replace
<1>2. /\ pods' \in [Pod -> {Gone, Down} \cup Process]
      /\ pods'[fresh] = pods[fresh] /\ \A p \in Pod \ {fresh} : pods'[p] = Gone
  BY <1>1 DEF Inv, TypeOK, Replace
<1>3. \A p \in Pod : Running(p)' => p = fresh /\ Running(p) /\ pods'[p] = pods[p]
  BY <1>1, <1>2 DEF Running, Gone
<1>4. \E p \in Pod : pods'[p] = Gone
  BY <1>1, <1>2 DEF Pod
<1>5. TypeOK'
  BY <1>1, <1>2, <1>4 DEF Inv, TypeOK
<1>6. Rotation'
  <2>1. stage = "widened" \/ stage = "narrowed"
    BY <1>1 DEF Inv, Rotation, TypeOK, Pod
  <2>2. CASE stage = "widened"
    BY <1>1, <1>3, <2>2 DEF Inv, Rotation, Admits
  <2>3. CASE stage = "narrowed"
    BY <1>1, <1>3, <2>3 DEF Inv, Rotation, Admits
  <2>4. QED
    BY <2>1, <2>2, <2>3
<1>7. Started'
  BY <1>3 DEF Inv, Started
<1>8. QED
  BY <1>5, <1>6, <1>7 DEF Inv

LEMMA WidenKeeps == Inv /\ Widen => Inv'
<1> SUFFICES ASSUME Inv, Widen PROVE Inv'
  OBVIOUS
<1>1. PICK t \in Token : /\ next' = t
                        /\ settings' = [settings EXCEPT !.tokens = <<current, t>>]
  BY DEF Widen
<1>2. stage = "steady" /\ stage' = "widened" /\ UNCHANGED <<current, caller>>
  BY DEF Widen
<1>3. /\ fresh = 0 /\ fresh' \in Pod
      /\ pods' \in [Pod -> {Gone, Down} \cup Process] /\ \A q \in Pod : pods'[q] # Gone
      /\ \A q \in Pod : Running(q)' => q # fresh' /\ Running(q) /\ pods'[q] = pods[q]
  BY Created DEF Widen, Inv
<1>4. settings \in Setting /\ {current, next, caller} \subseteq Token
  BY DEF Inv, TypeOK
<1>5. <<current, t>> \in Text /\ Pushed(<<current, t>>) = {current, t}
  BY <1>4, TokenVariables
<1>6. settings' \in Setting /\ settings'.token = settings.token
      /\ settings'.tokens = <<current, t>>
  BY <1>1, <1>4, <1>5 DEF Setting
<1>7. Trusted(settings)' = {current, t}
  <2>1. Pushed(settings.token) \subseteq {current}
    BY <1>2 DEF Inv, Rotation, Trusted
  <2>2. QED
    BY <1>5, <1>6, <2>1 DEF Trusted
<1>8. TypeOK'
  BY <1>1, <1>2, <1>3, <1>4, <1>6 DEF TypeOK, Pod
<1>9. \A q \in Pod : Running(q)' => q # fresh' /\ fresh' # 0 /\ Admits(pods[q].env, caller)
  BY <1>2, <1>3 DEF Inv, Rotation, Admits, Pod
<1>10. Rotation'
  BY <1>1, <1>2, <1>3, <1>7, <1>9 DEF Inv, Rotation, Admits
<1>11. Started'
  BY <1>3 DEF Inv, Started
<1>12. QED
  BY <1>8, <1>10, <1>11 DEF Inv

LEMMA NarrowKeeps == Inv /\ Narrow => Inv'
<1> SUFFICES ASSUME Inv, Narrow PROVE Inv'
  OBVIOUS
<1>1. /\ settings' = [settings EXCEPT !.token = <<next>>, !.tokens = <<>>]
      /\ stage = "switched" /\ stage' = "narrowed" /\ UNCHANGED <<current, next, caller>>
  BY DEF Narrow
<1>2. /\ fresh = 0 /\ fresh' \in Pod
      /\ pods' \in [Pod -> {Gone, Down} \cup Process] /\ \A q \in Pod : pods'[q] # Gone
      /\ \A q \in Pod : Running(q)' => q # fresh' /\ Running(q) /\ pods'[q] = pods[q]
  BY Created DEF Narrow, Inv
<1>3. settings \in Setting /\ {current, next, caller} \subseteq Token
  BY DEF Inv, TypeOK
<1>4. /\ <<next>> \in Text /\ <<>> \in Text
      /\ Pushed(<<next>>) = {next} /\ Pushed(<<>>) = {}
  BY <1>3, TokenVariables
<1>5. settings' \in Setting /\ settings'.token = <<next>> /\ settings'.tokens = <<>>
  BY <1>1, <1>3, <1>4 DEF Setting
<1>6. Trusted(settings)' = {next}
  BY <1>4, <1>5 DEF Trusted
<1>7. TypeOK'
  BY <1>1, <1>2, <1>3, <1>5 DEF TypeOK, Pod
<1>8. \A q \in Pod : Running(q)' => q # fresh' /\ fresh' # 0 /\ Admits(pods[q].env, caller)
  BY <1>1, <1>2 DEF Inv, Rotation, Admits, Pod
<1>9. Rotation'
  BY <1>1, <1>2, <1>6, <1>8 DEF Inv, Rotation, Admits
<1>10. Started'
  BY <1>2 DEF Inv, Started
<1>11. QED
  BY <1>7, <1>9, <1>10 DEF Inv

LEMMA CallerSteps == Inv /\ (SwitchCaller \/ Settle) => Inv'
<1> SUFFICES ASSUME Inv, SwitchCaller \/ Settle PROVE Inv'
  OBVIOUS
<1>1. UNCHANGED <<settings, pods, fresh, next>> /\ fresh = 0
  BY DEF SwitchCaller, Settle
<1>2. TypeOK'
  BY <1>1 DEF Inv, TypeOK, SwitchCaller, Settle
<1>3. Started'
  BY <1>1 DEF Inv, Started, Running
<1>4. Rotation'
  <2>1. CASE SwitchCaller
    BY <1>1, <2>1 DEF SwitchCaller, Inv, Rotation, Running
  <2>2. CASE Settle
    BY <1>1, <2>2 DEF Settle, Inv, Rotation, Running
  <2>3. QED
    BY <2>1, <2>2
<1>5. QED
  BY <1>2, <1>3, <1>4 DEF Inv

LEMMA InvInduction == Spec => []Inv
<1>1. Inv /\ [Next]_vars => Inv'
  <2> SUFFICES ASSUME Inv, [Next]_vars PROVE Inv'
    OBVIOUS
  <2>1. ASSUME NEW p \in Pod,
               \/ Start(p) \/ Generate(p) \/ Generated(p)
               \/ ReadinessProbe(p) \/ LivenessProbe(p) \/ Crash(p)
        PROVE  Inv'
    BY <2>1, ProcessSteps, StepOfKeeps DEF Inv
  <2>2. CASE UNCHANGED vars
    BY <2>2 DEF vars, Inv, TypeOK, Rotation, Started, Running, Admits
  <2>3. QED
    BY <2>1, <2>2, ReplaceKeeps, WidenKeeps, NarrowKeeps, CallerSteps DEF Next
<1>2. QED
  BY <1>1, InvInit, PTL DEF Spec

-----------------------------------------------------------------------------
(* What the invariant shows.                                               *)

\* Every variable has its type, and a replacement under way has two pods, for any settings.
THEOREM TypeCorrect == Spec => []TypeOK
<1>1. Inv => TypeOK
  BY DEF Inv
<1>2. QED
  BY <1>1, InvInduction, PTL

\* No process that serves refuses the caller's token (main.rs:195-205, 278-334), at any
\* moment of a rotation that follows the manifest's comment.
THEOREM CallerServedCorrect == Spec => []CallerServed
<1>1. Inv => CallerServed
  <2> SUFFICES ASSUME Inv, NEW p \in Pod, Serving(p)
               PROVE  Status(pods[p].env, "/agent-policy", By(caller)) = "handled"
    BY DEF CallerServed
  <2>1. Running(p) /\ stage \in {"steady", "widened", "switched", "narrowed"}
    BY DEF Serving, Inv, TypeOK
  <2>2. Admits(pods[p].env, caller)
    BY <2>1 DEF Inv, Rotation, Admits
  <2>3. BearerToken(By(caller)) = caller
    BY DEF BearerToken, By
  <2>4. Authorizes(pods[p].env, By(caller))
    BY <2>2, <2>3 DEF Admits, Authorizes
  <2>5. QED
    BY <2>4 DEF Status, Routes
<1>2. QED
  BY <1>1, InvInduction, PTL

\* When a rotation has ended, no process trusts any token but the caller's (main.rs:278-305).
THEOREM RetiredRefusedCorrect == Spec => []RetiredRefused
<1>1. Inv => RetiredRefused
  BY DEF Inv, Rotation, RetiredRefused
<1>2. QED
  BY <1>1, InvInduction, PTL

\* The routes that sign are registered only in a process with the signing key
\* (main.rs:124-164, policy.rs:91-122).
THEOREM RoutesEquippedCorrect == Spec => []RoutesEquipped
<1>1. Inv => RoutesEquipped
  BY DEF Inv, Started, Starts, RoutesEquipped, Routes, LegacyApi, KeyMaterial
<1>2. QED
  BY <1>1, InvInduction, PTL
=============================================================================
