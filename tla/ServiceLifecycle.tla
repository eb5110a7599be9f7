-------------------------- MODULE ServiceLifecycle --------------------------
(***************************************************************************)
(* The service's process (main.rs): what it refuses to start with, the     *)
(* routes and the tokens it then has until it ends, and the workers that   *)
(* genpolicy blocks.  Around it, as deploy/kubernetes.yaml has it: the     *)
(* Deployment with one replica, replaced by a new one that is ready first, *)
(* its probes of /healthz, and the rotation of the token it shares with    *)
(* its caller, whose settings a process only sees when it starts.          *)
(***************************************************************************)
EXTENDS Naturals, Sequences, Functions

CONSTANTS Token,        \* the tokens that are rotated
          Nothing,      \* an empty part of a variable, or no token
          Environments, \* the settings the first process is given
          Workers       \* worker threads of the tokio runtime

\* A variable with tokens: its parts between commas and white space.
Text == Seq(Token \cup {Nothing})

Setting == [signing : BOOLEAN, legacy : BOOLEAN,             \* env_flag
            key : {"absent", "malformed", "seed"},           \* POLICY_SIGNING_KEY_B64
            keyId : BOOLEAN, raw : BOOLEAN, ephemeral : BOOLEAN,
            pin : {"absent", "blank", "unpinned", "release"},
            token : Text, tokens : Text, open : BOOLEAN]

ASSUME LifecycleAssumption == /\ Nothing \notin Token
                              /\ Environments \subseteq Setting
                              /\ Workers \in Nat \ {0}

Pod == 1..2
Gone == [state |-> "gone"]
Down == [state |-> "down"]
Up(e) == [state |-> "up", env |-> e, ready |-> FALSE, blocked |-> 0]
Process == [state : {"up"}, env : Setting, ready : BOOLEAN, blocked : 0..Workers]

VARIABLES
  settings, \* the Secret and the ConfigMap
  pods,     \* the pods of the Deployment, and the process of each
  fresh,    \* the pod that replaces the other, while a replacement is under way, or 0
  stage,    \* where the rotation of the token is
  current,  \* the token that the rotation started from
  next,     \* the token it leads to
  caller    \* the token of the caller, PLATFORM_SIGNING_SERVICE_TOKEN
deployment == <<settings, fresh, stage, current, next, caller>>
vars == <<settings, pods, fresh, stage, current, next, caller>>

Running(p) == pods[p].state = "up"
Serving(p) == Running(p) /\ pods[p].ready
-----------------------------------------------------------------------------
(* Start.                                                                  *)

\* load_signing_key_material.
LoadsKey(e) == \/ e.key = "seed" /\ e.raw /\ e.keyId
               \/ e.key = "absent" /\ e.ephemeral

\* Mutant: the flag alone registers the legacy routes.
LegacyApiByFlag(e) == e.legacy
LegacyApi(e) == e.signing /\ e.legacy

\* push_tokens, of one variable.
Pushed(text) == Range(text) \ {Nothing}

\* Mutant: the list is read only in the absence of the single token.
TrustedEither(e) == IF Pushed(e.token) # {} THEN Pushed(e.token) ELSE Pushed(e.tokens)
Trusted(e) == Pushed(e.token) \cup Pushed(e.tokens)

\* Whether main reaches its listener; opening the database may fail too.
Starts(e) == /\ e.signing => LoadsKey(e)
             /\ e.pin = "release"
             /\ Trusted(e) # {} \/ e.open

\* The routes, and what their handlers find missing.
Routes(e) == {"/healthz", "/agent-policy"}
             \cup IF LegacyApi(e)
                    THEN {"/sign", "/bootstrap-org", "/rotate-owner", "/orgs/:org_id/owner"}
                    ELSE {}
KeyMaterial(e) == e.signing /\ LoadsKey(e)
Protected(e) == Routes(e) \ {"/healthz"}

\* The token of an Authorization header, and whether it opens a protected route.
Header == [scheme : {"Bearer", "bearer", "other"}, token : Token \cup {Nothing}]
BearerToken(h) == IF h.scheme \in {"Bearer", "bearer"} THEN h.token ELSE Nothing
Authorizes(e, h) == Trusted(e) = {} \/ BearerToken(h) \in Trusted(e)

\* Mutant: the authentication layer is around all routes.
StatusGuarded(e, route, h) == IF route \notin Routes(e) THEN "not found"
                              ELSE IF ~Authorizes(e, h) THEN "unauthorized" ELSE "handled"
Status(e, route, h) ==
  IF route \notin Routes(e) THEN "not found"
  ELSE IF route \in Protected(e) /\ ~Authorizes(e, h) THEN "unauthorized"
  ELSE "handled"

By(t) == [scheme |-> "Bearer", token |-> t]
Probe(e) == Status(e, "/healthz", By(Nothing))

Init ==
  /\ settings \in Environments
  /\ current \in Trusted(settings) \cup (IF Trusted(settings) = {} THEN Token ELSE {})
  /\ Trusted(settings) \subseteq {current}
  /\ next = current /\ caller = current
  /\ pods = [p \in Pod |-> IF p = 1 THEN Down ELSE Gone]
  /\ fresh = 0 /\ stage = "steady"

Start(p) ==
  /\ pods[p].state = "down" /\ Starts(settings)
  /\ pods' = [pods EXCEPT ![p] = Up(settings)]
  /\ UNCHANGED deployment
-----------------------------------------------------------------------------
(* Calls and probes.                                                       *)

\* genpolicy runs on the worker thread that handles the call.
Generate(p) ==
  /\ Serving(p) /\ pods[p].blocked < Workers
  /\ Status(pods[p].env, "/agent-policy", By(caller)) = "handled"
  /\ pods' = [pods EXCEPT ![p].blocked = @ + 1]
  /\ UNCHANGED deployment

Generated(p) ==
  /\ Running(p) /\ pods[p].blocked > 0
  /\ pods' = [pods EXCEPT ![p].blocked = @ - 1]
  /\ UNCHANGED deployment

Answers(p) == pods[p].blocked < Workers /\ Probe(pods[p].env) = "handled"

ReadinessProbe(p) ==
  /\ Running(p) /\ pods[p].ready # Answers(p)
  /\ pods' = [pods EXCEPT ![p].ready = ~@]
  /\ UNCHANGED deployment

\* Mutant: the process ends its calls first.
LivenessProbeGraceful(p) ==
  /\ Running(p) /\ ~Answers(p) /\ pods[p].blocked = 0
  /\ pods' = [pods EXCEPT ![p] = Down]
  /\ UNCHANGED deployment
\* A process that does not answer is killed, with its calls, and started again: what it
\* waits for to end them first is SIGINT only.
LivenessProbe(p) ==
  /\ Running(p) /\ ~Answers(p)
  /\ pods' = [pods EXCEPT ![p] = Down]
  /\ UNCHANGED deployment

Crash(p) ==
  /\ Running(p)
  /\ pods' = [pods EXCEPT ![p] = Down]
  /\ UNCHANGED deployment
-----------------------------------------------------------------------------
(* The Deployment and the rotation of the token.                           *)

\* A replacement starts with a second pod, and ends when that one is ready.
Replacing(p) == /\ fresh = 0 /\ pods[p].state = "gone"
                /\ \E q \in Pod \ {p} : Serving(q)
                /\ fresh' = p /\ pods' = [pods EXCEPT ![p] = Down]

\* Mutant: the old pod stays.
ReplaceNone ==
  /\ fresh # 0 /\ Serving(fresh) /\ fresh' = 0
  /\ UNCHANGED <<settings, pods, stage, current, next, caller>>
Replace ==
  /\ fresh # 0 /\ Serving(fresh)
  /\ pods' = [p \in Pod |-> IF p = fresh THEN pods[p] ELSE Gone]
  /\ fresh' = 0
  /\ UNCHANGED <<settings, stage, current, next, caller>>

\* "Rotate by setting both old and new tokens, ...
Widen ==
  /\ stage = "steady"
  /\ \E t \in Token \ {current} :
       /\ next' = t
       /\ settings' = [settings EXCEPT !.tokens = <<current, t>>]
  /\ stage' = "widened"
  /\ \E p \in Pod : Replacing(p)
  /\ UNCHANGED <<current, caller>>

\* The caller changes over when all of the service knows both.
SwitchCaller ==
  /\ stage = "widened" /\ fresh = 0
  /\ caller' = next /\ stage' = "switched"
  /\ UNCHANGED <<settings, pods, fresh, current, next>>

\* ... then narrowing back to one token."
Narrow ==
  /\ stage = "switched"
  /\ settings' = [settings EXCEPT !.token = <<next>>, !.tokens = <<>>]
  /\ stage' = "narrowed"
  /\ \E p \in Pod : Replacing(p)
  /\ UNCHANGED <<current, next, caller>>

\* Mutant: the replacement is not awaited.
SettleEarly ==
  /\ stage = "narrowed"
  /\ current' = next /\ stage' = "steady"
  /\ UNCHANGED <<settings, pods, fresh, next, caller>>
Settle ==
  /\ stage = "narrowed" /\ fresh = 0
  /\ current' = next /\ stage' = "steady"
  /\ UNCHANGED <<settings, pods, fresh, next, caller>>

Next == \/ \E p \in Pod : \/ Start(p) \/ Generate(p) \/ Generated(p)
                          \/ ReadinessProbe(p) \/ LivenessProbe(p) \/ Crash(p)
        \/ Replace \/ Widen \/ SwitchCaller \/ Narrow \/ Settle

Spec == Init /\ [][Next]_vars

\* The probes, the restarts and the Deployment's controller go on, and the operator does not
\* leave a rotation half done; nothing is assumed of genpolicy, which may never end.  A
\* process does not crash each time before the probe that would find it ready, nor each time
\* before the controller or the operator sees that it is.
Fairness ==
  /\ \A p \in Pod : WF_vars(Start(p)) /\ WF_vars(LivenessProbe(p)) /\ SF_vars(ReadinessProbe(p))
  /\ SF_vars(Replace) /\ SF_vars(Narrow)
  /\ WF_vars(SwitchCaller) /\ WF_vars(Settle)

FairSpec == Spec /\ Fairness

-----------------------------------------------------------------------------
(* Properties.                                                             *)

\* Every variable has its type; a replacement under way has two pods.
TypeOK ==
  /\ settings \in Setting
  /\ pods \in [Pod -> {Gone, Down} \cup Process]
  /\ fresh \in Pod \cup {0}
  /\ stage \in {"steady", "widened", "switched", "narrowed"}
  /\ {current, next, caller} \subseteq Token
  /\ fresh # 0 <=> \A p \in Pod : pods[p] # Gone

\* No process that serves refuses the caller's token, whichever settings it was started
\* with, and wherever the rotation is.
CallerServed ==
  \A p \in Pod :
    Serving(p) => Status(pods[p].env, "/agent-policy", By(caller)) = "handled"

\* When the rotation has come to its end no process knows another token than the caller's.
RetiredRefused ==
  stage = "steady" => \A p \in Pod : Running(p) => Trusted(pods[p].env) \subseteq {caller}

\* No handler finds its API disabled (main.rs:229, 243): the routes that sign are only
\* there with the key, although the two are decided by different flags.
RoutesEquipped ==
  \A p \in Pod :
    Running(p) /\ "/sign" \in Routes(pods[p].env) => KeyMaterial(pods[p].env)

\* A service whose workers are all blocked by genpolicy recovers, although genpolicy is run
\* without a limit of time.
Stuck(p) == Running(p) /\ pods[p].blocked = Workers
Recovers ==
  (\E p \in Pod : Stuck(p)) ~> (\E p \in Pod : Serving(p) /\ pods[p].blocked < Workers)

\* A rotation that was begun ends, whatever crashes and is blocked in the meantime, where a
\* replacement can be scheduled beside the pod it replaces.
RotationEnds == stage = "widened" ~> stage = "steady"
=============================================================================
