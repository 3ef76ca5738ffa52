---------------------------- MODULE FacadeProofs ----------------------------
(***************************************************************************)
(* Who closes a client under a wait, and what a wait says of its message,  *)
(* for every number of facades, every way they own or borrow their         *)
(* clients, and every number of attempts.                                  *)
(***************************************************************************)
EXTENDS Facade, TLAPS

\* What a facade's wait knows: the attempts made so far leave one to ask with,
\* nothing but "sent" was heard before the end, and the end is told once.
WaitInv(f) ==
  /\ asked[f] <= setup.attempts
  /\ pc[f] \in {"ask", "sleep"} => asked[f] < setup.attempts
  /\ pc[f] = "idle" => asked[f] = 0
  /\ pc[f] = "waiting" => asked[f] >= 1
  /\ pc[f] # "done" => outcome[f] = "none" /\ heard[f] = "sent"
  /\ outcome[f] = "returned" => heard[f] = message /\ message # "sent"
  /\ outcome[f] = "DeliveryTimeoutError" => asked[f] = setup.attempts /\ heard[f] = "sent"
  /\ outcome[f] = "broken" => Http(Raw(f)) \in ended

\* An httpx client bears the name of the object that created it, and is closed
\* only by the close of that object.
IInv ==
  /\ TypeOK
  /\ closed \subseteq ended
  /\ \A f \in Facades : WaitInv(f)

-----------------------------------------------------------------------------
LEMMA SetupFacts ==
  ASSUME setup \in Setups
  PROVE  setup.attempts \in 0 .. MaxAttempts /\ setup.attempts \in Int
BY MaxAttemptsAssumption DEF Setups

LEMMA InitInv == Init => IInv
<1> SUFFICES ASSUME Init
             PROVE  IInv
  OBVIOUS
<1>1. setup.attempts \in 0 .. MaxAttempts
  BY SetupFacts DEF Init
<1>2. TypeOK
  BY MaxAttemptsAssumption DEF Init, TypeOK, Statuses
<1>3. ASSUME NEW f \in Facades
      PROVE  WaitInv(f)
  BY <1>1 DEF Init, WaitInv
<1> QED BY <1>2, <1>3 DEF IInv, Init

\* A close touches no wait, and what it closes is now ended.
LEMMA CloseInv ==
  ASSUME IInv, UNCHANGED <<setup, message, wait>>,
         NEW c \in HttpClients, ended' = ended \union {c},
         closed' = closed \/ closed' = closed \union {c}
  PROVE  IInv'
<1>1. TypeOK'
  BY DEF IInv, TypeOK, wait
<1>2. (closed \subseteq ended)'
  BY DEF IInv
<1>3. ASSUME NEW f \in Facades
      PROVE  WaitInv(f)'
  BY DEF IInv, WaitInv, Http, Raw, wait
<1> QED BY <1>1, <1>2, <1>3 DEF IInv

\* A step of one wait leaves the others as they are.
LEMMA OneWait ==
  ASSUME IInv, NEW f \in Facades, TypeOK', WaitInv(f)',
         UNCHANGED <<setup, ended, closed, message>>,
         \A g \in Facades \ {f} : /\ pc'[g] = pc[g] /\ asked'[g] = asked[g]
                                  /\ heard'[g] = heard[g] /\ outcome'[g] = outcome[g]
  PROVE  IInv'
<1>1. ASSUME NEW g \in Facades \ {f}
      PROVE  WaitInv(g)'
  BY <1>1 DEF IInv, WaitInv, Http, Raw
<1> QED BY <1>1 DEF IInv

Places == {"idle", "ask", "waiting", "sleep", "done"}

Outcomes == {"none", "ValueError", "returned", "DeliveryTimeoutError", "raised", "broken",
             "CancelledError"}

\* A wait that ends in a way that promises nothing of the message.
LEMMA EndInv ==
  ASSUME IInv, NEW f \in Facades, NEW o \in {"ValueError", "raised", "broken", "CancelledError"},
         o = "broken" => Http(Raw(f)) \in ended,
         End(f, o), UNCHANGED <<setup, ended, closed, message, asked, heard>>
  PROVE  IInv'
<1>1. /\ pc \in [Facades -> Places] /\ pc' = [pc EXCEPT ![f] = "done"]
      /\ outcome \in [Facades -> Outcomes] /\ outcome' = [outcome EXCEPT ![f] = o]
  BY DEF IInv, TypeOK, End, Places, Outcomes
<1>2. TypeOK'
  BY <1>1 DEF IInv, TypeOK, Places, Outcomes
<1>3. WaitInv(f)'
  BY <1>1 DEF IInv, WaitInv, Http, Raw
<1> QED BY <1>1, <1>2, <1>3, OneWait

\* A wait that goes on.
LEMMA GoInv ==
  ASSUME IInv, NEW f \in Facades, NEW place \in Places, Goto(f, place),
         pc[f] # "done", place \notin {"done", "idle", "waiting"},
         place \in {"ask", "sleep"} => asked[f] < setup.attempts,
         UNCHANGED <<setup, ended, closed, message, asked, heard>>
  PROVE  IInv'
<1>1. /\ pc \in [Facades -> Places] /\ pc' = [pc EXCEPT ![f] = place]
      /\ outcome' = outcome
  BY DEF IInv, TypeOK, Goto, Places
<1>2. TypeOK'
  BY <1>1 DEF IInv, TypeOK, Places
<1>3. WaitInv(f)'
  BY <1>1 DEF IInv, WaitInv, Http, Raw
<1> QED BY <1>1, <1>2, <1>3, OneWait

LEMMA AskInv ==
  ASSUME IInv, NEW f \in Facades, Ask(f)
  PROVE  IInv'
<1>1. /\ pc \in [Facades -> Places] /\ pc' = [pc EXCEPT ![f] = "waiting"]
      /\ asked \in [Facades -> 0 .. MaxAttempts] /\ asked' = [asked EXCEPT ![f] = @ + 1]
      /\ outcome' = outcome /\ heard' = heard /\ UNCHANGED <<setup, ended, closed, message>>
  BY DEF IInv, TypeOK, Ask, Goto, Places
<1>2. /\ setup.attempts \in 0 .. MaxAttempts /\ asked[f] < setup.attempts
      /\ asked[f] \in 0 .. MaxAttempts
  BY <1>1, SetupFacts DEF IInv, TypeOK, WaitInv, Ask
<1>3. asked[f] + 1 \in 0 .. MaxAttempts /\ asked[f] + 1 <= setup.attempts
  BY <1>2, MaxAttemptsAssumption
<1>4. TypeOK'
  <2>1. asked' \in [Facades -> 0 .. MaxAttempts]
    BY <1>1, <1>3
  <2>2. pc' \in [Facades -> Places]
    BY <1>1 DEF Places
  <2> QED BY <1>1, <2>1, <2>2 DEF IInv, TypeOK, Places
<1>5. WaitInv(f)'
  <2>1. asked'[f] <= setup.attempts /\ pc'[f] = "waiting" /\ pc[f] = "ask"
    BY <1>1, <1>3 DEF Ask
  <2>2. asked'[f] >= 1
    BY <1>1, <1>2
  <2> QED BY <1>1, <2>1, <2>2 DEF IInv, WaitInv
<1> QED BY <1>1, <1>4, <1>5, OneWait

LEMMA HearInv ==
  ASSUME IInv, NEW f \in Facades, Hear(f)
  PROVE  IInv'
<1>1. /\ pc \in [Facades -> Places] /\ pc[f] = "waiting"
      /\ heard \in [Facades -> Statuses] /\ heard' = [heard EXCEPT ![f] = message]
      /\ message \in Statuses /\ outcome \in [Facades -> Outcomes]
      /\ UNCHANGED <<setup, ended, closed, message, asked>>
  BY DEF IInv, TypeOK, Hear, Places, Outcomes
<1>2. /\ setup.attempts \in Int /\ asked[f] \in Int /\ asked[f] <= setup.attempts
  BY SetupFacts, MaxAttemptsAssumption DEF IInv, TypeOK, WaitInv
<1>3. CASE message \in Terminal
  <2>1. /\ pc' = [pc EXCEPT ![f] = "done"] /\ outcome' = [outcome EXCEPT ![f] = "returned"]
    BY <1>3 DEF Hear, End
  <2>2. TypeOK'
    BY <1>1, <2>1 DEF IInv, TypeOK, Places, Outcomes
  <2>3. WaitInv(f)'
    BY <1>1, <1>2, <1>3, <2>1 DEF WaitInv, Terminal
  <2> QED BY <1>1, <2>1, <2>2, <2>3, OneWait
<1>4. CASE message \notin Terminal /\ LastAttempt(f)
  <2>1. /\ pc' = [pc EXCEPT ![f] = "done"]
        /\ outcome' = [outcome EXCEPT ![f] = "DeliveryTimeoutError"]
    BY <1>4 DEF Hear, End
  <2>2. TypeOK'
    BY <1>1, <2>1 DEF IInv, TypeOK, Places, Outcomes
  <2>3. asked[f] = setup.attempts /\ message = "sent"
    BY <1>1, <1>2, <1>4 DEF LastAttempt, Terminal, Statuses
  <2>4. WaitInv(f)'
    BY <1>1, <1>2, <2>1, <2>3 DEF WaitInv
  <2> QED BY <1>1, <2>1, <2>2, <2>4, OneWait
<1>5. CASE message \notin Terminal /\ ~LastAttempt(f)
  <2>1. pc' = [pc EXCEPT ![f] = "sleep"] /\ outcome' = outcome
    BY <1>5 DEF Hear, Goto
  <2>2. asked[f] < setup.attempts /\ message = "sent"
    BY <1>1, <1>2, <1>5 DEF LastAttempt, Terminal, Statuses
  <2>3. TypeOK'
    BY <1>1, <2>1 DEF IInv, TypeOK, Places
  <2>4. WaitInv(f)'
    BY <1>1, <1>2, <2>1, <2>2 DEF IInv, WaitInv
  <2> QED BY <1>1, <2>1, <2>3, <2>4, OneWait
<1> QED BY <1>3, <1>4, <1>5

\* Broken is the one ending that says something of the clients.
LEMMA WaitStepInv ==
  ASSUME IInv, NEW f \in Facades, Wait(f) \/ Cancel(f)
  PROVE  IInv'
<1>1. CASE Begin(f)
  <2>1. setup.attempts \in Int /\ asked[f] = 0
    BY <1>1, SetupFacts DEF IInv, TypeOK, WaitInv, Begin
  <2>2. CASE setup.attempts < 1
    <3>1. End(f, "ValueError")
      BY <1>1, <2>2 DEF Begin
    <3> QED BY <1>1, <3>1, EndInv DEF Begin
  <2>3. CASE ~(setup.attempts < 1)
    <3>1. Goto(f, "ask") /\ asked[f] < setup.attempts /\ "ask" \in Places
      BY <1>1, <2>1, <2>3 DEF Begin, Places
    <3> QED BY <1>1, <3>1, GoInv DEF Begin
  <2> QED BY <2>2, <2>3
<1>2. CASE Raised(f)
  BY <1>2, EndInv DEF Raised
<1>3. CASE Broken(f)
  <2>1. Http(Raw(f)) \in ended
    BY <1>3 DEF IInv, Broken, Open
  <2> QED BY <1>3, <2>1, EndInv DEF Broken
<1>4. CASE Cancel(f)
  BY <1>4, EndInv DEF Cancel
<1>5. CASE Sleep(f)
  <2>1. asked[f] < setup.attempts /\ "ask" \in Places
    BY <1>5 DEF IInv, WaitInv, Sleep, Places
  <2> QED BY <1>5, <2>1, GoInv DEF Sleep
<1> QED BY <1>1, <1>2, <1>3, <1>4, <1>5, AskInv, HearInv DEF Wait

LEMMA DeliverInv == IInv /\ Deliver => IInv'
<1> SUFFICES ASSUME IInv, Deliver
             PROVE  IInv'
  OBVIOUS
<1>1. TypeOK'
  BY DEF IInv, TypeOK, Deliver, Statuses, wait
<1>2. ASSUME NEW f \in Facades
      PROVE  WaitInv(f)'
  BY DEF IInv, WaitInv, Http, Raw, Deliver, wait
<1> QED BY <1>1, <1>2 DEF IInv, Deliver

LEMMA AnyCloseInv ==
  ASSUME IInv, (\E f \in Facades : CloseFacade(f)) \/ CloseTyped \/ CloseShared
  PROVE  IInv'
<1>1. CASE \E f \in Facades : CloseFacade(f)
  <2> PICK f \in Facades : CloseFacade(f)
    BY <1>1
  <2>1. f \in HttpClients
    BY DEF HttpClients, Clients
  <2> QED BY <2>1, CloseInv DEF CloseFacade, CloseClient
<1>2. CASE CloseTyped
  <2>1. "typed" \in HttpClients
    BY DEF HttpClients, Clients
  <2> QED BY <1>2, <2>1, CloseInv DEF CloseTyped, CloseClient
<1>3. CASE CloseShared
  <2>1. "shared" \in HttpClients
    BY DEF HttpClients
  <2> QED BY <1>3, <2>1, CloseInv DEF CloseShared
<1> QED BY <1>1, <1>2, <1>3

\* The invariant holds in every reachable state.
THEOREM Invariance == Spec => []IInv
<1>1. IInv /\ [Next]_vars => IInv'
  <2> SUFFICES ASSUME IInv, [Next]_vars
               PROVE  IInv'
    OBVIOUS
  <2>1. CASE UNCHANGED vars
    BY <2>1 DEF IInv, TypeOK, WaitInv, Http, Raw, vars
  <2> QED BY <2>1, AnyCloseInv, WaitStepInv, DeliverInv DEF Next, Over
<1> QED BY InitInv, <1>1, PTL DEF Spec

\* Variables keep their ranges: no wait asks more often than it was told to.
THEOREM TypeCorrect == Spec => []TypeOK
<1>1. IInv => TypeOK
  BY DEF IInv
<1> QED BY Invariance, <1>1, PTL

\* A close() disturbs only the waits through what its caller created.
THEOREM Undisturbed == Spec => []WaitUndisturbed
<1>1. IInv => WaitUndisturbed
  BY DEF IInv, WaitInv, WaitUndisturbed
<1> QED BY Invariance, <1>1, PTL

\* What a wait returns is final, and a timeout used every attempt.
THEOREM Truthful == Spec => []WaitTruthful
<1>1. IInv => WaitTruthful
  BY DEF IInv, WaitInv, WaitTruthful
<1> QED BY Invariance, <1>1, PTL

-----------------------------------------------------------------------------
(* How long a wait can be *)

\* How many steps the wait of f has left at most: three per attempt, and the first.
StepsLeft(f) ==
  LET attempts == 3 * (setup.attempts - asked[f])
  IN  CASE pc[f] = "idle"    -> attempts + 2
        [] pc[f] = "ask"     -> attempts + 1
        [] pc[f] = "waiting" -> attempts + 3
        [] pc[f] = "sleep"   -> attempts + 2
        [] OTHER             -> 0

Rests(f) ==
  /\ pc'[f] = pc[f] /\ asked'[f] = asked[f]
  /\ heard'[f] = heard[f] /\ outcome'[f] = outcome[f]

\* Whatever is closed and whatever the other waits do, a wait comes closer to its
\* end with every step it makes.
WaitsComeToTheirEnd == [][\A f \in Facades : StepsLeft(f)' < StepsLeft(f) \/ Rests(f)]_vars

LEMMA WaitRange ==
  ASSUME IInv, NEW f \in Facades
  PROVE  /\ pc[f] \in Places
         /\ setup.attempts \in Nat /\ asked[f] \in Nat
         /\ asked[f] <= setup.attempts
         /\ pc[f] = "idle" => asked[f] = 0
         /\ pc[f] \in {"ask", "sleep"} => asked[f] < setup.attempts
         /\ StepsLeft(f) \in 0 .. 3 * setup.attempts + 2
<1>1. pc[f] \in Places /\ asked[f] \in 0 .. MaxAttempts /\ WaitInv(f)
  BY DEF IInv, TypeOK, Places
<1>2. setup.attempts \in Nat /\ asked[f] \in Nat
  BY <1>1, SetupFacts, MaxAttemptsAssumption DEF IInv, TypeOK
<1>3. /\ asked[f] <= setup.attempts
      /\ pc[f] = "idle" => asked[f] = 0
      /\ pc[f] \in {"ask", "sleep"} => asked[f] < setup.attempts
  BY <1>1 DEF WaitInv
<1>4. pc[f] = "waiting" => asked[f] >= 1
  BY <1>1 DEF WaitInv
<1>5. StepsLeft(f) \in 0 .. 3 * setup.attempts + 2
  BY <1>1, <1>2, <1>3, <1>4 DEF StepsLeft, Places
<1> QED BY <1>1, <1>2, <1>3, <1>5

LEMMA WaitShrinks ==
  ASSUME IInv, NEW f \in Facades, Wait(f) \/ Cancel(f)
  PROVE  StepsLeft(f)' < StepsLeft(f)
<1>0. /\ pc \in [Facades -> Places] /\ asked \in [Facades -> 0 .. MaxAttempts]
      /\ setup' = setup
  BY DEF IInv, TypeOK, Places, Wait, Begin, Ask, Hear, Raised, Broken, Sleep, Cancel
<1>1. CASE pc'[f] = "done"
  <2>1. pc[f] # "done" /\ StepsLeft(f)' = 0
    BY <1>1 DEF Wait, Begin, Ask, Hear, Raised, Broken, Sleep, Cancel, StepsLeft
  <2> QED BY <2>1, WaitRange DEF StepsLeft, Places
<1>2. CASE Ask(f)
  BY <1>0, <1>2, WaitRange DEF Ask, Goto, StepsLeft
<1>3. CASE ~Ask(f) /\ pc'[f] # "done"
  <2>1. asked' = asked
    BY <1>3 DEF Wait, Begin, Hear, Raised, Broken, Sleep, Cancel
  <2>2. \/ pc[f] = "idle" /\ pc'[f] = "ask"
        \/ pc[f] = "waiting" /\ pc'[f] = "sleep"
        \/ pc[f] = "sleep" /\ pc'[f] = "ask"
    BY <1>0, <1>3 DEF Wait, Begin, Hear, Raised, Broken, Sleep, Cancel, Goto, End
  <2> QED BY <1>0, <2>1, <2>2, WaitRange DEF StepsLeft
<1> QED BY <1>1, <1>2, <1>3

LEMMA OthersRest ==
  ASSUME IInv, NEW f \in Facades, Wait(f) \/ Cancel(f), NEW g \in Facades \ {f}
  PROVE  Rests(g)
<1>1. /\ DOMAIN pc = Facades /\ DOMAIN asked = Facades
      /\ DOMAIN heard = Facades /\ DOMAIN outcome = Facades
  BY DEF IInv, TypeOK
<1> QED
  BY <1>1 DEF Wait, Begin, Ask, Hear, Raised, Broken, Sleep, Cancel, Goto, End, Rests

\* A wait that is told to ask n times makes at most 3 n + 2 steps, whatever is
\* closed meanwhile: what WaitEnds needs besides each of them being made.
THEOREM BoundedWait ==
  Spec => /\ [](\A f \in Facades : StepsLeft(f) \in 0 .. 3 * setup.attempts + 2)
          /\ WaitsComeToTheirEnd
<1>1. IInv => \A f \in Facades : StepsLeft(f) \in 0 .. 3 * setup.attempts + 2
  BY WaitRange
<1>2. IInv /\ [Next]_vars =>
        [\A f \in Facades : StepsLeft(f)' < StepsLeft(f) \/ Rests(f)]_vars
  <2> SUFFICES ASSUME IInv, Next, NEW f \in Facades, ~Rests(f)
               PROVE  StepsLeft(f)' < StepsLeft(f)
    OBVIOUS
  <2>1. ~(wait' = wait)
    BY DEF wait, Rests
  <2>2. PICK g \in Facades : Wait(g) \/ Cancel(g)
    BY <2>1 DEF Next, CloseFacade, CloseTyped, CloseShared, Deliver, Over, vars, wait
  <2>3. g = f
    BY <2>2, OthersRest
  <2> QED BY <2>2, <2>3, WaitShrinks
<1> QED BY Invariance, <1>1, <1>2, PTL DEF Spec, WaitsComeToTheirEnd
=============================================================================
