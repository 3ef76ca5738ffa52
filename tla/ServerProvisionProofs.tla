----------------------- MODULE ServerProvisionProofs ------------------------
(***************************************************************************)
(* The properties of ServerProvision, for any number of executions of the  *)
(* plan and any servers.  The inductive invariant says what each place in  *)
(* an execution knows about its server; the heart of it is CellOfCompany:  *)
(* the cell a setting reads was written by the execution that reads it, or *)
(* by one that ran at the same time.                                       *)
(***************************************************************************)
EXTENDS ServerProvision, FiniteSetTheorems, TLAPS

\* Executions that run at the same time have met.
RunnersMet ==
  \A e, f \in Executions : Running(e) /\ Running(f) => f \in Company(e)

\* What an execution has created, by the place it is at.
CreatedByPlace ==
  \A e \in Executions :
    /\ pc[e] \in {"idle", "create"} => \A s \in Servers : <<e, s>> \notin created
    /\ pc[e] \in {"created"} \union Settings => \E s \in Servers : <<e, s>> \in created

\* The cell names the server of an execution that is past its create.
CellOrigin ==
  cell # {} => \E e \in Executions, s \in Servers : <<e, s>> \in created /\ cell = {s}

CellFull == \A e \in Executions : pc[e] \in Settings => cell # {}

\* The server was created by an execution that e knows.
Known(e, s) == \E f \in Company(e) : <<f, s>> \in created

CellOfCompany ==
  \A e \in Executions : pc[e] \in Settings => \A s \in cell : Known(e, s)

\* A wanted setting was performed, on a server of the company.
Done(e, o) == \E s \in Servers : Known(e, s) /\ <<e, o, s>> \in settings

\* The address was requested before the schedule.
AddressBeforeSchedule ==
  \A e \in Executions : pc[e] = "schedule" /\ "add_ip" \in wanted => Done(e, "add_ip")

\* Success is reported at the end, with every wanted setting performed.
SuccessComplete ==
  \A e \in Executions : verdict[e] = "succeeded" =>
    /\ pc[e] = "done"
    /\ \E s \in Servers : <<e, s>> \in created
    /\ \A o \in wanted : Done(e, o)

OneServer ==
  \A e \in Executions, s, t \in Servers :
    <<e, s>> \in created /\ <<e, t>> \in created => s = t

IInv ==
  /\ TypeOK
  /\ RunnersMet
  /\ CreatedByPlace
  /\ CellOrigin
  /\ CellFull
  /\ CellOfCompany
  /\ AddressBeforeSchedule
  /\ SuccessComplete
  /\ OneServer
  /\ OnlyOverlapsMix

-----------------------------------------------------------------------------
\* NextCall leads to a wanted setting or to the end, never back.
LEMMA NextCallFacts ==
  ASSUME TypeOK, NEW place
  PROVE  /\ NextCall(place) \in Places \ (Settings \ wanted)
         /\ NextCall(place) \in Settings \union {"done"}
         /\ NextCall(place) = "schedule" /\ "add_ip" \in wanted => place # "created"
         /\ NextCall(place) = "done" => place = "schedule" \/ "schedule" \notin wanted
         /\ NextCall(place) = "done" /\ place = "created" => wanted = {}
         /\ place # "created" => NextCall(place) # "add_ip"
BY DEF TypeOK, NextCall, Settings, Places

\* What was known and done stays so.
LEMMA KnowledgeGrows ==
  ASSUME met \subseteq met', created \subseteq created'
  PROVE  /\ \A e \in Executions, s \in Servers : Known(e, s) => Known(e, s)'
         /\ \A e \in Executions : Company(e) \subseteq Company(e)'
         /\ settings \subseteq settings' =>
              \A e \in Executions, o \in Settings : Done(e, o) => Done(e, o)'
<1>1. \A e \in Executions : Company(e) \subseteq Company(e)'
  BY DEF Company
<1>2. \A e \in Executions, s \in Servers : Known(e, s) => Known(e, s)'
  BY <1>1 DEF Known
<1> QED BY <1>1, <1>2 DEF Done

LEMMA InitInv == Init => IInv
BY DEF Init, IInv, TypeOK, RunnersMet, CreatedByPlace, CellOrigin, CellFull, CellOfCompany,
       AddressBeforeSchedule, SuccessComplete, OneServer, OnlyOverlapsMix, Running, Places,
       Settings

\* The parts of the invariant that speak of what executions know: kept by a step
\* that moves no execution to a setting and has none succeed.
LEMMA KnowledgeKept ==
  ASSUME IInv, NEW e \in Executions, UNCHANGED <<wanted, cell>>, met \subseteq met', created \subseteq created',
         settings \subseteq settings',
         \A f \in Executions : pc'[f] \in Settings => pc'[f] = pc[f],
         \A f \in Executions : pc[f] = "done" => pc'[f] = "done",
         \A f \in Executions : verdict'[f] = "succeeded" => verdict[f] = "succeeded",
         \A x \in settings' \union late' :
           x \in settings \union late \/ (x[1] = e /\ x[3] \in cell /\ pc[e] \in Settings)
  PROVE  /\ CellFull' /\ CellOfCompany' /\ AddressBeforeSchedule' /\ SuccessComplete'
         /\ OnlyOverlapsMix'
<1>0. TypeOK /\ cell \subseteq Servers /\ wanted \subseteq Settings
  BY DEF IInv, TypeOK
<1>1. CellFull'
  BY DEF IInv, CellFull
<1>2. CellOfCompany'
  <2> SUFFICES ASSUME NEW f \in Executions, pc'[f] \in Settings, NEW s \in cell
               PROVE  Known(f, s)'
    BY DEF CellOfCompany
  <2> QED BY <1>0, KnowledgeGrows DEF IInv, CellOfCompany
<1>3. AddressBeforeSchedule'
  <2> SUFFICES ASSUME NEW f \in Executions, pc'[f] = "schedule", "add_ip" \in wanted
               PROVE  Done(f, "add_ip")'
    BY DEF AddressBeforeSchedule
  <2>1. "schedule" \in Settings /\ "add_ip" \in Settings
    BY DEF Settings
  <2> QED BY <2>1, KnowledgeGrows DEF IInv, AddressBeforeSchedule
<1>4. SuccessComplete'
  <2> SUFFICES ASSUME NEW f \in Executions, verdict'[f] = "succeeded"
               PROVE  /\ pc'[f] = "done"
                      /\ \E s \in Servers : <<f, s>> \in created'
                      /\ \A o \in wanted : Done(f, o)'
    BY DEF SuccessComplete
  <2>1. pc[f] = "done" /\ (\E s \in Servers : <<f, s>> \in created) /\ \A o \in wanted : Done(f, o)
    BY DEF IInv, SuccessComplete
  <2> QED BY <1>0, <2>1, KnowledgeGrows
<1>5. OnlyOverlapsMix'
  <2> SUFFICES ASSUME NEW x \in settings' \union late'
               PROVE  \E f \in Company(x[1])' : <<f, x[3]>> \in created'
    BY DEF OnlyOverlapsMix
  <2>1. CASE x \in settings \union late
    <3>1. x[1] \in Executions
      BY <1>0, <2>1 DEF TypeOK
    <3> QED BY <2>1, <3>1, KnowledgeGrows DEF IInv, OnlyOverlapsMix
  <2>2. CASE x[1] = e /\ x[3] \in cell /\ pc[e] \in Settings
    <3>1. Known(e, x[3])
      BY <2>2 DEF IInv, CellOfCompany
    <3>2. Known(e, x[3])'
      BY <1>0, <2>2, <3>1, KnowledgeGrows
    <3> QED BY <2>2, <3>2 DEF Known
  <2> QED BY <2>1, <2>2
<1> QED BY <1>1, <1>2, <1>3, <1>4, <1>5

LEMMA StartInv ==
  ASSUME IInv, NEW e \in Executions, Start(e)
  PROVE  IInv'
<1>1. TypeOK'
  BY DEF IInv, TypeOK, Start, Places, Settings
<1>2. RunnersMet'
  <2> SUFFICES ASSUME NEW f \in Executions, NEW g \in Executions, Running(f)', Running(g)', f # g
               PROVE  <<f, g>> \in met'
    BY DEF RunnersMet, Company
  <2>1. /\ f # e => Running(f)
        /\ g # e => Running(g)
    BY DEF IInv, TypeOK, Start, Running
  <2>2. CASE f = e \/ g = e
    BY <2>1, <2>2 DEF Start
  <2>3. CASE f # e /\ g # e
    BY <2>1, <2>3 DEF IInv, RunnersMet, Company, Start
  <2> QED BY <2>2, <2>3
<1>3. CreatedByPlace' /\ CellOrigin' /\ OneServer'
  BY DEF IInv, TypeOK, CreatedByPlace, CellOrigin, OneServer, Start, Settings
<1>4. /\ \A f \in Executions : pc'[f] \in Settings => pc'[f] = pc[f]
      /\ \A f \in Executions : pc[f] = "done" => pc'[f] = "done"
  BY DEF IInv, TypeOK, Start, Settings
<1>5. CellFull' /\ CellOfCompany' /\ AddressBeforeSchedule' /\ SuccessComplete' /\ OnlyOverlapsMix'
  BY <1>4, KnowledgeKept DEF Start
<1> QED BY <1>1, <1>2, <1>3, <1>5 DEF IInv

LEMMA CreateInv ==
  ASSUME IInv, NEW e \in Executions, NEW s \in Servers, Create(e, s)
  PROVE  IInv'
<1>1. TypeOK'
  BY DEF IInv, TypeOK, Create, Places, Settings
<1>2. RunnersMet'
  BY DEF IInv, TypeOK, RunnersMet, Company, Create, Running
<1>3. CreatedByPlace'
  BY DEF IInv, TypeOK, CreatedByPlace, Create
<1>4. CellOrigin'
  BY DEF IInv, TypeOK, CellOrigin, Create
<1>5. /\ \A f \in Executions : pc'[f] \in Settings => pc'[f] = pc[f]
      /\ \A f \in Executions : pc[f] = "done" => pc'[f] = "done"
  BY DEF IInv, TypeOK, Create, Settings
<1>6. CellFull' /\ CellOfCompany' /\ AddressBeforeSchedule' /\ SuccessComplete' /\ OnlyOverlapsMix'
  BY <1>5, KnowledgeKept DEF Create
<1>7. OneServer'
  BY DEF IInv, TypeOK, OneServer, CreatedByPlace, Create
<1> QED BY <1>1, <1>2, <1>3, <1>4, <1>6, <1>7 DEF IInv

\* An execution that stops forgets nothing and starts nothing: shared by the
\* three actions that stop one.
LEMMA StopInv ==
  ASSUME IInv, NEW e \in Executions, Running(e), Stop(e), UNCHANGED <<wanted, met, cell>>,
         created \subseteq created', created' \subseteq Executions \X Servers,
         \A x \in created' : x \in created \/ (x[1] = e /\ pc[e] = "create"),
         \A x, y \in created' \ created : x = y,
         settings \subseteq settings', settings' \subseteq Executions \X Settings \X Servers,
         late' \subseteq Executions \X Settings \X Servers,
         \A x \in settings' \union late' :
           x \in settings \union late \/ (x[1] = e /\ pc[e] \in Settings /\ x[3] \in cell)
  PROVE  IInv'
<1>1. TypeOK'
  BY DEF IInv, TypeOK, Stop, Places, Settings
<1>2. RunnersMet'
  BY DEF IInv, TypeOK, RunnersMet, Company, Stop, Running
<1>3. CreatedByPlace'
  BY DEF IInv, TypeOK, CreatedByPlace, Stop, Settings
<1>4. CellOrigin'
  BY DEF IInv, TypeOK, CellOrigin, Stop
<1>5. /\ \A f \in Executions : pc'[f] \in Settings => pc'[f] = pc[f]
      /\ \A f \in Executions : pc[f] = "done" => pc'[f] = "done"
      /\ \A f \in Executions : verdict'[f] = "succeeded" => verdict[f] = "succeeded"
  BY DEF IInv, TypeOK, Stop, Settings
<1>6. CellFull' /\ CellOfCompany' /\ AddressBeforeSchedule' /\ SuccessComplete' /\ OnlyOverlapsMix'
  BY <1>5, KnowledgeKept
<1>7. OneServer'
  BY DEF IInv, TypeOK, OneServer, CreatedByPlace, Stop
<1> QED BY <1>1, <1>2, <1>3, <1>4, <1>6, <1>7 DEF IInv

LEMMA CreateStopsInv ==
  ASSUME IInv, NEW e \in Executions, CreateStops(e) \/ CreateReplyLost(e)
  PROVE  IInv'
<1>1. Running(e) /\ Stop(e) /\ UNCHANGED <<wanted, met, cell, settings, late>>
  BY DEF CreateStops, CreateReplyLost, Running
<1>2. /\ settings \subseteq Executions \X Settings \X Servers
      /\ late \subseteq Executions \X Settings \X Servers
      /\ created \subseteq Executions \X Servers
  BY DEF IInv, TypeOK
<1>3. /\ created \subseteq created' /\ created' \subseteq Executions \X Servers
      /\ \A x \in created' : x \in created \/ (x[1] = e /\ pc[e] = "create")
      /\ \A x, y \in created' \ created : x = y
  BY <1>2 DEF CreateStops, CreateReplyLost
<1> QED BY <1>1, <1>2, <1>3, StopInv

LEMMA CreateReturnsInv ==
  ASSUME IInv, NEW e \in Executions, CreateReturns(e)
  PROVE  IInv'
<1> DEFINE next == NextCall(pc[e])
<1>0. PICK s \in Servers : <<e, s>> \in created /\ cell' = {s}
  <2>1. PICK r \in Servers : <<e, r>> \in created
    BY DEF IInv, CreatedByPlace, CreateReturns
  <2>2. ServersOf(e) = {r}
    BY <2>1 DEF IInv, OneServer, ServersOf
  <2> QED BY <2>1, <2>2 DEF CreateReturns, Store
<1>1. /\ pc[e] = "created" /\ pc' = [pc EXCEPT ![e] = next]
      /\ next \in Places \ (Settings \ wanted) /\ next \in Settings \union {"done"}
      /\ next = "done" => wanted = {}
      /\ next = "schedule" => "add_ip" \notin wanted
      /\ UNCHANGED <<wanted, met, created, settings, late>>
      /\ verdict' = IF next = "done" THEN [verdict EXCEPT ![e] = "succeeded"] ELSE verdict
  BY NextCallFacts DEF IInv, CreateReturns, Advance
<1> HIDE DEF next
<1>2. TypeOK'
  BY <1>0, <1>1 DEF IInv, TypeOK
<1>3. RunnersMet'
  BY <1>1 DEF IInv, TypeOK, RunnersMet, Company, Running, Settings
<1>4. CreatedByPlace' /\ OneServer'
  BY <1>1 DEF IInv, TypeOK, CreatedByPlace, OneServer, Settings
<1>5. CellOrigin' /\ CellFull'
  BY <1>0, <1>1 DEF IInv, TypeOK, CellOrigin, CellFull
<1>6. CellOfCompany'
  <2> SUFFICES ASSUME NEW f \in Executions, pc'[f] \in Settings
               PROVE  Known(f, s)'
    BY <1>0 DEF CellOfCompany
  <2>1. Running(e) /\ (f # e => Running(f))
    BY <1>1 DEF IInv, TypeOK, Running, Settings
  <2>2. e \in Company(f)
    BY <2>1 DEF IInv, RunnersMet, Company
  <2> QED BY <1>0, <1>1, <2>2 DEF Known, Company
<1>7. \A f \in Executions, o \in Settings : Done(f, o) => Done(f, o)'
  BY <1>1, KnowledgeGrows
<1>8. AddressBeforeSchedule'
  <2> SUFFICES ASSUME NEW f \in Executions, pc'[f] = "schedule", "add_ip" \in wanted
               PROVE  Done(f, "add_ip")'
    BY <1>1 DEF AddressBeforeSchedule
  <2>1. pc[f] = "schedule"
    BY <1>1 DEF IInv, TypeOK
  <2>2. Done(f, "add_ip") /\ "add_ip" \in Settings
    BY <2>1 DEF IInv, AddressBeforeSchedule, Settings
  <2> QED BY <1>7, <2>2
<1>9. SuccessComplete'
  <2> SUFFICES ASSUME NEW f \in Executions, verdict'[f] = "succeeded"
               PROVE  /\ pc'[f] = "done"
                      /\ \E r \in Servers : <<f, r>> \in created
                      /\ \A o \in wanted : Done(f, o)'
    BY <1>1 DEF SuccessComplete
  <2>1. CASE verdict[f] = "succeeded"
    <3>1. pc[f] = "done" /\ (\E r \in Servers : <<f, r>> \in created) /\ \A o \in wanted : Done(f, o)
      BY <2>1 DEF IInv, SuccessComplete
    <3>2. pc'[f] = "done" /\ wanted \subseteq Settings
      BY <1>1, <3>1 DEF IInv, TypeOK
    <3> QED BY <1>7, <3>1, <3>2
  <2>2. CASE verdict[f] # "succeeded"
    <3>1. f = e /\ next = "done" /\ wanted = {}
      BY <1>1, <2>2 DEF IInv, TypeOK
    <3> QED BY <1>0, <1>1, <3>1 DEF IInv, TypeOK
  <2> QED BY <2>1, <2>2
<1>10. OnlyOverlapsMix'
  BY <1>1 DEF IInv, OnlyOverlapsMix, Company
<1> QED BY <1>2, <1>3, <1>4, <1>5, <1>6, <1>8, <1>9, <1>10 DEF IInv

LEMMA SettingReturnsInv ==
  ASSUME IInv, NEW e \in Executions, SettingReturns(e)
  PROVE  IInv'
<1> DEFINE next == NextCall(pc[e])
<1>a. PICK o \in Settings : o = pc[e]
  BY DEF SettingReturns
<1>0. PICK s \in cell : settings' = settings \union {<<e, o, s>>}
  BY <1>a DEF SettingReturns
<1>1. /\ o \in Settings /\ o \in wanted /\ pc' = [pc EXCEPT ![e] = next]
      /\ next \in Places \ (Settings \ wanted) /\ next \in {"schedule", "done"}
      /\ next = "schedule" => o = "add_ip"
      /\ next = "done" => o = "schedule" \/ wanted = {o}
      /\ UNCHANGED <<wanted, met, cell, created, late>>
      /\ verdict' = IF next = "done" THEN [verdict EXCEPT ![e] = "succeeded"] ELSE verdict
  <2>1. o \in Settings /\ o # "created" /\ Advance(e) /\ UNCHANGED <<wanted, met, cell, created, late>>
    BY <1>a DEF SettingReturns, Settings
  <2>2. o \in wanted /\ wanted \subseteq Settings
    BY <1>a, <2>1 DEF IInv, TypeOK
  <2>3. next = "schedule" => o = "add_ip"
    BY <1>a, <2>1 DEF NextCall, Settings
  <2>4. /\ next \in Places \ (Settings \ wanted)
        /\ next \in {"schedule", "done"}
        /\ next = "done" => o = "schedule" \/ "schedule" \notin wanted
    BY <1>a, <2>1, NextCallFacts DEF IInv, Settings
  <2>5. next = "done" => o = "schedule" \/ wanted = {o}
    BY <2>1, <2>2, <2>4 DEF Settings
  <2> QED BY <2>1, <2>2, <2>3, <2>4, <2>5 DEF Advance
<1>2. s \in Servers /\ cell = {s} /\ Known(e, s)
  BY <1>a, <1>1 DEF IInv, TypeOK, CellOrigin, CellOfCompany
<1> HIDE DEF next
<1>3. /\ \A f \in Executions, p \in Settings : Done(f, p) => Done(f, p)'
      /\ \A f \in Executions, t \in Servers : Known(f, t) => Known(f, t)'
  BY <1>0, <1>1, KnowledgeGrows
<1>4. Done(e, o)'
  BY <1>0, <1>2, <1>3 DEF Done
<1>5. TypeOK'
  BY <1>0, <1>1, <1>2 DEF IInv, TypeOK
<1>6. RunnersMet'
  BY <1>a, <1>1 DEF IInv, TypeOK, RunnersMet, Company, Running, Settings
<1>7. CreatedByPlace'
  <2>1. \E r \in Servers : <<e, r>> \in created
    BY <1>a DEF IInv, CreatedByPlace
  <2>2. pc'[e] \in {"schedule", "done"} /\ \A f \in Executions \ {e} : pc'[f] = pc[f]
    BY <1>1 DEF IInv, TypeOK
  <2> QED BY <1>1, <2>1, <2>2 DEF IInv, CreatedByPlace
<1>12. OneServer' /\ CellOrigin'
  BY <1>1 DEF IInv, OneServer, CellOrigin
<1>8. CellFull' /\ CellOfCompany'
  <2> SUFFICES ASSUME NEW f \in Executions, pc'[f] \in Settings
               PROVE  cell' # {} /\ \A t \in cell' : Known(f, t)'
    BY DEF CellFull, CellOfCompany
  <2>1. pc[f] \in Settings
    BY <1>a, <1>1 DEF IInv, TypeOK
  <2> QED BY <1>1, <1>2, <1>3, <2>1 DEF IInv, CellOfCompany
<1>9. AddressBeforeSchedule'
  <2> SUFFICES ASSUME NEW f \in Executions, pc'[f] = "schedule", "add_ip" \in wanted
               PROVE  Done(f, "add_ip")'
    BY <1>1 DEF AddressBeforeSchedule
  <2>1. CASE f = e
    <3>1. o = "add_ip"
      BY <1>1, <2>1 DEF IInv, TypeOK
    <3> QED BY <1>4, <2>1, <3>1
  <2>2. CASE f # e
    <3>1. pc[f] = "schedule" /\ "add_ip" \in Settings
      BY <1>1, <2>2 DEF IInv, TypeOK, Settings
    <3> QED BY <1>3, <3>1 DEF IInv, AddressBeforeSchedule
  <2> QED BY <2>1, <2>2
<1>10. SuccessComplete'
  <2> SUFFICES ASSUME NEW f \in Executions, verdict'[f] = "succeeded"
               PROVE  /\ pc'[f] = "done"
                      /\ \E r \in Servers : <<f, r>> \in created
                      /\ \A p \in wanted : Done(f, p)'
    BY <1>1 DEF SuccessComplete
  <2>1. CASE verdict[f] = "succeeded"
    <3>1. pc[f] = "done" /\ (\E r \in Servers : <<f, r>> \in created) /\ \A p \in wanted : Done(f, p)
      BY <2>1 DEF IInv, SuccessComplete
    <3>2. pc'[f] = "done" /\ wanted \subseteq Settings
      BY <1>a, <1>1, <3>1 DEF IInv, TypeOK, Settings
    <3> QED BY <1>3, <3>1, <3>2
  <2>2. CASE verdict[f] # "succeeded"
    <3>1. f = e /\ next = "done"
      BY <1>1, <2>2 DEF IInv, TypeOK
    <3>2. pc'[f] = "done" /\ \E r \in Servers : <<f, r>> \in created
      BY <1>a, <1>1, <3>1 DEF IInv, TypeOK, CreatedByPlace
    <3>3. \A p \in wanted : Done(f, p)'
      <4> SUFFICES ASSUME NEW p \in wanted
                   PROVE  Done(f, p)'
        OBVIOUS
      <4>1. p = o \/ (p = "add_ip" /\ o = "schedule")
        BY <1>1, <3>1 DEF IInv, TypeOK, Settings
      <4>2. ASSUME p = "add_ip", o = "schedule"
            PROVE  Done(e, p)
        BY <1>a, <4>2 DEF IInv, AddressBeforeSchedule
      <4>3. p \in Settings
        BY <4>1, <1>1 DEF Settings
      <4> QED BY <1>3, <1>4, <3>1, <4>1, <4>2, <4>3
    <3> QED BY <3>2, <3>3
  <2> QED BY <2>1, <2>2
<1>11. OnlyOverlapsMix'
  <2> SUFFICES ASSUME NEW x \in settings' \union late'
               PROVE  \E f \in Company(x[1]) : <<f, x[3]>> \in created
    BY <1>1 DEF OnlyOverlapsMix, Company
  <2>1. x \in settings \union late \/ x = <<e, o, s>>
    BY <1>0, <1>1
  <2> QED BY <1>2, <2>1 DEF IInv, OnlyOverlapsMix, Known
<1> QED BY <1>5, <1>6, <1>7, <1>8, <1>9, <1>10, <1>11, <1>12 DEF IInv

LEMMA SettingStopsInv ==
  ASSUME IInv, NEW e \in Executions, SettingStops(e)
  PROVE  IInv'
<1>1. /\ Running(e) /\ Stop(e) /\ UNCHANGED <<wanted, met, cell, created>>
      /\ pc[e] \in Settings
  BY DEF SettingStops, Running, Settings
<1>2. PICK s \in cell :
        \/ UNCHANGED <<settings, late>>
        \/ settings' = settings \union {<<e, pc[e], s>>} /\ UNCHANGED late
        \/ late' = late \union {<<e, pc[e], s>>} /\ UNCHANGED settings
  BY DEF SettingStops
<1>3. s \in Servers
  BY DEF IInv, TypeOK
<1>4. /\ settings \subseteq settings' /\ settings' \subseteq Executions \X Settings \X Servers
      /\ late' \subseteq Executions \X Settings \X Servers
  BY <1>1, <1>2, <1>3 DEF IInv, TypeOK
<1>5. \A x \in settings' \union late' :
        x \in settings \union late \/ (x[1] = e /\ pc[e] \in Settings /\ x[3] \in cell)
  BY <1>1, <1>2
<1>6. created' = created /\ created \subseteq Executions \X Servers
  BY <1>1 DEF IInv, TypeOK
<1> QED BY <1>1, <1>4, <1>5, <1>6, StopInv

LEMMA LandInv ==
  ASSUME IInv, NEW x \in late, Land(x)
  PROVE  IInv'
<1>1. TypeOK' /\ RunnersMet' /\ CreatedByPlace' /\ CellOrigin' /\ OneServer'
  BY DEF IInv, TypeOK, RunnersMet, Company, CreatedByPlace, CellOrigin, OneServer, Running, Land
<1>2. x[1] \in Executions
  BY DEF IInv, TypeOK
<1>3. CellFull' /\ CellOfCompany' /\ AddressBeforeSchedule' /\ SuccessComplete' /\ OnlyOverlapsMix'
  BY <1>2, KnowledgeKept DEF Land
<1> QED BY <1>1, <1>3 DEF IInv

LEMMA StutterInv ==
  ASSUME IInv, UNCHANGED vars
  PROVE  IInv'
<1>1. TypeOK' /\ RunnersMet' /\ CreatedByPlace' /\ CellOrigin' /\ CellFull'
  BY DEF IInv, TypeOK, RunnersMet, Company, CreatedByPlace, CellOrigin, CellFull, Running, vars
<1>2. /\ \A e \in Executions : Company(e)' = Company(e)
      /\ \A e \in Executions, s \in Servers : Known(e, s)' <=> Known(e, s)
  BY DEF Company, Known, vars
<1>3. \A e \in Executions, o \in Settings : Done(e, o)' <=> Done(e, o)
  BY <1>2 DEF Done, vars
<1>4. CellOfCompany' /\ OneServer'
  BY <1>2 DEF IInv, TypeOK, CellOfCompany, OneServer, vars
<1>5. AddressBeforeSchedule' /\ SuccessComplete'
  BY <1>3 DEF IInv, TypeOK, AddressBeforeSchedule, SuccessComplete, Settings, vars
<1>6. OnlyOverlapsMix'
  BY <1>2 DEF IInv, OnlyOverlapsMix, Company, vars
<1> QED BY <1>1, <1>4, <1>5, <1>6 DEF IInv

\* The inductive invariant holds in every reachable state, for every set of
\* executions and servers: what the calls of provision_server read in the cell was
\* written by an execution that ran at the same time.
THEOREM Invariance == Spec => []IInv
<1>1. IInv /\ [Next]_vars => IInv'
  <2> SUFFICES ASSUME IInv, [Next]_vars
               PROVE  IInv'
    OBVIOUS
  <2>1. CASE \E e \in Executions : Execute(e)
    BY <2>1, StartInv, CreateInv, CreateReturnsInv, CreateStopsInv, SettingReturnsInv,
       SettingStopsInv DEF Execute
  <2>2. CASE \E x \in late : Land(x)
    BY <2>2, LandInv
  <2>3. CASE UNCHANGED vars
    BY <2>3, StutterInv
  <2> QED BY <2>1, <2>2, <2>3 DEF Next, Over
<1> QED BY InitInv, <1>1, PTL DEF Spec

-----------------------------------------------------------------------------
\* The variables keep their ranges and only wanted settings are called.
THEOREM TypeCorrect == Spec => []TypeOK
<1>1. IInv => TypeOK
  BY DEF IInv
<1> QED BY Invariance, <1>1, PTL

\* No setting of provision_server is called with an empty cell, however
\* executions overlap, and the cell names one server the plan created.
THEOREM CellIsReady == Spec => []CellReady
<1>1. IInv => CellReady
  <2> SUFFICES ASSUME IInv
               PROVE  CellReady
    OBVIOUS
  <2>1. cell # {} => \E e \in Executions : cell = ServersOf(e)
    BY DEF IInv, TypeOK, CellOrigin, OneServer, ServersOf
  <2> QED BY <2>1 DEF IInv, CellOrigin, CellFull, CellReady
<1> QED BY Invariance, <1>1, PTL

\* A setting goes to the server of the execution that requests it, or of one that
\* ran at the same time; so executions that take turns each configure their own.
THEOREM Mixing == Spec => []OnlyOverlapsMix
<1>1. IInv => OnlyOverlapsMix
  BY DEF IInv
<1> QED BY Invariance, <1>1, PTL

\* An execution that reports success has a server and every setting performed, on
\* that server unless others ran at the same time.
THEOREM Complete == Spec => []SuccessIsComplete
<1>1. IInv => SuccessIsComplete
  <2> SUFFICES ASSUME IInv, NEW e \in Executions, verdict[e] = "succeeded"
               PROVE  /\ ServersOf(e) # {}
                      /\ \A o \in wanted : \E f \in Company(e) : \E s \in ServersOf(f) :
                           <<e, o, s>> \in settings
    BY DEF SuccessIsComplete
  <2> QED BY DEF IInv, SuccessComplete, ServersOf, Done, Known
<1> QED BY Invariance, <1>1, PTL

\* An execution is charged for at most one server.
THEOREM ChargedOnce == Spec => []OneServerPerExecution
<1>1. IInv => OneServerPerExecution
  BY DEF IInv, OneServer, OneServerPerExecution, ServersOf
<1> QED BY Invariance, <1>1, PTL

-----------------------------------------------------------------------------
(* What the provider sees of each execution *)

Requested(e, o, some) == \E s \in Servers : <<e, o, s>> \in some

\* What an execution has requested, by the place it is at; a setting that may
\* still land is the last one of an execution that has stopped.
CallsByPlace(e) ==
  /\ verdict[e] = "none" <=> pc[e] # "done"
  /\ \A o \in Settings : Requested(e, o, settings) \/ Requested(e, o, late) => o \in wanted
  /\ pc[e] \notin {"schedule", "done"} => \A o \in Settings : ~Requested(e, o, settings)
  /\ pc[e] = "schedule" => /\ ~Requested(e, "schedule", settings)
                           /\ "add_ip" \in wanted => Requested(e, "add_ip", settings)
  /\ pc[e] # "done" => \A o \in Settings : ~Requested(e, o, late)
  /\ \A o, p \in Settings, s, t \in Servers :
       <<e, o, s>> \in late /\ <<e, p, t>> \in late => o = p /\ s = t

CInv == \A e \in Executions : CallsByPlace(e)

\* The calls of one execution are nothing to the others.
LEMMA OthersCalls ==
  ASSUME NEW e \in Executions, NEW f \in Executions, e # f, UNCHANGED wanted,
         pc'[f] = pc[f], verdict'[f] = verdict[f], CallsByPlace(f),
         \A x \in (settings' \ settings) \union (settings \ settings') : x[1] = e,
         \A x \in (late' \ late) \union (late \ late') : x[1] = e
  PROVE  CallsByPlace(f)'
<1>1. \A o \in Settings, s \in Servers :
        /\ <<f, o, s>> \in settings' <=> <<f, o, s>> \in settings
        /\ <<f, o, s>> \in late' <=> <<f, o, s>> \in late
  OBVIOUS
<1>2. \A o \in Settings : /\ Requested(f, o, settings)' <=> Requested(f, o, settings)
                          /\ Requested(f, o, late)' <=> Requested(f, o, late)
  BY <1>1 DEF Requested
<1>3. "schedule" \in Settings /\ "add_ip" \in Settings
  BY DEF Settings
<1> QED BY <1>1, <1>2, <1>3 DEF CallsByPlace

\* What a call that was just made adds to the requested settings.
LEMMA OneMore ==
  ASSUME NEW e \in Executions, NEW o \in Settings, NEW s \in Servers, NEW old, NEW new,
         new = old \union {<<e, o, s>>}
  PROVE  /\ \A p \in Settings : Requested(e, p, new) <=> Requested(e, p, old) \/ p = o
         /\ \A x \in (new \ old) \union (old \ new) : x[1] = e
  BY DEF Requested

LEMMA CallsHold == Spec => []CInv
<1>1. Init => CInv
  BY DEF Init, CInv, CallsByPlace, Requested
<1>2. IInv /\ CInv /\ [Next]_vars => CInv'
  <2> SUFFICES ASSUME IInv, CInv, [Next]_vars
               PROVE  CInv'
    OBVIOUS
  <2>0. DOMAIN pc = Executions /\ DOMAIN verdict = Executions
    BY DEF IInv, TypeOK
  <2>1. ASSUME NEW e \in Executions, Start(e) \/ (\E s \in Servers : Create(e, s)) \/ CreateReturns(e)
        PROVE  CInv'
    <3>1. /\ pc[e] \in {"idle", "create", "created"} /\ UNCHANGED <<wanted, settings, late>>
          /\ pc'[e] = "schedule" => "add_ip" \notin wanted
          /\ pc'[e] = "done" <=> verdict'[e] # "none"
          /\ \A f \in Executions \ {e} : pc'[f] = pc[f] /\ verdict'[f] = verdict[f]
      <4>1. CASE CreateReturns(e)
        <5> DEFINE next == NextCall("created")
        <5>1. /\ pc[e] = "created" /\ pc' = [pc EXCEPT ![e] = next]
              /\ UNCHANGED <<wanted, settings, late>> /\ verdict[e] = "none"
              /\ verdict' = IF next = "done" THEN [verdict EXCEPT ![e] = "succeeded"] ELSE verdict
          BY <4>1 DEF next, CreateReturns, Advance, CInv, CallsByPlace
        <5>2. next = "schedule" => "add_ip" \notin wanted
          BY DEF next, NextCall
        <5> HIDE DEF next
        <5>3. /\ next = "done" <=> verdict'[e] # "none"
              /\ \A f \in Executions \ {e} : verdict'[f] = verdict[f]
          BY <2>0, <5>1
        <5>4. pc'[e] = next /\ \A f \in Executions \ {e} : pc'[f] = pc[f]
          BY <2>0, <5>1
        <5> QED BY <5>1, <5>2, <5>3, <5>4
      <4>2. CASE Start(e) \/ \E s \in Servers : Create(e, s)
        <5>1. verdict[e] = "none" /\ pc[e] \in {"idle", "create"}
          BY <4>2 DEF Start, Create, CInv, CallsByPlace
        <5>2. UNCHANGED <<wanted, settings, late, verdict>>
          BY <4>2 DEF Start, Create
        <5>3. pc'[e] \in {"create", "created"} /\ \A f \in Executions \ {e} : pc'[f] = pc[f]
          BY <2>0, <4>2 DEF Start, Create
        <5> QED BY <5>1, <5>2, <5>3
      <4> QED BY <2>1, <4>1, <4>2
    <3>2. \A f \in Executions \ {e} : CallsByPlace(f)'
      BY <2>0, <3>1, OthersCalls DEF CInv
    <3>3. CallsByPlace(e)'
      BY <2>0, <3>1 DEF CInv, CallsByPlace, Requested, Settings
    <3> QED BY <3>2, <3>3 DEF CInv
  <2>2. ASSUME NEW e \in Executions, CreateStops(e) \/ CreateReplyLost(e)
        PROVE  CInv'
    <3>1. pc[e] \in {"create", "created"} /\ Stop(e) /\ UNCHANGED <<wanted, settings, late>>
      BY <2>2 DEF CreateStops, CreateReplyLost
    <3>2. \A f \in Executions \ {e} : CallsByPlace(f)'
      BY <2>0, <3>1, OthersCalls DEF CInv, Stop
    <3>3. CallsByPlace(e)'
      BY <2>0, <3>1 DEF CInv, CallsByPlace, Requested, Stop
    <3> QED BY <3>2, <3>3 DEF CInv
  <2>3. ASSUME NEW e \in Executions, SettingReturns(e)
        PROVE  CInv'
    <3>1. PICK s \in cell : settings' = settings \union {<<e, pc[e], s>>}
      BY <2>3 DEF SettingReturns
    <3>2. /\ pc[e] \in Settings /\ pc[e] \in wanted /\ s \in Servers
          /\ UNCHANGED <<wanted, late>> /\ pc' = [pc EXCEPT ![e] = NextCall(pc[e])]
          /\ NextCall(pc[e]) \in {"schedule", "done"}
          /\ NextCall(pc[e]) = "schedule" => pc[e] = "add_ip"
          /\ verdict' = IF NextCall(pc[e]) = "done" THEN [verdict EXCEPT ![e] = "succeeded"] ELSE verdict
      BY <2>3 DEF IInv, TypeOK, SettingReturns, Advance, NextCall, Settings
    <3>3. /\ \A p \in Settings : Requested(e, p, settings') <=> Requested(e, p, settings) \/ p = pc[e]
          /\ \A x \in (settings' \ settings) \union (settings \ settings') : x[1] = e
      BY <3>1, <3>2, OneMore
    <3>4. \A f \in Executions \ {e} : CallsByPlace(f)'
      BY <2>0, <3>2, <3>3, OthersCalls DEF CInv
    <3>5. CallsByPlace(e)'
      <4>1. CallsByPlace(e) /\ pc'[e] = NextCall(pc[e]) /\ (verdict'[e] = "none" <=> pc'[e] # "done")
        BY <2>0, <3>2 DEF CInv, CallsByPlace, Settings
      <4>2. \A p \in Settings : Requested(e, p, late') <=> Requested(e, p, late)
        BY <3>2
      <4> QED BY <3>2, <3>3, <4>1, <4>2 DEF CallsByPlace, Settings
    <3> QED BY <3>4, <3>5 DEF CInv
  <2>4. ASSUME NEW e \in Executions, SettingStops(e)
        PROVE  CInv'
    <3>1. PICK s \in cell :
            \/ UNCHANGED <<settings, late>>
            \/ settings' = settings \union {<<e, pc[e], s>>} /\ UNCHANGED late
            \/ late' = late \union {<<e, pc[e], s>>} /\ UNCHANGED settings
      BY <2>4 DEF SettingStops
    <3>2. /\ pc[e] \in Settings /\ pc[e] \in wanted /\ s \in Servers /\ UNCHANGED wanted
          /\ pc' = [pc EXCEPT ![e] = "done"] /\ verdict' = [verdict EXCEPT ![e] = "stopped"]
      BY <2>4 DEF IInv, TypeOK, SettingStops, Stop, Settings
    <3>3. /\ \A x \in (settings' \ settings) \union (settings \ settings') : x[1] = e
          /\ \A x \in (late' \ late) \union (late \ late') : x[1] = e
      BY <3>1
    <3>4. \A f \in Executions \ {e} : CallsByPlace(f)'
      BY <2>0, <3>2, <3>3, OthersCalls DEF CInv
    <3>5. CallsByPlace(e)'
      <4>1. CallsByPlace(e) /\ pc[e] # "done" /\ pc'[e] = "done" /\ verdict'[e] = "stopped"
        BY <2>0, <3>2 DEF CInv, Settings
      <4>2. \A p \in Settings :
              /\ Requested(e, p, settings') => Requested(e, p, settings) \/ p = pc[e]
              /\ Requested(e, p, late') => Requested(e, p, late) \/ p = pc[e]
        BY <3>1, <3>2, OneMore
      <4>3. \A p \in Settings, t \in Servers : <<e, p, t>> \in late' => p = pc[e] /\ t = s
        BY <3>1, <3>2, <4>1 DEF CallsByPlace, Requested
      <4> QED BY <3>2, <4>1, <4>2, <4>3 DEF CallsByPlace
    <3> QED BY <3>4, <3>5 DEF CInv
  <2>5. ASSUME NEW x \in late, Land(x)
        PROVE  CInv'
    <3>1. PICK e \in Executions, o \in Settings, s \in Servers : x = <<e, o, s>>
      BY <2>5 DEF IInv, TypeOK
    <3>2. /\ settings' = settings \union {<<e, o, s>>} /\ late' = late \ {<<e, o, s>>}
          /\ UNCHANGED <<wanted, pc, verdict>>
      BY <2>5, <3>1 DEF Land
    <3>3. pc[e] = "done" /\ o \in wanted
      BY <3>1 DEF CInv, CallsByPlace, Requested
    <3>4. \A f \in Executions \ {e} : CallsByPlace(f)'
      BY <3>2, OthersCalls DEF CInv
    <3>5. CallsByPlace(e)'
      BY <3>2, <3>3 DEF CInv, CallsByPlace, Requested
    <3> QED BY <3>4, <3>5 DEF CInv
  <2>6. CASE UNCHANGED vars
    BY <2>6 DEF CInv, CallsByPlace, Requested, vars
  <2> QED BY <2>1, <2>2, <2>3, <2>4, <2>5, <2>6 DEF Next, Execute, Over
<1> QED BY <1>1, <1>2, Invariance, PTL DEF Spec

\* The number of calls.
LEMMA LengthOfPlan ==
  ASSUME TypeOK
  PROVE  /\ 1 + Cardinality(wanted) \in 1 .. 3
         /\ "schedule" \in wanted => CallOf("schedule") = 1 + Cardinality(wanted)
         /\ "add_ip" \in wanted => CallOf("add_ip") = 2
         /\ "schedule" \notin wanted => (1 + Cardinality(wanted) = IF "add_ip" \in wanted THEN 2 ELSE 1)
<1>1. wanted \in {{}, {"add_ip"}, {"schedule"}, {"add_ip", "schedule"}}
  BY DEF TypeOK, Settings
<1>2. Cardinality({}) = 0 /\ Cardinality({"add_ip"}) = 1 /\ Cardinality({"schedule"}) = 1
  BY FS_EmptySet, FS_Singleton
<1>3. Cardinality({"add_ip", "schedule"}) = 2
  <2>1. {"add_ip", "schedule"} = {"add_ip"} \union {"schedule"} /\ "schedule" \notin {"add_ip"}
    OBVIOUS
  <2> QED BY <1>2, <2>1, FS_AddElement, FS_Singleton
<1> QED BY <1>1, <1>2, <1>3 DEF CallOf

Length == 1 + Cardinality(wanted)

LEMMA CallsOfRequested ==
  ASSUME NEW e, NEW some
  PROVE  CallsOf(e, some) = {CallOf(o) : o \in {p \in Settings : Requested(e, p, some)}}
  BY DEF CallsOf, Requested

\* One more setting requested is one more call.
LEMMA OneMoreCall ==
  ASSUME NEW e \in Executions, NEW o \in Settings, NEW s \in Servers, NEW old, NEW new,
         new = old \union {<<e, o, s>>}
  PROVE  CallsOf(e, new) = CallsOf(e, old) \union {CallOf(o)}
<1>1. \A p \in Settings : Requested(e, p, new) <=> Requested(e, p, old) \/ p = o
  BY OneMore
<1>2. {p \in Settings : Requested(e, p, new)} = {p \in Settings : Requested(e, p, old)} \union {o}
  BY <1>1
<1> QED BY <1>2, CallsOfRequested

\* What an execution has had performed, by the place it is at.
LEMMA PerformedByPlace ==
  ASSUME IInv, CInv, NEW e \in Executions
  PROVE  /\ pc[e] \in {"idle", "create"} => Performed(e) = {}
         /\ pc[e] \in {"created", "add_ip"} => Performed(e) = {1}
         /\ pc[e] = "schedule" => Performed(e) = 1 .. CallOf("schedule") - 1
         /\ pc[e] # "done" => CallsOf(e, late) = {}
<1>1. CallsByPlace(e) /\ TypeOK
  BY DEF CInv, IInv
<1>2. pc[e] \in {"idle", "create"} => ServersOf(e) = {}
  BY DEF IInv, CreatedByPlace, ServersOf
<1>3. pc[e] \in {"created"} \union Settings => ServersOf(e) # {}
  BY DEF IInv, CreatedByPlace, ServersOf
<1>4. pc[e] \notin {"schedule", "done"} => CallsOf(e, settings) = {}
  BY <1>1, CallsOfRequested DEF CallsByPlace
<1>5. pc[e] # "done" => CallsOf(e, late) = {}
  BY <1>1, CallsOfRequested DEF CallsByPlace
<1>6. pc[e] = "schedule" => Performed(e) = 1 .. CallOf("schedule") - 1
  <2> SUFFICES ASSUME pc[e] = "schedule"
               PROVE  Performed(e) = 1 .. CallOf("schedule") - 1
    OBVIOUS
  <2>1. CASE "add_ip" \in wanted
    <3>1. {p \in Settings : Requested(e, p, settings)} = {"add_ip"}
      BY <1>1, <2>1 DEF CallsByPlace, Settings
    <3>2. CallsOf(e, settings) = {2} /\ CallOf("schedule") = 3
      BY <2>1, <3>1, CallsOfRequested DEF CallOf
    <3> QED BY <1>3, <3>2 DEF Performed, Settings
  <2>2. CASE "add_ip" \notin wanted
    <3>1. {p \in Settings : Requested(e, p, settings)} = {}
      BY <1>1, <2>2 DEF CallsByPlace, Settings
    <3>2. CallsOf(e, settings) = {} /\ CallOf("schedule") = 2
      BY <2>2, <3>1, CallsOfRequested DEF CallOf
    <3> QED BY <1>3, <3>2 DEF Performed, Settings
  <2> QED BY <2>1, <2>2
<1> QED BY <1>2, <1>3, <1>4, <1>5, <1>6 DEF Performed, Settings

\* The other executions do not notice.
LEMMA OthersSequence ==
  ASSUME NEW e \in Executions, NEW f \in Executions, e # f, UNCHANGED wanted,
         verdict'[f] = verdict[f],
         \A x \in (created' \ created) \union (created \ created') : x[1] = e,
         \A x \in (settings' \ settings) \union (settings \ settings') : x[1] = e,
         \A x \in (late' \ late) \union (late \ late') : x[1] = e
  PROVE  UNCHANGED Sequence(f)!seqVars
<1>1. /\ ServersOf(f)' = ServersOf(f)
      /\ \A o \in Settings, s \in Servers :
           /\ <<f, o, s>> \in settings' <=> <<f, o, s>> \in settings
           /\ <<f, o, s>> \in late' <=> <<f, o, s>> \in late
  BY DEF ServersOf
<1>2. CallsOf(f, settings)' = CallsOf(f, settings) /\ CallsOf(f, late)' = CallsOf(f, late)
  BY <1>1 DEF CallsOf, CallOf
<1> QED BY <1>1, <1>2 DEF Sequence!seqVars, Performed

\* A call of an execution is one of the abstract execution.
LEMMA CallIsAttempt ==
  ASSUME IInv, CInv, NEW e \in Executions, UNCHANGED wanted,
         NEW k \in 1 .. Length, Performed(e) = 1 .. k - 1, pc[e] # "done",
         \/ /\ Performed(e)' = Performed(e) \union {k} /\ UNCHANGED CallsOf(e, late)
            /\ verdict'[e] = "none" \/ (verdict'[e] = "succeeded" /\ k = Length)
         \/ /\ verdict'[e] = "stopped"
            /\ \/ UNCHANGED <<Performed(e), CallsOf(e, late)>>
               \/ Performed(e)' = Performed(e) \union {k} /\ UNCHANGED CallsOf(e, late)
               \/ CallsOf(e, late)' = {k} /\ UNCHANGED Performed(e)
  PROVE  Sequence(e)!Next
<1>1. Length \in 1 .. 3 /\ Length' = Length
  BY LengthOfPlan DEF IInv, Length
<1>2. CallsOf(e, late) = {} /\ verdict[e] = "none"
  BY PerformedByPlace DEF CInv, CallsByPlace
<1>3. Sequence(e)!Attempt(k)
  BY <1>1, <1>2 DEF Sequence!Attempt, Length
<1>4. k \in 1 .. 3
  BY <1>1
<1> QED BY <1>3, <1>4 DEF Sequence!Next

\* Every step of an execution is one of its abstract execution, or none of it.
LEMMA ExecuteStep ==
  ASSUME IInv, CInv, CInv', NEW e \in Executions, Execute(e)
  PROVE  [Sequence(e)!Next]_(Sequence(e)!seqVars)
<1>0. DOMAIN pc = Executions /\ DOMAIN verdict = Executions /\ CallsByPlace(e)
  BY DEF IInv, TypeOK, CInv
<1>1. UNCHANGED wanted /\ UNCHANGED Length
  BY DEF Execute, Start, Create, CreateReturns, CreateStops, CreateReplyLost, SettingReturns,
         SettingStops, Length
<1>2. CASE Start(e)
  BY <1>1, <1>2 DEF Start, Sequence!seqVars, Performed, ServersOf, CallsOf, CallOf, Length
<1>3. CASE \E s \in Servers : Create(e, s)
  <2>1. PICK s \in Servers : Create(e, s)
    BY <1>3
  <2>2. /\ ServersOf(e)' # {} /\ CallsOf(e, settings)' = CallsOf(e, settings)
        /\ CallsOf(e, late)' = CallsOf(e, late)
    BY <1>1, <2>1 DEF Create, ServersOf, CallsOf, CallOf
  <2>3. Performed(e) = {} /\ Performed(e)' = Performed(e) \union {1}
    BY <2>1, <2>2, PerformedByPlace DEF Create, Performed
  <2>4. 1 \in 1 .. Length /\ 1 .. 1 - 1 = {}
    BY LengthOfPlan DEF IInv, Length
  <2>5. pc[e] # "done" /\ verdict'[e] = "none"
    BY <1>0, <2>1 DEF Create, CallsByPlace
  <2> QED BY <1>1, <2>2, <2>3, <2>4, <2>5, CallIsAttempt
<1>4. CASE CreateReturns(e)
  <2>1. /\ pc[e] = "created" /\ UNCHANGED <<wanted, created, settings, late>>
        /\ verdict' = IF NextCall("created") = "done" THEN [verdict EXCEPT ![e] = "succeeded"] ELSE verdict
    BY <1>4 DEF CreateReturns, Advance
  <2>2. UNCHANGED <<Performed(e), CallsOf(e, late)>>
    BY <2>1 DEF Performed, ServersOf, CallsOf, CallOf
  <2>3. CASE NextCall("created") = "done"
    <3>1. wanted = {} /\ Length = 1
      BY <2>3, NextCallFacts, LengthOfPlan DEF IInv, Length
    <3>2. Performed(e) = {1} /\ 1 .. 1 = {1}
      BY <2>1, PerformedByPlace
    <3>3. verdict[e] = "none" /\ verdict'[e] = "succeeded"
      BY <1>0, <2>1, <2>3 DEF CallsByPlace
    <3>4. Sequence(e)!Succeed
      BY <1>1, <2>2, <3>1, <3>2, <3>3 DEF Sequence!Succeed, Length
    <3> QED BY <3>4 DEF Sequence!Next
  <2>4. CASE NextCall("created") # "done"
    BY <1>1, <2>1, <2>2, <2>4 DEF Sequence!seqVars, Length
  <2> QED BY <2>3, <2>4
<1>5. CASE CreateStops(e)
  <2>1. /\ pc[e] = "create" /\ verdict'[e] = "stopped" /\ UNCHANGED <<wanted, settings, late>>
        /\ created' = created \/ \E s \in Servers : created' = created \union {<<e, s>>}
    BY <1>0, <1>5 DEF CreateStops, Stop
  <2>2. Performed(e) = {}
    BY <2>1, PerformedByPlace
  <2>3. UNCHANGED <<CallsOf(e, settings), CallsOf(e, late)>>
    BY <2>1 DEF CallsOf, CallOf
  <2>4. Performed(e)' = {} \/ Performed(e)' = {1}
    BY <2>2, <2>3 DEF Performed
  <2>5. 1 \in 1 .. Length /\ 1 .. 1 - 1 = {}
    BY LengthOfPlan DEF IInv, Length
  <2> QED BY <1>1, <2>1, <2>2, <2>3, <2>4, <2>5, CallIsAttempt
<1>6. CASE CreateReplyLost(e)
  <2>1. /\ verdict[e] = "none" /\ verdict'[e] = "stopped" /\ UNCHANGED <<wanted, created, settings, late>>
    BY <1>0, <1>6 DEF CreateReplyLost, Stop, CallsByPlace
  <2>2. UNCHANGED <<Performed(e), CallsOf(e, late)>>
    BY <2>1 DEF Performed, ServersOf, CallsOf, CallOf
  <2>3. Sequence(e)!Stop
    BY <1>1, <2>1, <2>2 DEF Sequence!Stop, Length
  <2> QED BY <2>3 DEF Sequence!Next
<1>7. ASSUME pc[e] \in Settings
      PROVE  /\ CallOf(pc[e]) \in 1 .. Length /\ Performed(e) = 1 .. CallOf(pc[e]) - 1
             /\ pc[e] = "schedule" => CallOf(pc[e]) = Length
             /\ pc[e] = "add_ip" /\ "schedule" \notin wanted => CallOf(pc[e]) = Length
  <2>1. pc[e] \in wanted /\ pc[e] \in {"add_ip", "schedule"}
    BY <1>7 DEF IInv, TypeOK, Settings
  <2>2. Length \in 1 .. 3 /\ CallOf(pc[e]) \in 2 .. Length
    BY <2>1, LengthOfPlan DEF IInv, Length, CallOf
  <2>3. CallOf("add_ip") = 2 /\ 1 .. 2 - 1 = {1}
    BY DEF CallOf
  <2>4. Performed(e) = 1 .. CallOf(pc[e]) - 1
    BY <2>1, <2>3, PerformedByPlace
  <2>5. "schedule" \in wanted => CallOf("schedule") = Length
    BY LengthOfPlan DEF IInv, Length
  <2>6. "schedule" \notin wanted /\ "add_ip" \in wanted => Length = 2
    BY LengthOfPlan DEF IInv, Length
  <2> QED BY <2>1, <2>2, <2>3, <2>4, <2>5, <2>6
<1>8. ASSUME pc[e] \in Settings, UNCHANGED created, NEW s \in Servers,
             settings' = settings \union {<<e, pc[e], s>>}
      PROVE  Performed(e)' = Performed(e) \union {CallOf(pc[e])}
  <2>1. CallsOf(e, settings') = CallsOf(e, settings) \union {CallOf(pc[e])}
    BY <1>8, OneMoreCall
  <2>2. CallsOf(e, settings)' = CallsOf(e, settings') /\ ServersOf(e)' = ServersOf(e)
    BY <1>1, <1>8 DEF CallsOf, CallOf, ServersOf
  <2> QED BY <2>1, <2>2 DEF Performed
<1>9. CASE SettingReturns(e)
  <2>1. PICK s \in cell : settings' = settings \union {<<e, pc[e], s>>}
    BY <1>9 DEF SettingReturns
  <2>2. /\ pc[e] \in Settings /\ s \in Servers /\ UNCHANGED <<wanted, created, late>>
        /\ verdict' = IF NextCall(pc[e]) = "done" THEN [verdict EXCEPT ![e] = "succeeded"] ELSE verdict
    BY <1>9 DEF IInv, TypeOK, SettingReturns, Advance
  <2>3. CallsOf(e, late)' = CallsOf(e, late)
    BY <2>2 DEF CallsOf, CallOf
  <2>4. pc[e] # "done" /\ verdict[e] = "none"
    BY <1>0, <2>2 DEF CallsByPlace, Settings
  <2>5. NextCall(pc[e]) = "done" => CallOf(pc[e]) = Length
    BY <1>7, <2>2 DEF NextCall, Settings
  <2>6. verdict'[e] = "none" \/ (verdict'[e] = "succeeded" /\ CallOf(pc[e]) = Length)
    BY <1>0, <2>2, <2>4, <2>5
  <2>7. Performed(e)' = Performed(e) \union {CallOf(pc[e])}
    BY <1>8, <2>1, <2>2
  <2> QED BY <1>1, <1>7, <2>2, <2>3, <2>4, <2>6, <2>7, CallIsAttempt
<1>10. CASE SettingStops(e)
  <2>1. PICK s \in cell :
          \/ UNCHANGED <<settings, late>>
          \/ settings' = settings \union {<<e, pc[e], s>>} /\ UNCHANGED late
          \/ late' = late \union {<<e, pc[e], s>>} /\ UNCHANGED settings
    BY <1>10 DEF SettingStops
  <2>2. pc[e] \in Settings /\ s \in Servers /\ UNCHANGED <<wanted, created>> /\ verdict'[e] = "stopped"
    BY <1>0, <1>10 DEF IInv, TypeOK, SettingStops, Stop
  <2>3. pc[e] # "done" /\ CallsOf(e, late) = {}
    BY <2>2, PerformedByPlace DEF Settings
  <2>4. UNCHANGED settings => UNCHANGED Performed(e)
    BY <2>2 DEF Performed, ServersOf, CallsOf, CallOf
  <2>5. UNCHANGED late => UNCHANGED CallsOf(e, late)
    BY <2>2 DEF CallsOf, CallOf
  <2>6. settings' = settings \union {<<e, pc[e], s>>} => Performed(e)' = Performed(e) \union {CallOf(pc[e])}
    BY <1>8, <2>2
  <2>7. late' = late \union {<<e, pc[e], s>>} => CallsOf(e, late)' = {CallOf(pc[e])}
    <3> SUFFICES ASSUME late' = late \union {<<e, pc[e], s>>}
                 PROVE  CallsOf(e, late)' = {CallOf(pc[e])}
      OBVIOUS
    <3>1. CallsOf(e, late') = CallsOf(e, late) \union {CallOf(pc[e])}
      BY <2>2, OneMoreCall
    <3>2. CallsOf(e, late)' = CallsOf(e, late')
      BY <1>1 DEF CallsOf, CallOf
    <3> QED BY <2>3, <3>1, <3>2
  <2> QED BY <1>1, <1>7, <2>1, <2>2, <2>3, <2>4, <2>5, <2>6, <2>7, CallIsAttempt
<1> QED BY <1>2, <1>3, <1>4, <1>5, <1>6, <1>9, <1>10 DEF Execute

\* A late setting lands in the execution that asked for it.
LEMMA LandStep ==
  ASSUME IInv, CInv, NEW e \in Executions, NEW o \in Settings, NEW s \in Servers,
         <<e, o, s>> \in late, Land(<<e, o, s>>)
  PROVE  Sequence(e)!Next
<1>1. /\ settings' = settings \union {<<e, o, s>>} /\ late' = late \ {<<e, o, s>>}
      /\ UNCHANGED <<wanted, created, verdict>>
  BY DEF Land
<1>2. CallsByPlace(e) /\ \A p \in Settings, t \in Servers : <<e, p, t>> \in late => p = o /\ t = s
  BY DEF CInv, CallsByPlace
<1>3. CallsOf(e, late) = {CallOf(o)} /\ CallsOf(e, late') = {}
  BY <1>1, <1>2 DEF CallsOf
<1>4. CallsOf(e, settings') = CallsOf(e, settings) \union {CallOf(o)}
  BY <1>1, OneMoreCall
<1>5. /\ CallsOf(e, late)' = CallsOf(e, late') /\ CallsOf(e, settings)' = CallsOf(e, settings')
      /\ ServersOf(e)' = ServersOf(e)
  BY <1>1 DEF CallsOf, CallOf, ServersOf
<1>6. Performed(e)' = Performed(e) \union {CallOf(o)}
  BY <1>4, <1>5 DEF Performed
<1>7. Sequence(e)!Land(CallOf(o))
  BY <1>1, <1>3, <1>5, <1>6 DEF Sequence!Land
<1>8. CallOf(o) \in 1 .. 3
  BY DEF CallOf
<1> QED BY <1>7, <1>8 DEF Sequence!Next

\* For any number of executions of the plan, in turns or overlapping, whatever they
\* do to the cell they share: the create and the settings of each of them reach the
\* provider in order, each once, none after one that stopped the execution, and only
\* the last one late.
THEOREM Refinement == Spec => EachImplementsStepSequence
<1>1. Init => \A e \in Executions : Sequence(e)!Init
  <2> SUFFICES ASSUME Init, NEW e \in Executions
               PROVE  Sequence(e)!Init
    OBVIOUS
  <2>1. CallsOf(e, settings) = {} /\ CallsOf(e, late) = {} /\ Performed(e) = {}
    BY DEF Init, CallsOf, Performed, ServersOf
  <2>2. 1 + Cardinality(wanted) \in 0 .. 3
    BY InitInv, LengthOfPlan DEF IInv
  <2> QED BY <2>1, <2>2 DEF Init, Sequence!Init
<1>2. IInv /\ CInv /\ CInv' /\ [Next]_vars =>
        [\A e \in Executions : [Sequence(e)!Next]_(Sequence(e)!seqVars)]_vars
  <2> SUFFICES ASSUME IInv, CInv, CInv', Next, NEW f \in Executions
               PROVE  [Sequence(f)!Next]_(Sequence(f)!seqVars)
    OBVIOUS
  <2>1. ASSUME NEW e \in Executions, Execute(e), e # f
        PROVE  UNCHANGED Sequence(f)!seqVars
    <3>1. UNCHANGED wanted /\ verdict'[f] = verdict[f]
      BY <2>1 DEF IInv, TypeOK, Execute, Start, Create, CreateReturns, CreateStops,
                  CreateReplyLost, SettingReturns, SettingStops, Advance, Stop
    <3>2. /\ \A x \in (created' \ created) \union (created \ created') : x[1] = e
          /\ \A x \in (settings' \ settings) \union (settings \ settings') : x[1] = e
          /\ \A x \in (late' \ late) \union (late \ late') : x[1] = e
      BY <2>1 DEF Execute, Start, Create, CreateReturns, CreateStops, CreateReplyLost,
                  SettingReturns, SettingStops
    <3> QED BY <2>1, <3>1, <3>2, OthersSequence
  <2>2. ASSUME NEW x \in late, Land(x)
        PROVE  [Sequence(f)!Next]_(Sequence(f)!seqVars)
    <3>1. PICK e \in Executions, o \in Settings, s \in Servers : x = <<e, o, s>>
      BY <2>2 DEF IInv, TypeOK
    <3>2. CASE e = f
      BY <2>2, <3>1, <3>2, LandStep
    <3>3. CASE e # f
      BY <2>2, <3>1, <3>3, OthersSequence DEF Land
    <3> QED BY <3>2, <3>3
  <2>3. CASE UNCHANGED vars
    BY <2>3 DEF vars, Sequence!seqVars, Performed, ServersOf, CallsOf, CallOf
  <2>4. ASSUME NEW e \in Executions, Execute(e)
        PROVE  [Sequence(f)!Next]_(Sequence(f)!seqVars)
    BY <2>1, <2>4, ExecuteStep
  <2> QED BY <2>2, <2>3, <2>4 DEF Next, Over
<1> QED BY <1>1, <1>2, Invariance, CallsHold, PTL DEF Spec, EachImplementsStepSequence
=============================================================================
