------------------------ MODULE ManyClients_proofs -------------------------
(***************************************************************************)
(* Proofs about ManyClients, for every number of clients and of signals:   *)
(* its inductive invariant, and what the launcher's report is worth.       *)
(***************************************************************************)
EXTENDS ManyClients, FiniteSetTheorems, TLAPS

Spawning == {"spawn", "append", "trap", "sleep"}
Reported == {"succeeded", "crashed"}

\* While clients are started nothing is counted, and the trap knows all of
\* them but the one that is being started.
Started ==
    /\ pc \in Spawning => job = 1 /\ FAIL = 0
    /\ pc \in {"spawn", "sleep"} => trapped = pidlist
    /\ pc = "append" =>
           trapped = pidlist /\ pidlist < Count /\ client[pidlist + 1] # "none"
    /\ pc = "trap" => trapped + 1 = pidlist
    /\ pc \in Reported \cup {"wait"} => trapped = Count /\ pidlist = Count
    /\ \A c \in Clients : c <= pidlist => client[c] # "none"

\* A wait that is over, interrupted or not, leaves a client that is gone or
\* has been told to go; the report comes after the last wait.
Waited ==
    /\ \A c \in Clients : c < job => client[c] \in Gone \cup {"terminated"}
    /\ pc \in Reported => job = Count + 1
    /\ pc = "succeeded" => FAIL = 0
    /\ pc = "crashed" => FAIL # 0

\* The clients among those waited for that have not succeeded.
BadBefore == {c \in Bad : c < job}

\* FAIL counts all of those; it counts more only when a trap interrupted the
\* wait for a client that had succeeded already.
Counted ==
    /\ FAIL < job
    /\ FAIL >= Cardinality(BadBefore)
    /\ signals = 0 =>
           /\ FAIL = Cardinality(BadBefore)
           /\ ~signal
           /\ \A c \in Clients : client[c] \notin {"terminated", "killed"}

IInv == TypeOK /\ Started /\ Waited /\ Counted

-----------------------------------------------------------------------------

\* Sets of clients are finite, whatever their number.
LEMMA ClientsAreFinite ==
    ASSUME NEW S \in SUBSET Clients
    PROVE  IsFiniteSet(S) /\ Cardinality(S) \in Nat
  <1>1. IsFiniteSet(Clients) BY FS_Interval, CountAssumption DEF Clients
  <1>2. IsFiniteSet(S) BY <1>1, FS_Subset
  <1> QED BY <1>2, FS_CardinalityType

\* A wait that ends adds the client waited for to the bad ones, or nobody.
LEMMA WaitAddsOne ==
    ASSUME TypeOK, job \in Clients, job' = job + 1,
           \A c \in Clients : c < job => (c \in Bad' <=> c \in Bad)
    PROVE  /\ Cardinality(BadBefore) \in Nat
           /\ job \in Bad' =>
                  Cardinality(BadBefore') = Cardinality(BadBefore) + 1
           /\ job \notin Bad' => Cardinality(BadBefore') = Cardinality(BadBefore)
  <1>1. IsFiniteSet(BadBefore) /\ Cardinality(BadBefore) \in Nat
    BY ClientsAreFinite DEF BadBefore, Bad
  <1>2. job \notin BadBefore BY DEF BadBefore, TypeOK
  <1>3. \A c \in Clients : c < job + 1 <=> c < job \/ c = job
    BY CountAssumption DEF TypeOK, Clients
  <1>4. BadBefore \subseteq Clients /\ BadBefore' \subseteq Clients
    BY DEF BadBefore, Bad, Clients
  <1>5. ASSUME job \in Bad' PROVE BadBefore' = BadBefore \cup {job}
    BY <1>3, <1>4, <1>5 DEF BadBefore
  <1>6. ASSUME job \notin Bad' PROVE BadBefore' = BadBefore
    BY <1>3, <1>4, <1>6 DEF BadBefore
  <1> QED BY <1>1, <1>2, <1>5, <1>6, FS_AddElement

-----------------------------------------------------------------------------

\* The launcher starts in the invariant.
LEMMA InitInv == Init => IInv
  <1> SUFFICES ASSUME Init PROVE IInv OBVIOUS
  <1>1. client \in [Clients -> Statuses] /\ signal \in BOOLEAN
    BY DEF Init, Statuses
  <1>7. TypeOK BY <1>1, CountAssumption DEF Init, TypeOK
  <1>2. Started
    BY CountAssumption DEF Init, Started, Spawning, Reported, Clients
  <1>3. Waited
    BY CountAssumption DEF Init, Waited, Reported, Clients
  <1>4. Bad = {} BY DEF Init, Bad
  <1>5. BadBefore = {} BY <1>4 DEF BadBefore
  <1>6. Counted
    BY <1>5, FS_EmptySet DEF Init, Counted
  <1> QED BY <1>7, <1>2, <1>3, <1>6 DEF IInv

\* The steps that start the clients touch nothing that is counted.
LEMMA SpawningInv ==
    ASSUME IInv, Spawn \/ AppendPid \/ SetTrap \/ Sleep \/ DoneSpawning
    PROVE  IInv'
  <1> USE CountAssumption DEF IInv, At
  <1>1. TypeOK'
    BY DEF Spawn, AppendPid, SetTrap, Sleep, DoneSpawning, TypeOK, Started,
           Statuses, Clients, Spawning
  <1>2. Started'
    BY DEF Spawn, AppendPid, SetTrap, Sleep, DoneSpawning, TypeOK, Started,
           Statuses, Clients, Spawning, Reported
  <1>3. job = 1 /\ job' = 1 /\ FAIL = 0 /\ FAIL' = 0
    BY DEF Spawn, AppendPid, SetTrap, Sleep, DoneSpawning, Started, Spawning
  <1>4. Waited'
    BY <1>3 DEF Spawn, AppendPid, SetTrap, Sleep, DoneSpawning, Waited,
                Clients, Reported
  <1>5. BadBefore = {} /\ BadBefore' = {}
    BY <1>3 DEF BadBefore, Bad, Clients
  <1>6. \A c \in Clients : client'[c] \in {client[c], "running"}
    BY DEF Spawn, AppendPid, SetTrap, Sleep, DoneSpawning, TypeOK
  <1>7. Counted'
    BY <1>3, <1>5, <1>6, FS_EmptySet
       DEF Spawn, AppendPid, SetTrap, Sleep, DoneSpawning, Counted
  <1> QED BY <1>1, <1>2, <1>4, <1>7 DEF IInv

\* A wait that returns counts the client unless it has succeeded.
LEMMA WaitInv ==
    ASSUME IInv, WaitReturns
    PROVE  IInv'
  <1> USE CountAssumption DEF IInv, At, WaitReturns
  <1>1. job \in Clients /\ job' = job + 1 /\ Bad' = Bad
    BY DEF TypeOK, Clients, Bad
  <1>2. FAIL \in Nat /\ FAIL < job /\ FAIL' \in Nat /\ FAIL' < job'
    BY <1>1 DEF TypeOK, Counted
  <1>3. TypeOK' BY <1>1, <1>2 DEF TypeOK, Clients
  <1>4. Started' BY DEF Started, Spawning, Reported
  <1>5. Waited'
    <2>1. \A c \in Clients : c < job + 1 => c < job \/ c = job
      BY DEF TypeOK, Clients
    <2> QED BY <2>1 DEF Waited, Reported
  <1>6. job \in Bad <=> client[job] # "ok" \/ client[job] = "terminated"
    BY <1>1 DEF Bad, Gone
  <1>7. Counted'
    <2>1. /\ Cardinality(BadBefore) \in Nat
          /\ job \in Bad => Cardinality(BadBefore') = Cardinality(BadBefore) + 1
          /\ job \notin Bad => Cardinality(BadBefore') = Cardinality(BadBefore)
      BY <1>1, WaitAddsOne
    <2>2. FAIL' = IF job \in Bad THEN FAIL + 1 ELSE FAIL
      BY <1>6 DEF Gone
    <2> QED BY <1>1, <1>2, <2>1, <2>2 DEF Counted
  <1> QED BY <1>3, <1>4, <1>5, <1>7

\* The launcher reports when it has waited for the last client.
LEMMA ReportInv ==
    ASSUME IInv, Report
    PROVE  IInv'
  <1> USE CountAssumption DEF IInv, At, Report
  <1>1. TypeOK' BY DEF TypeOK
  <1>2. Started' BY DEF Started, Spawning, Reported
  <1>3. Waited' BY DEF Waited, Reported, Started, TypeOK
  <1>4. BadBefore' = BadBefore BY DEF BadBefore, Bad
  <1>5. Counted' BY <1>4 DEF Counted
  <1> QED BY <1>1, <1>2, <1>3, <1>5

\* A trap counts the wait it interrupts, and the clients it tells to stop
\* were not waited for yet.
LEMMA TrapInv ==
    ASSUME IInv, RunTrap
    PROVE  IInv'
  <1> USE CountAssumption DEF IInv
  <1>0. signals # 0 /\ signals' = signals /\ pidlist' = pidlist /\ trapped' = trapped
    BY DEF RunTrap, Counted
  <1>1. CASE trapped = 0
    <2>1. pc' = "interrupted" /\ client' = client /\ job' = job /\ FAIL' = FAIL
      BY <1>1 DEF RunTrap
    <2>2. TypeOK' BY <1>0, <2>1 DEF RunTrap, TypeOK
    <2>3. Started' BY <1>0, <2>1 DEF Started, Spawning, Reported
    <2>4. Waited' BY <1>0, <2>1 DEF Waited, Reported
    <2>5. BadBefore' = BadBefore BY <2>1 DEF BadBefore, Bad
    <2>6. Counted' BY <1>0, <2>1, <2>5 DEF Counted
    <2> QED BY <2>2, <2>3, <2>4, <2>6
  <1>2. CASE trapped # 0
    <2>1. /\ client' = [c \in Clients |->
                 IF c <= trapped /\ client[c] = "running"
                 THEN "terminated" ELSE client[c]]
          /\ pc' = pc /\ signal' = FALSE
      BY <1>2 DEF RunTrap
    <2>2. \/ UNCHANGED <<FAIL, job>>
          \/ /\ pc = "wait" /\ job <= pidlist
             /\ FAIL' = FAIL + 1 /\ job' = job + 1
      BY <1>2 DEF RunTrap
    <2>3. \A c \in Clients :
              /\ client[c] # "running" => client'[c] = client[c]
              /\ client[c] = "running" => client'[c] \in {"running", "terminated"}
              /\ c <= trapped => client'[c] # "running"
      BY <2>1
    <2>4. FAIL' \in 0..Count /\ job' \in 1..(Count + 1) /\ FAIL' < job'
      BY <2>2 DEF TypeOK, Counted, Started
    <2>5. TypeOK'
      <3>1. client' \in [Clients -> Statuses] BY <2>1 DEF TypeOK, Statuses
      <3> QED BY <1>0, <2>1, <2>4, <3>1 DEF TypeOK
    <2>6. Started'
      BY <1>0, <2>1, <2>2, <2>3 DEF Started, Spawning, Reported, TypeOK, Clients
    <2>7. Waited'
      <3>1. ASSUME NEW c \in Clients, c < job'
            PROVE  client'[c] \in Gone \cup {"terminated"}
        <4>1. CASE c < job BY <4>1, <2>3 DEF Waited, Gone
        <4>2. CASE ~(c < job)
          <5>1. pc = "wait" /\ c = job /\ c <= trapped
            BY <3>1, <4>2, <2>2 DEF TypeOK, Clients, Started
          <5>2. client[c] # "none"
            BY <5>1 DEF Started
          <5>3. client'[c] # "running" /\ client'[c] # "none" /\ client'[c] \in Statuses
            BY <5>1, <5>2, <2>3, <2>5 DEF TypeOK
          <5> QED BY <5>3 DEF Statuses, Gone
        <4> QED BY <4>1, <4>2
      <3> QED BY <3>1, <2>1, <2>2 DEF Waited, Reported
    <2>8. \A c \in Clients : c < job => (c \in Bad' <=> c \in Bad)
      BY <2>3 DEF Bad, Waited, Gone
    <2>9. Counted'
      <3>1. CASE UNCHANGED <<FAIL, job>>
        <4>1. BadBefore' = BadBefore
          BY <3>1, <2>8 DEF BadBefore, Bad
        <4> QED BY <3>1, <4>1, <1>0, <2>4 DEF Counted
      <3>2. CASE pc = "wait" /\ job <= pidlist /\ FAIL' = FAIL + 1 /\ job' = job + 1
        <4>1. job \in Clients BY <3>2 DEF TypeOK, Clients, Started
        <4>2. /\ Cardinality(BadBefore) \in Nat
              /\ Cardinality(BadBefore') \in
                     {Cardinality(BadBefore), Cardinality(BadBefore) + 1}
          BY <4>1, <2>8, <3>2, WaitAddsOne
        <4> QED BY <3>2, <4>2, <1>0, <2>4 DEF Counted, TypeOK
      <3> QED BY <3>1, <3>2, <2>2
    <2> QED BY <2>5, <2>6, <2>7, <2>9
  <1> QED BY <1>1, <1>2

\* A client that ends was not among those waited for, or was bad already.
LEMMA ClientInv ==
    ASSUME IInv, NEW c \in Clients, ClientEnds(c)
    PROVE  IInv'
  <1> USE CountAssumption DEF IInv
  <1>1. UNCHANGED <<pc, pidlist, trapped, job, FAIL, signal, signals>>
    BY DEF ClientEnds
  <1>2. /\ \A d \in Clients : d # c => client'[d] = client[d]
        /\ \/ client[c] = "running" /\ client'[c] \in {"ok", "failed"}
           \/ client[c] = "terminated" /\ client'[c] = "killed"
        /\ client' \in [Clients -> Statuses]
    BY DEF ClientEnds, TypeOK, Statuses
  <1>3. TypeOK' BY <1>1, <1>2 DEF TypeOK
  <1>4. Started'
    BY <1>1, <1>2 DEF Started, Spawning, Reported, TypeOK, Clients
  <1>5. Waited' BY <1>1, <1>2 DEF Waited, Reported, Gone
  <1>6. BadBefore' = BadBefore
    BY <1>1, <1>2 DEF BadBefore, Bad, Waited, Gone
  <1>7. Counted' BY <1>1, <1>2, <1>6 DEF Counted
  <1> QED BY <1>3, <1>4, <1>5, <1>7

\* A signal that arrives is only noted.
LEMMA SignalInv ==
    ASSUME IInv, SignalArrives \/ UNCHANGED vars
    PROVE  IInv'
  <1> USE CountAssumption DEF IInv, SignalArrives, vars
  <1>1. UNCHANGED <<pc, client, pidlist, trapped, job, FAIL>> OBVIOUS
  <1>2. TypeOK'
    <2>1. signals' \in 0..MaxSignals BY DEF TypeOK
    <2>2. signal' \in BOOLEAN BY DEF TypeOK
    <2> QED BY <1>1, <2>1, <2>2 DEF TypeOK
  <1>3. Started' BY <1>1 DEF Started, Spawning, Reported
  <1>4. Waited' BY <1>1 DEF Waited, Reported
  <1>5. BadBefore' = BadBefore BY <1>1 DEF BadBefore, Bad
  <1>6. Counted' BY <1>1, <1>5 DEF Counted, TypeOK
  <1> QED BY <1>2, <1>3, <1>4, <1>6

\* Every step keeps the invariant.
LEMMA InvStep == IInv /\ [Next]_vars => IInv'
  <1> SUFFICES ASSUME IInv, [Next]_vars PROVE IInv' OBVIOUS
  <1>1. CASE Spawn \/ AppendPid \/ SetTrap \/ Sleep \/ DoneSpawning
    BY <1>1, SpawningInv
  <1>2. CASE WaitReturns BY <1>2, WaitInv
  <1>3. CASE Report BY <1>3, ReportInv
  <1>4. CASE RunTrap BY <1>4, TrapInv
  <1>5. CASE SignalArrives \/ UNCHANGED vars BY <1>5, SignalInv
  <1>6. CASE \E c \in Clients : ClientEnds(c) BY <1>6, ClientInv
  <1> QED BY <1>1, <1>2, <1>3, <1>4, <1>5, <1>6 DEF Next, Launcher, Finished

-----------------------------------------------------------------------------

\* The invariant holds in every state of the launcher.
THEOREM InductiveInvariant == Spec => []IInv
  <1> QED BY InitInv, InvStep, PTL DEF Spec

\* What the launcher prints when no client failed: all clients succeeded.
THEOREM SuccessIsTruth == Spec => []SuccessIsTrue
  <1>1. IInv => SuccessIsTrue
    <2> SUFFICES ASSUME IInv, pc = "succeeded", NEW c \in Clients
                 PROVE  client[c] = "ok"
      BY DEF SuccessIsTrue
    <2>1. job = Count + 1 /\ FAIL = 0
      BY DEF IInv, Waited, Reported
    <2>2. BadBefore = {}
      <3>1. IsFiniteSet(BadBefore) /\ Cardinality(BadBefore) \in Nat
        BY ClientsAreFinite DEF BadBefore, Bad
      <3>2. Cardinality(BadBefore) = 0 BY <2>1, <3>1 DEF IInv, Counted
      <3> QED BY <3>1, <3>2, FS_EmptySet
    <2>3. c < job BY <2>1, CountAssumption DEF Clients
    <2>4. c \notin Bad BY <2>2, <2>3 DEF BadBefore
    <2> QED BY <2>3, <2>4 DEF IInv, Waited, Bad, Gone
  <1> QED BY <1>1, InductiveInvariant, PTL

\* The number of crashed clients it prints misses none of them.
THEOREM CrashesAreCounted == Spec => []CrashesCounted
  <1>1. IInv => CrashesCounted
    <2> SUFFICES ASSUME IInv, pc = "crashed" PROVE CrashesCounted
      BY DEF CrashesCounted
    <2>1. job = Count + 1 BY DEF IInv, Waited, Reported
    <2>2. BadBefore = Bad
      BY <2>1, CountAssumption DEF BadBefore, Bad, Clients
    <2> QED BY <2>2 DEF IInv, Counted, CrashesCounted
  <1> QED BY <1>1, InductiveInvariant, PTL

\* A launcher that reports leaves no client running that was not told to stop.
THEOREM LauncherCorrect == Spec => []LauncherInv
  <1>1. IInv => LauncherInv
    <2> SUFFICES ASSUME IInv, pc \in {"succeeded", "crashed"}, NEW c \in Clients
                 PROVE  client[c] # "running"
      BY DEF IInv, LauncherInv, NobodyLeftRunning
    <2>1. c < job BY CountAssumption DEF IInv, Waited, Reported, Clients
    <2> QED BY <2>1 DEF IInv, Waited, Gone
  <1> QED BY <1>1, InductiveInvariant, PTL

=============================================================================
