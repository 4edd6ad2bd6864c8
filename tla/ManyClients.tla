---------------------------- MODULE ManyClients -----------------------------
(***************************************************************************)
(* src/manyclients.sh: the launcher of the stress test.  It starts a       *)
(* number of clients, waits for each in turn and reports how many failed.  *)
(* A client is a run of SocketIOClient seen from outside: it ends with     *)
(* status 0 or another.  SIGINT and SIGTERM reach the launcher at any      *)
(* time; bash runs the trap between two commands, interrupting only the    *)
(* wait builtin, which then returns a status other than 0.                 *)
(***************************************************************************)
EXTENDS Naturals, FiniteSets

CONSTANTS
    Count,         \* the number of clients asked for
    MaxSignals     \* bound: signals the launcher receives

ASSUME CountAssumption == Count \in Nat /\ MaxSignals \in Nat

VARIABLES
    pc,            \* the command the launcher is at
    client,        \* what has become of each client
    pidlist,       \* how many clients PIDLIST holds
    trapped,       \* how many clients the trap kills; 0 for no trap
    job,           \* the client waited for
    FAIL,
    signal,        \* a signal waits for its trap
    signals        \* history: signals received

vars == <<pc, client, pidlist, trapped, job, FAIL, signal, signals>>

Clients == 1..Count
Statuses == {"none", "running", "terminated", "ok", "failed", "killed"}
Gone == {"ok", "failed", "killed"}

\* The launcher runs its next command, pending traps first.
At(command) == pc = command /\ ~signal

Spawn ==
    /\ At("spawn") /\ pidlist < Count
    /\ client' = [client EXCEPT ![pidlist + 1] = "running"]
    /\ pc' = "append"
    /\ UNCHANGED <<pidlist, trapped, job, FAIL, signal, signals>>

AppendPid ==
    /\ At("append")
    /\ pidlist' = pidlist + 1
    /\ pc' = "trap"
    /\ UNCHANGED <<client, trapped, job, FAIL, signal, signals>>

\* Wrong variant: the trap is set once, for the first client.
SetTrapOnce ==
    /\ At("trap")
    /\ trapped' = IF trapped = 0 THEN pidlist ELSE trapped
    /\ pc' = "sleep"
    /\ UNCHANGED <<client, pidlist, job, FAIL, signal, signals>>

\* $PIDLIST is expanded when the trap is set, not when it runs.
SetTrap ==
    /\ At("trap")
    /\ trapped' = pidlist
    /\ pc' = "sleep"
    /\ UNCHANGED <<client, pidlist, job, FAIL, signal, signals>>

Sleep ==
    /\ At("sleep")
    /\ pc' = "spawn"
    /\ UNCHANGED <<client, pidlist, trapped, job, FAIL, signal, signals>>

DoneSpawning ==
    /\ At("spawn") /\ pidlist = Count
    /\ pc' = "wait"
    /\ UNCHANGED <<client, pidlist, trapped, job, FAIL, signal, signals>>

\* Wrong variant: only the last status counts.
WaitReturnsLast ==
    /\ At("wait") /\ job <= pidlist
    /\ client[job] \in Gone
    /\ FAIL' = IF client[job] = "ok" THEN 0 ELSE 1
    /\ job' = job + 1
    /\ UNCHANGED <<pc, client, pidlist, trapped, signal, signals>>

\* Wrong variant: a client that failed is waited for once more, for ever.
WaitReturnsOk ==
    /\ At("wait") /\ job <= pidlist
    /\ client[job] = "ok"
    /\ job' = job + 1
    /\ UNCHANGED <<pc, client, pidlist, trapped, FAIL, signal, signals>>

\* wait $job || let "FAIL+=1"
WaitReturns ==
    /\ At("wait") /\ job <= pidlist
    /\ client[job] \in Gone
    /\ FAIL' = IF client[job] = "ok" THEN FAIL ELSE FAIL + 1
    /\ job' = job + 1
    /\ UNCHANGED <<pc, client, pidlist, trapped, signal, signals>>

Report ==
    /\ At("wait") /\ job > pidlist
    /\ pc' = IF FAIL = 0 THEN "succeeded" ELSE "crashed"
    /\ UNCHANGED <<client, pidlist, trapped, job, FAIL, signal, signals>>

Over == pc \in {"succeeded", "crashed", "interrupted"}

SignalArrives ==
    /\ ~Over /\ signals < MaxSignals
    /\ signal' = TRUE /\ signals' = signals + 1
    /\ UNCHANGED <<pc, client, pidlist, trapped, job, FAIL>>

\* Wrong variant: an interrupted wait is not counted.
RunTrapUncounted ==
    /\ signal /\ ~Over /\ trapped > 0
    /\ signal' = FALSE
    /\ client' = [c \in Clients |->
           IF c <= trapped /\ client[c] = "running"
           THEN "terminated" ELSE client[c]]
    /\ job' = IF pc = "wait" /\ job <= pidlist THEN job + 1 ELSE job
    /\ UNCHANGED <<pc, FAIL, pidlist, trapped, signals>>

\* kill $PIDLIST, and a wait that is under way returns a status above 128.
\* Without a trap yet, the launcher dies of the signal.
RunTrap ==
    /\ signal /\ ~Over
    /\ signal' = FALSE
    /\ IF trapped = 0
       THEN pc' = "interrupted" /\ UNCHANGED <<client, job, FAIL>>
       ELSE /\ client' = [c \in Clients |->
                  IF c <= trapped /\ client[c] = "running"
                  THEN "terminated" ELSE client[c]]
            /\ \/ UNCHANGED <<FAIL, job>>
               \/ /\ pc = "wait" /\ job <= pidlist
                  /\ FAIL' = FAIL + 1 /\ job' = job + 1
            /\ UNCHANGED pc
    /\ UNCHANGED <<pidlist, trapped, signals>>

ClientEnds(c) ==
    /\ \/ /\ client[c] = "running"
          /\ \E s \in {"ok", "failed"} : client' = [client EXCEPT ![c] = s]
       \/ /\ client[c] = "terminated"
          /\ client' = [client EXCEPT ![c] = "killed"]
    /\ UNCHANGED <<pc, pidlist, trapped, job, FAIL, signal, signals>>

Init ==
    /\ pc = "spawn" /\ client = [c \in Clients |-> "none"]
    /\ pidlist = 0 /\ trapped = 0 /\ job = 1 /\ FAIL = 0
    /\ signal = FALSE /\ signals = 0

Launcher ==
    \/ Spawn \/ AppendPid \/ SetTrap \/ Sleep \/ DoneSpawning
    \/ WaitReturns \/ Report \/ RunTrap

Finished == Over /\ UNCHANGED vars

Next ==
    \/ Launcher \/ SignalArrives \/ Finished
    \/ \E c \in Clients : ClientEnds(c)

Spec == Init /\ [][Next]_vars

\* The launcher runs, and every client ends by itself or by the kill.
Fairness ==
    /\ WF_vars(Launcher)
    /\ \A c \in Clients : WF_vars(ClientEnds(c))

FairSpec == Spec /\ Fairness

-----------------------------------------------------------------------------

TypeOK ==
    /\ pc \in {"spawn", "append", "trap", "sleep", "wait",
               "succeeded", "crashed", "interrupted"}
    /\ client \in [Clients -> Statuses]
    /\ pidlist \in 0..Count /\ trapped \in 0..Count
    /\ job \in 1..(Count + 1) /\ FAIL \in 0..Count
    /\ signal \in BOOLEAN /\ signals \in 0..MaxSignals

Bad == {c \in Clients : client[c] \in {"terminated", "failed", "killed"}}

\* "All clients completed succesfully." is true whenever it is printed:
\* every client asked for was started and exited with status 0, also when
\* traps interrupted the waiting.
SuccessIsTrue == pc = "succeeded" => \A c \in Clients : client[c] = "ok"

\* "O noes (n) clients crashed!" misses no client: n counts every client that
\* failed or was killed, and without signals nothing else.
CrashesCounted ==
    pc = "crashed" => /\ FAIL >= Cardinality(Bad)
                      /\ signals = 0 => FAIL = Cardinality(Bad)

\* When the launcher reports, no client runs that it has not told to stop,
\* although the list in the trap is a copy of an older PIDLIST.
NobodyLeftRunning ==
    pc \in {"succeeded", "crashed"} =>
        \A c \in Clients : client[c] # "running"

\* The variables have their types, and nobody is left running.
LauncherInv == TypeOK /\ NobodyLeftRunning

\* The launcher ends when its clients do.
LauncherEnds == <>Over

=============================================================================
